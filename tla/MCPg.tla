--------------------------------- MODULE MCPg ---------------------------------
(* The discs that scans find, and what two taggers may be asked for.       *)
EXTENDS PgProperties

CONSTANTS p1, p2, h1, h2, x, y

MCDiscs == {<<[path |-> p1, hash |-> h1], [path |-> p2, hash |-> h2]>>}

\* Two of the longer disc are more files than there are ids.
DiscsOfTwoLengths == MCDiscs \cup {<<[path |-> p1, hash |-> h2]>>}

Ask(op, tags, owner) == [op |-> op, by |-> "ids", ids |-> {1, 2, 3},
                         paths |-> {}, tags |-> tags, owner |-> owner]
AskGlobs(op, tags, owner) == [op |-> op, by |-> "globs", ids |-> {},
                              paths |-> {p1}, tags |-> tags, owner |-> owner]

OneRequest == {Ask("add", <<x>>, InvalidGroupID)}

ManyRequests == { Ask("add", <<x>>, 2),
                  AskGlobs("add", <<x, y>>, InvalidGroupID),
                  AskGlobs("remove", <<x>>, 1),
                  AskGlobs("remove", <<x, y>>, InvalidGroupID),
                  AskGlobs("clear", <<x>>, 1),
                  AskGlobs("clear", <<x>>, InvalidGroupID) }

MCAsks == {{1, 2}}
=============================================================================
