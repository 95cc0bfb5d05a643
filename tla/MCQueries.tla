------------------------------ MODULE MCQueries ------------------------------
(* Small instances of the queries on the Redis backend. *)
EXTENDS RedisQueriesInvariant

CONSTANTS h1, h2, h3, t1, s1, s2

MCHashes == {h1, h2, h3}
MCTags == {t1}
MCDiscs == {<<h2, h1>>, <<h1>>}
MCPatterns == {{h1}, {h1, h2}}

\* h2 is a directory that holds h1; h3 is one that only the local disc has,
\* and holds both.
MCInside == [h \in MCHashes |-> CASE h = h1 -> {} [] h = h2 -> {h1} [] h = h3 -> {h1, h2}]

(* A catalogue with one set in it: s1 has connected, scanned a directory   *)
(* that holds one file and ended, somebody has tagged that file, then      *)
(* everybody but s2 has connected, and the last of them loaded the         *)
(* scripts.                                                                *)
MCInit ==
  /\ indices = [set |-> 1, files |-> 2]
  /\ sets = [g \in SetIds |-> IF g = 1 THEN [base |-> 1, count |-> 2] ELSE NoSet]
  /\ files = [f \in FileIds |->
                CASE f = 1 -> [group |-> 1, hash |-> h2, tags |-> {}]
                  [] f = 2 -> [group |-> 1, hash |-> h1, tags |-> {t1}]
                  [] OTHER -> NoFile]
  /\ hashes = [h \in MCHashes |-> CASE h = h1 -> {2} [] h = h2 -> {1} [] h = h3 -> {}]
  /\ levels = [g \in SetIds |-> IF g = 1 THEN {1, 2} ELSE {}]
  /\ tags = [t \in Tags |-> {2}]
  /\ scripts = ScriptNames
  /\ pc = [c \in Clients |-> CASE c = s1 -> "done" [] c = s2 -> "connect"
                               [] OTHER -> "start"]
  /\ err = [c \in Clients |-> FALSE]
  /\ scan = [c \in Scanners |->
               IF c = s1 THEN [disc |-> <<h2, h1>>, hit |-> 0, owner |-> 0,
                               group |-> 1, base |-> 1, written |-> 2]
                         ELSE [disc |-> <<h1>>, hit |-> 0, owner |-> 0,
                               group |-> 0, base |-> 0, written |-> 0]]
  /\ edit = [c \in Editors |->
               [mode |-> "clear", owner |-> InvalidGroupID, target |-> {},
                reads |-> {}, seen |-> {}, work |-> {}]]
  /\ dele = [c \in Deleters |->
               [ask |-> {}, ranges |-> {}, left |-> {}, cur |-> NoRange,
                calls |-> {}, dels |-> <<>>]]
  /\ QueriesInit

MCSpec == MCInit /\ [][QNext]_queryVars
=============================================================================
