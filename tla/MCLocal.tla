------------------------------- MODULE MCLocal -------------------------------
(* Small local directories, and ways to type where they are. *)
EXTENDS LocateLocalProperties

\* The letters after dot and slash.
A == <<2>>
B == <<3>>
ADot == <<2, Dot>>
AB == <<2, 3>>

MCRoots == { [text |-> <<4>>, names |-> <<<<4>>>>],
             [text |-> <<Slash>>, names |-> <<>>],
             [text |-> <<Dot, Slash>>, names |-> <<<<Dot>>>>],
             [text |-> <<Slash, 3, Slash, 2, 3>>, names |-> <<B, AB>>],
             [text |-> <<2, Slash, Slash, 3>>, names |-> <<A, B>>] }

At(path, kind) == [path |-> path, dir |-> kind]

MCItems == {At(<<>>, FALSE)}
  \cup {At(p, TRUE) : p \in {<<A>>, <<A, A>>, <<A, A, A>>, <<AB>>, <<B>>}}
  \cup {At(p, FALSE) : p \in {<<ADot>>, <<A, B>>, <<A, A, B>>, <<AB>>, <<B>>, <<B, A>>}}

\* Whatever is there is in a directory, and has a name of its own.
IsLocal(S) ==
  /\ \A e \in S : e.path # <<>> => At(Front(e.path), TRUE) \in S
  /\ \A d, e \in S : d.path = e.path => d = e

MCLocals == {S \in SUBSET (MCItems \cup {RootDir}) : S # {} /\ IsLocal(S)}
=============================================================================
