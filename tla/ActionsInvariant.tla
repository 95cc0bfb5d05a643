--------------------------- MODULE ActionsInvariant ---------------------------
(***************************************************************************)
(* The inductive invariant behind what a user of `dindexer` may rely on:   *)
(* how the number that the first pass counts and the list that the second  *)
(* makes compare with what is in the directory, while nobody removes an    *)
(* action, or nobody installs one.                                         *)
(***************************************************************************)
EXTENDS ActionsProperties

Actual(S) == {e \in S : e.kind # "bare"}

Unread == sure \cup maybe

\* Installed all the time so far.
Steady == installed \ (Changes("install") \cup Changes("remove"))

\* A directory holds finitely many entries.
FiniteDirectory == IsFiniteSet(installed) /\ IsFiniteSet(maybe)

\* What was ever seen is there, or was removed.
SeenOrRemoved ==
  Unread \cup Range(list) \subseteq installed \cup Changes("remove")

\* Nothing removed: every action read was counted, and listed if counted.
ReadIsCounted ==
  Changes("remove") = {} =>
    LET read == Cardinality(Actual(installed \ Unread)) IN
      /\ pc = "count" => count = read
      /\ pc = "push" => /\ Len(list) = count \/ Len(list) = read
                        /\ count <= Cardinality(Actual(installed \ maybe))

\* Nothing installed: there is a place for every action still to be listed.
PlaceForAll ==
  Changes("install") = {} =>
    /\ pc = "count" => Cardinality(Actual(installed \ sure)) <= count
    /\ pc = "push" => Len(list) + Cardinality(Actual(Unread)) <= count

\* An action that is installed all the time is counted, and then listed.
SteadyOnesSeen ==
  \A e \in Actual(Steady) :
    /\ IF pc = "count" THEN e \in sure \/ count > 0 ELSE count > 0
    /\ Changes("install") = {} =>
         /\ pc = "push" => e \in sure \/ e \in Range(list)
         /\ pc \in {"choose", "exec", "ended"} /\ result # "undefined" =>
              e \in Range(list)

\* How a run ends, by what was typed and what is on the list.
Outcome ==
  /\ pc = "count" => list = <<>>
  /\ pc # "ended" => result = "running"
  /\ result \in {"usage", "shown"} => ManageCommandline # "running"
  /\ result = "no_actions" => count = 0
  /\ result \in {"hint", "unknown"} => SameAction = {}
  /\ pc = "exec" \/ result = "exec_failed" =>
       named \in Entries /\ named.name = Typed /\ named \in Range(list)
  /\ result = "exec_failed" => named \notin installed

ReadingInv ==
  /\ ActionsInv
  /\ FiniteDirectory
  /\ SeenOrRemoved
  /\ ReadIsCounted
  /\ PlaceForAll
  /\ SteadyOnesSeen
  /\ Outcome
=============================================================================
