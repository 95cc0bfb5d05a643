-------------------------- MODULE LeastRecentlyUsed --------------------------
(***************************************************************************)
(* What a cache of listings promises: it holds no more than Capacity       *)
(* answers, one for each key, and when it is full a new answer takes the   *)
(* place of the one that was used least recently.                          *)
(***************************************************************************)
EXTENDS Integers, FiniteSets

CONSTANT Capacity

VARIABLES
  held,   \* a function from keys to answers
  older   \* <<j, k>> : j was used less recently than k

Init ==
  /\ held = << >>
  /\ older = {}

Keys == DOMAIN held

Oldest == {k \in Keys : \A j \in Keys : <<j, k>> \notin older}

\* The answer for k is wanted again.
Use(k) ==
  /\ k \in Keys
  /\ held' = held
  /\ older' = {p \in older : p[1] # k} \cup ((Keys \ {k}) \X {k})

\* An answer for k that the cache did not hold is added to it.
Add(k) ==
  LET stay == IF Cardinality(Keys) < Capacity THEN Keys ELSE Keys \ Oldest IN
  /\ k \notin Keys
  /\ DOMAIN held' = stay \cup {k}
  /\ \A j \in stay : held'[j] = held[j]
  /\ older' = {p \in older : p[1] \in stay /\ p[2] \in stay} \cup (stay \X {k})

Next == \E k \in DOMAIN held' : Use(k) \/ Add(k)

Spec == Init /\ [][Next]_<<held, older>>
=============================================================================
