---------------------------- MODULE ActionsProofs ----------------------------
(***************************************************************************)
(* What the directory of actions is read as, whoever installs and removes  *)
(* actions between and during the two passes: every step keeps ReadingInv. *)
(***************************************************************************)
EXTENDS ActionsInvariant, FiniteSetTheorems, WellFoundedInduction, TLAPS

-----------------------------------------------------------------------------
(* Data.                                                                   *)

\* A non-empty set of places has a first.
LEMMA FirstPlace ==
  ASSUME NEW S, S \subseteq Nat, S # {}
  PROVE  ForeachAvailAction(S) # {}
<1> DEFINE less == {ss \in Nat \X Nat : ss[1] < ss[2]}
<1>1. IsWellFoundedOn(less, Nat)
  BY NatLessThanWellFounded DEF OpToRel
<1>2. PICK x \in S : \A y \in S : ~ (<<y, x>> \in less)
  BY <1>1, WFMin
<1>3. \A y \in S : <<y, x>> \in Nat \X Nat /\ <<y, x>>[1] = y /\ <<y, x>>[2] = x
  OBVIOUS
<1>4. \A y \in S : ~ (y < x)
  BY <1>2, <1>3
<1>5. \A y \in S : x <= y
  BY <1>4
<1>6. QED
  BY <1>5 DEF ForeachAvailAction

USE ActionsAssumption

\* Sorting keeps the actions, and how many they are.
LEMMA Sorted ==
  ASSUME TypeOK, NEW q \in SortedLists
  PROVE  q \in Seq(Entries) /\ Len(q) = Len(list) /\ Range(q) = Range(list)
<1>1. PICK p \in Orders : q = [i \in DOMAIN list |-> list[p[i]]]
  BY DEF SortedLists
<1>2. /\ p \in [DOMAIN list -> DOMAIN list]
      /\ \A i \in DOMAIN list : \E j \in DOMAIN list : p[j] = i
  BY DEF Orders, Range
<1>3. list \in Seq(Entries) /\ DOMAIN list = 1 .. Len(list) /\ Len(list) \in Nat
  BY DEF TypeOK
<1>4. q \in Seq(Entries) /\ Len(q) = Len(list)
  BY <1>1, <1>2, <1>3
<1>5. Range(q) = Range(list)
  BY <1>1, <1>2, <1>3 DEF Range
<1>6. QED
  BY <1>4, <1>5

\* What is appended to a list is on it, with what was there.
LEMMA Appended ==
  ASSUME NEW S, NEW q \in Seq(S), NEW x \in S
  PROVE  /\ Append(q, x) \in Seq(S) /\ Len(Append(q, x)) = Len(q) + 1
         /\ Range(Append(q, x)) = Range(q) \cup {x}
<1>1. PICK r : r = Append(q, x)
  OBVIOUS
<1>2. /\ r \in Seq(S) /\ Len(r) = Len(q) + 1 /\ DOMAIN r = 1 .. Len(q) + 1
      /\ \A i \in 1 .. Len(q) : r[i] = q[i]
      /\ r[Len(q) + 1] = x /\ DOMAIN q = 1 .. Len(q) /\ Len(q) \in Nat
  BY <1>1
<1>3. Range(r) = Range(q) \cup {x}
  BY <1>2 DEF Range
<1>4. QED
  BY <1>1, <1>2, <1>3

\* A change is remembered.
LEMMA ChangesAfter ==
  ASSUME TypeOK, NEW w \in {"install", "remove"}, NEW e \in Entries,
         changed' = Append(changed, [what |-> w, entry |-> e])
  PROVE  /\ changed' \in Seq([what : {"install", "remove"}, entry : Entries])
         /\ \A v : Changes(v)' = Changes(v) \cup (IF v = w THEN {e} ELSE {})
<1> DEFINE C == [what : {"install", "remove"}, entry : Entries]
<1>1. PICK c : c = [what |-> w, entry |-> e]
  OBVIOUS
<1>2. c \in C /\ c.what = w /\ c.entry = e /\ changed \in Seq(C)
  BY <1>1 DEF TypeOK
<1> HIDE DEF C
<1>3. changed' \in Seq(C) /\ Range(changed') = Range(changed) \cup {c}
  BY <1>1, <1>2, Appended
<1>4. \A v : Changes(v)' = Changes(v) \cup (IF v = w THEN {e} ELSE {})
  BY <1>2, <1>3 DEF Changes
<1>5. QED
  BY <1>3, <1>4 DEF C

\* Sets of actions that grow or shrink by one, or not at all.
LEMMA ActualSets ==
  ASSUME NEW S, IsFiniteSet(S)
  PROVE  /\ IsFiniteSet(Actual(S)) /\ Cardinality(Actual(S)) \in Nat
         /\ \A e : e.kind = "bare" => /\ Actual(S \cup {e}) = Actual(S)
                                      /\ Actual(S \ {e}) = Actual(S)
         /\ \A e : e.kind # "bare" /\ e \notin S =>
              Cardinality(Actual(S \cup {e})) = Cardinality(Actual(S)) + 1
         /\ \A e : e.kind # "bare" /\ e \in S =>
              /\ Cardinality(Actual(S \ {e})) = Cardinality(Actual(S)) - 1
              /\ Cardinality(Actual(S)) > 0
         /\ \A T : T \subseteq S => Cardinality(Actual(T)) <= Cardinality(Actual(S))
<1>1. IsFiniteSet(Actual(S)) /\ Cardinality(Actual(S)) \in Nat
  BY FS_Subset, FS_CardinalityType DEF Actual
<1>2. ASSUME NEW e, e.kind = "bare"
      PROVE  Actual(S \cup {e}) = Actual(S) /\ Actual(S \ {e}) = Actual(S)
  BY <1>2 DEF Actual
<1>3. ASSUME NEW e, e.kind # "bare", e \notin S
      PROVE  Cardinality(Actual(S \cup {e})) = Cardinality(Actual(S)) + 1
  <2>1. Actual(S \cup {e}) = Actual(S) \cup {e} /\ e \notin Actual(S)
    BY <1>3 DEF Actual
  <2>2. QED
    BY <1>1, <2>1, FS_AddElement
<1>4. ASSUME NEW e, e.kind # "bare", e \in S
      PROVE  /\ Cardinality(Actual(S \ {e})) = Cardinality(Actual(S)) - 1
             /\ Cardinality(Actual(S)) > 0
  <2>1. Actual(S \ {e}) = Actual(S) \ {e} /\ e \in Actual(S)
    BY <1>4 DEF Actual
  <2>2. Cardinality(Actual(S)) # 0
    BY <1>1, <2>1, FS_EmptySet
  <2>3. Cardinality(Actual(S) \ {e}) = Cardinality(Actual(S)) - 1
    BY <1>1, <2>1, FS_RemoveElement
  <2>4. Cardinality(Actual(S \ {e})) = Cardinality(Actual(S)) - 1
    BY <2>1, <2>3
  <2>5. QED
    BY <1>1, <2>2, <2>4
<1>5. ASSUME NEW T, T \subseteq S
      PROVE  Cardinality(Actual(T)) <= Cardinality(Actual(S))
  <2>1. Actual(T) \in SUBSET Actual(S)
    BY <1>5 DEF Actual
  <2>2. QED
    BY <1>1, <2>1, FS_Subset
<1>6. QED
  BY <1>1, <1>2, <1>3, <1>4, <1>5

\* Entries are of three kinds; lstat knows what is installed.
LEMMA EntryFacts ==
  ASSUME TypeOK, NEW e \in Entries
  PROVE  /\ e.kind \in {"program", "folder", "bare"}
         /\ Lstat(e) \subseteq Modes
         /\ e \in installed => \A mode \in Lstat(e) : IsAction(e, mode) <=> e.kind # "bare"
         /\ \A mode : IsAction(e, mode) => e.kind # "bare"
BY DEF TypeOK, Lstat, Mode, Modes, IsAction

-----------------------------------------------------------------------------
(* The steps.                                                              *)

\* What is read, in either pass, is part of what is installed or was there.
LEMMA Finite ==
  ASSUME ReadingInv
  PROVE  /\ IsFiniteSet(sure) /\ IsFiniteSet(Unread)
         /\ IsFiniteSet(installed \ Unread) /\ IsFiniteSet(installed \ sure)
         /\ IsFiniteSet(installed \ maybe)
<1>1. IsFiniteSet(installed) /\ IsFiniteSet(maybe) /\ sure \subseteq installed
  BY DEF ReadingInv, ActionsInv, TypeOK, FiniteDirectory
<1>2. IsFiniteSet(sure)
  BY <1>1, FS_Subset
<1>3. IsFiniteSet(Unread)
  BY <1>1, <1>2, FS_Union DEF Unread
<1>4. \A S \in SUBSET installed : IsFiniteSet(S)
  BY <1>1, FS_Subset
<1>5. QED
  BY <1>2, <1>3, <1>4

\* A run begins with nothing read.
LEMMA InitInv ==
  ASSUME Init
  PROVE  ReadingInv
<1>1. /\ installed \in Installed /\ changed = <<>> /\ pc = "count"
      /\ sure = installed /\ maybe = {} /\ st \in Modes
      /\ count = 0 /\ list = <<>> /\ args \in CommandLines
      /\ result = "running" /\ named = NoEntry
  BY DEF Init
<1>2. Range(changed) = {} /\ Range(list) = {}
  BY <1>1 DEF Range
<1>3. \A v : Changes(v) = {}
  BY <1>2 DEF Changes
<1>4. TypeOK
  BY <1>1 DEF TypeOK, Results
<1>5. IsFiniteSet(installed) /\ IsFiniteSet(maybe)
  BY <1>1, FS_EmptySet
<1>6. /\ Unread = installed /\ Actual(installed \ Unread) = {}
      /\ Actual(installed \ sure) = {}
  BY <1>1 DEF Unread, Actual
<1>7. Cardinality({}) = 0
  BY FS_EmptySet
<1>8. ActionsInv /\ SeenOrRemoved /\ FiniteDirectory
  BY <1>1, <1>2, <1>4, <1>5, <1>6
  DEF ActionsInv, UnsetOnlyAfterRemoval, SeenOrRemoved, FiniteDirectory
<1>9. ReadIsCounted /\ PlaceForAll
  <2>1. /\ Cardinality(Actual(installed \ Unread)) = 0
        /\ Cardinality(Actual(installed \ sure)) = 0
    BY <1>6, <1>7
  <2>2. QED
    BY <1>1, <2>1 DEF ReadIsCounted, PlaceForAll
<1>10. SteadyOnesSeen /\ Outcome
  BY <1>1 DEF SteadyOnesSeen, Outcome, Actual, Steady
<1>11. QED
  BY <1>8, <1>9, <1>10 DEF ReadingInv

\* Reading an entry counts or lists it, if it is an action as far as lstat says.
LEMMA ReadFacts ==
  ASSUME ReadingInv, NEW e \in Entries, Read(e)
  PROVE  /\ pc' = pc /\ pc \in {"count", "push"} /\ e \in Unread
         /\ installed' = installed /\ changed' = changed /\ args' = args
         /\ result' = result /\ named' = named /\ st' \in Modes
         /\ sure' = sure \ {e} /\ maybe' = maybe \ {e} /\ Unread' = Unread \ {e}
         /\ \A v : Changes(v)' = Changes(v)
         /\ \/ /\ pc = "count" /\ count' = count + 1 /\ list' = list
               /\ e.kind # "bare"
            \/ /\ pc = "count" /\ count' = count /\ list' = list
               /\ e \in installed => e.kind = "bare"
            \/ /\ pc = "push" /\ count' = count /\ list' = Append(list, e)
               /\ e.kind # "bare" /\ Len(list) < count
            \/ /\ pc = "push" /\ count' = count /\ list' = list
               /\ e \in installed => e.kind = "bare" \/ Len(list) >= count
<1>1. TypeOK
  BY DEF ReadingInv, ActionsInv
<1>2. PICK mode \in Lstat(e) :
        /\ st' = mode
        /\ IF pc = "count" THEN Increase(e, mode) ELSE PushAction(e, mode)
  BY DEF Read
<1>3. /\ mode \in Modes /\ IsAction(e, mode) \in BOOLEAN
      /\ IsAction(e, mode) => e.kind # "bare"
      /\ e \in installed => (IsAction(e, mode) <=> e.kind # "bare")
  <2>1. IsAction(e, mode) \in BOOLEAN
    BY DEF IsAction
  <2>2. QED
    BY <1>1, <1>2, <2>1, EntryFacts
<1>4. /\ pc' = pc /\ pc \in {"count", "push"} /\ e \in Unread
      /\ installed' = installed /\ changed' = changed /\ args' = args
      /\ result' = result /\ named' = named /\ st' \in Modes
      /\ sure' = sure \ {e} /\ maybe' = maybe \ {e} /\ Unread' = Unread \ {e}
  BY <1>2, <1>3 DEF Read, Unread
<1>5. \A v : Changes(v)' = Changes(v)
  BY <1>4 DEF Changes
<1>6. count \in Nat /\ Len(list) \in Nat
  BY <1>1 DEF TypeOK
<1>7. CASE pc = "count"
  <2>1. count' = (count + IF IsAction(e, mode) THEN 1 ELSE 0) /\ list' = list
    BY <1>2, <1>7 DEF Increase
  <2>2. CASE IsAction(e, mode)
    BY <1>3, <1>4, <1>5, <1>7, <2>1, <2>2
  <2>3. CASE ~ IsAction(e, mode)
    BY <1>3, <1>4, <1>5, <1>6, <1>7, <2>1, <2>3
  <2>4. QED
    BY <2>2, <2>3
<1>8. CASE pc = "push"
  <2>1. /\ list' = IF IsAction(e, mode) /\ Len(list) < count
                   THEN Append(list, e) ELSE list
        /\ count' = count
    BY <1>2, <1>8 DEF PushAction
  <2>2. CASE IsAction(e, mode) /\ Len(list) < count
    BY <1>3, <1>4, <1>5, <1>8, <2>1, <2>2
  <2>3. CASE ~ (IsAction(e, mode) /\ Len(list) < count)
    <3>1. list' = list
      BY <2>1, <2>3
    <3>2. e \in installed => e.kind = "bare" \/ Len(list) >= count
      BY <1>3, <1>6, <2>3
    <3>3. QED
      BY <1>4, <1>5, <1>8, <2>1, <3>1, <3>2
  <2>4. QED
    BY <2>2, <2>3
<1>9. QED
  BY <1>4, <1>7, <1>8

\* Nothing is lost or counted twice when an entry is read.
LEMMA ReadKeepsCounts ==
  ASSUME ReadingInv, NEW e \in Entries, Read(e)
  PROVE  ReadIsCounted' /\ PlaceForAll'
<1>1. TypeOK /\ SeenOrRemoved /\ ReadIsCounted /\ PlaceForAll
  BY DEF ReadingInv, ActionsInv
<1>2. /\ count \in Nat /\ list \in Seq(Entries) /\ Len(list) \in Nat
      /\ Len(list) <= count
  BY <1>1 DEF TypeOK
<1>3. /\ pc' = pc /\ pc \in {"count", "push"} /\ e \in Unread
      /\ installed' = installed /\ Unread' = Unread \ {e}
      /\ sure' = sure \ {e} /\ maybe' = maybe \ {e}
      /\ \A v : Changes(v)' = Changes(v)
  BY ReadFacts
<1>4. \/ /\ pc = "count" /\ count' = count + 1 /\ Len(list') = Len(list)
         /\ e.kind # "bare"
      \/ /\ pc = "count" /\ count' = count /\ Len(list') = Len(list)
         /\ e \in installed => e.kind = "bare"
      \/ /\ pc = "push" /\ count' = count /\ Len(list') = Len(list) + 1
         /\ e.kind # "bare" /\ Len(list) < count
      \/ /\ pc = "push" /\ count' = count /\ Len(list') = Len(list)
         /\ e \in installed => e.kind = "bare" \/ Len(list) >= count
  <2>1. Len(Append(list, e)) = Len(list) + 1
    BY <1>2
  <2>2. QED
    BY <2>1, ReadFacts
<1>5. /\ IsFiniteSet(Unread) /\ IsFiniteSet(installed \ Unread)
      /\ IsFiniteSet(installed \ sure) /\ IsFiniteSet(installed \ maybe')
  <2>1. IsFiniteSet(installed)
    BY DEF ReadingInv, FiniteDirectory
  <2>2. IsFiniteSet(installed \ maybe')
    BY <2>1, FS_Subset
  <2>3. QED
    BY <2>2, Finite
<1>6. ReadIsCounted'
  <2>1. SUFFICES ASSUME Changes("remove") = {}
                 PROVE  /\ pc = "count" =>
                             count' = Cardinality(Actual(installed \ Unread'))
                        /\ pc = "push" =>
                             /\ \/ Len(list') = count'
                                \/ Len(list') = Cardinality(Actual(installed \ Unread'))
                             /\ count' <= Cardinality(Actual(installed \ maybe'))
    BY <1>3 DEF ReadIsCounted
  <2>2. e \in installed
    BY <1>1, <1>3, <2>1 DEF SeenOrRemoved
  <2>3. /\ installed \ Unread' = (installed \ Unread) \cup {e}
        /\ e \notin installed \ Unread
    BY <1>3, <2>2
  <2> DEFINE read == Cardinality(Actual(installed \ Unread))
             readAfter == Cardinality(Actual(installed \ Unread'))
  <2>4. /\ read \in Nat
        /\ e.kind = "bare" => readAfter = read
        /\ e.kind # "bare" => readAfter = read + 1
    BY <1>5, <2>3, ActualSets
  <2>5. /\ pc = "count" => count = read
        /\ pc = "push" => /\ Len(list) = count \/ Len(list) = read
                          /\ count <= Cardinality(Actual(installed \ maybe))
    BY <1>1, <2>1 DEF ReadIsCounted
  <2>6. /\ Cardinality(Actual(installed \ maybe)) \in Nat
        /\ Cardinality(Actual(installed \ maybe')) \in Nat
        /\ Cardinality(Actual(installed \ maybe)) <=
             Cardinality(Actual(installed \ maybe'))
    <3>1. installed \ maybe \subseteq installed \ maybe'
      BY <1>3
    <3>2. IsFiniteSet(installed \ maybe)
      BY Finite
    <3>3. QED
      BY <1>5, <3>1, <3>2, ActualSets
  <2> HIDE DEF read, readAfter
  <2>7. pc = "count" => count' = readAfter
    BY <1>2, <1>4, <2>2, <2>4, <2>5
  <2>8. pc = "push" => Len(list') = count' \/ Len(list') = readAfter
    BY <1>2, <1>4, <2>2, <2>4, <2>5
  <2>9. pc = "push" => count' <= Cardinality(Actual(installed \ maybe'))
    BY <1>2, <1>4, <2>5, <2>6
  <2>10. QED
    BY <2>7, <2>8, <2>9 DEF readAfter
<1>7. PlaceForAll'
  <2>1. SUFFICES ASSUME Changes("install") = {}
                 PROVE  /\ pc = "count" =>
                             Cardinality(Actual(installed \ sure')) <= count'
                        /\ pc = "push" =>
                             Len(list') + Cardinality(Actual(Unread')) <= count'
    BY <1>3 DEF PlaceForAll
  <2>2. /\ pc = "count" => Cardinality(Actual(installed \ sure)) <= count
        /\ pc = "push" => Len(list) + Cardinality(Actual(Unread)) <= count
    BY <1>1, <2>1 DEF PlaceForAll
  <2> DEFINE seen == Cardinality(Actual(installed \ sure))
             seenAfter == Cardinality(Actual(installed \ sure'))
             left == Cardinality(Actual(Unread))
             leftAfter == Cardinality(Actual(Unread'))
  <2>3. /\ seen \in Nat
        /\ e \notin installed => seenAfter = seen
        /\ e.kind = "bare" => seenAfter = seen
        /\ seenAfter = seen \/ seenAfter = seen + 1
    <3>1. sure \subseteq installed
      BY <1>1 DEF TypeOK
    <3>2. CASE e \in sure
      <4>1. /\ installed \ sure' = (installed \ sure) \cup {e}
            /\ e \notin installed \ sure /\ e \in installed
        BY <1>3, <3>1, <3>2
      <4>2. QED
        BY <1>5, <4>1, ActualSets
    <3>3. CASE e \notin sure
      <4>1. installed \ sure' = installed \ sure
        BY <1>3, <3>3
      <4>2. QED
        BY <1>5, <4>1, ActualSets
    <3>4. QED
      BY <3>2, <3>3
  <2>4. /\ left \in Nat
        /\ e.kind = "bare" => leftAfter = left
        /\ e.kind # "bare" => leftAfter = left - 1
    BY <1>3, <1>5, ActualSets
  <2> HIDE DEF seen, seenAfter, left, leftAfter
  <2>5. pc = "count" => seenAfter <= count'
    BY <1>2, <1>4, <2>2, <2>3 DEF seen
  <2>6. pc = "push" => Len(list') + leftAfter <= count'
    <3>1. pc = "push" => Len(list) + left <= count
      BY <2>2 DEF left
    <3>2. e.kind = "bare" \/ e.kind # "bare"
      OBVIOUS
    <3>3. QED
      BY <1>2, <1>4, <2>4, <3>1, <3>2
  <2>7. QED
    BY <2>5, <2>6 DEF seenAfter, leftAfter
<1>8. QED
  BY <1>6, <1>7

\* An action that is there all the time is not passed over.
LEMMA ReadKeepsSteady ==
  ASSUME ReadingInv, NEW e \in Entries, Read(e)
  PROVE  SteadyOnesSeen'
<1>1. TypeOK /\ SteadyOnesSeen /\ PlaceForAll
  BY DEF ReadingInv, ActionsInv
<1>2. /\ count \in Nat /\ list \in Seq(Entries) /\ Len(list) \in Nat
      /\ sure \subseteq installed
  BY <1>1 DEF TypeOK
<1>3. /\ pc' = pc /\ pc \in {"count", "push"} /\ e \in Unread
      /\ installed' = installed /\ sure' = sure \ {e}
      /\ \A v : Changes(v)' = Changes(v)
  BY ReadFacts
<1>4. \/ /\ pc = "count" /\ count' = count + 1 /\ list' = list
      \/ /\ pc = "count" /\ count' = count /\ list' = list
         /\ e \in installed => e.kind = "bare"
      \/ /\ pc = "push" /\ count' = count /\ list' = Append(list, e)
      \/ /\ pc = "push" /\ count' = count /\ list' = list
         /\ e \in installed => e.kind = "bare" \/ Len(list) >= count
  BY ReadFacts
<1>5. Actual(Steady)' = Actual(Steady)
  BY <1>3 DEF Actual, Steady
<1>6. SUFFICES ASSUME NEW x \in Actual(Steady)
               PROVE  /\ pc = "count" => x \in sure' \/ count' > 0
                      /\ pc = "push" => count' > 0
                      /\ Changes("install") = {} /\ pc = "push" =>
                           x \in sure' \/ x \in Range(list')
  BY <1>3, <1>5 DEF SteadyOnesSeen
<1>7. /\ x.kind # "bare" /\ x \in installed
      /\ IF pc = "count" THEN x \in sure \/ count > 0 ELSE count > 0
      /\ Changes("install") = {} /\ pc = "push" => x \in sure \/ x \in Range(list)
  BY <1>1, <1>6 DEF SteadyOnesSeen, Actual, Steady
<1>8. pc = "count" => x \in sure' \/ count' > 0
  BY <1>2, <1>3, <1>4, <1>7
<1>9. pc = "push" => count' > 0
  BY <1>2, <1>4, <1>7
<1>10. ASSUME Changes("install") = {}, pc = "push"
       PROVE  x \in sure' \/ x \in Range(list')
  <2>1. Range(list) \subseteq Range(list')
    <3>1. Range(Append(list, e)) = Range(list) \cup {e}
      BY <1>2, Appended
    <3>2. list' = list \/ list' = Append(list, e)
      BY <1>4
    <3>3. QED
      BY <3>1, <3>2
  <2>2. CASE x = e /\ x \in sure
    <3>1. Cardinality(Actual(Unread)) \in Nat /\ Cardinality(Actual(Unread)) > 0
      BY <1>3, <1>7, <2>2, Finite, ActualSets
    <3>2. Len(list) < count
      BY <1>1, <1>2, <1>10, <3>1 DEF PlaceForAll
    <3>3. list' = Append(list, e)
      BY <1>2, <1>4, <1>7, <1>10, <2>2, <3>2
    <3>4. e \in Range(list')
      BY <1>2, <3>3, Appended
    <3>5. QED
      BY <2>2, <3>4
  <2>3. CASE ~ (x = e /\ x \in sure)
    BY <1>3, <1>7, <1>10, <2>1, <2>3
  <2>4. QED
    BY <2>2, <2>3
<1>11. QED
  BY <1>8, <1>9, <1>10

\* Reading an entry keeps the invariant.
LEMMA ReadKeeps ==
  ASSUME ReadingInv, NEW e \in Entries, Read(e)
  PROVE  ReadingInv'
<1>1. TypeOK /\ UnsetOnlyAfterRemoval /\ FiniteDirectory /\ SeenOrRemoved /\ Outcome
  BY DEF ReadingInv, ActionsInv
<1>2. /\ count \in Nat /\ list \in Seq(Entries) /\ Len(list) \in Nat
      /\ Len(list) <= count
  BY <1>1 DEF TypeOK
<1>3. /\ pc' = pc /\ pc \in {"count", "push"} /\ e \in Unread
      /\ installed' = installed /\ changed' = changed /\ args' = args
      /\ result' = result /\ named' = named /\ st' \in Modes
      /\ sure' = sure \ {e} /\ maybe' = maybe \ {e} /\ Unread' = Unread \ {e}
      /\ \A v : Changes(v)' = Changes(v)
  BY ReadFacts
<1>4. /\ count' \in Nat /\ list' \in Seq(Entries) /\ Len(list') <= count'
      /\ Range(list') \subseteq Range(list) \cup {e}
      /\ pc = "count" => list' = list
  <2>1. \/ list' = list /\ (count' = count \/ count' = count + 1)
        \/ pc = "push" /\ count' = count /\ list' = Append(list, e) /\ Len(list) < count
    BY ReadFacts
  <2>2. CASE list' = list /\ (count' = count \/ count' = count + 1)
    BY <1>2, <2>2
  <2>3. CASE pc = "push" /\ count' = count /\ list' = Append(list, e) /\ Len(list) < count
    <3>1. /\ list' \in Seq(Entries) /\ Len(list') = Len(list) + 1
          /\ Range(list') = Range(list) \cup {e}
      BY <1>2, <2>3, Appended
    <3>2. QED
      BY <1>2, <2>3, <3>1
  <2>4. QED
    BY <2>1, <2>2, <2>3
<1>5. TypeOK'
  BY <1>1, <1>3, <1>4 DEF TypeOK
<1>6. UnsetOnlyAfterRemoval'
  BY <1>1, <1>3 DEF UnsetOnlyAfterRemoval
<1>7. FiniteDirectory'
  BY <1>1, <1>3, FS_Subset DEF FiniteDirectory
<1>8. SeenOrRemoved'
  BY <1>1, <1>3, <1>4 DEF SeenOrRemoved
<1>9. Outcome'
  BY <1>1, <1>3, <1>4 DEF Outcome
<1>10. QED
  BY <1>5, <1>6, <1>7, <1>8, <1>9, ReadKeepsCounts, ReadKeepsSteady
  DEF ReadingInv, ActionsInv

\* Installing an action keeps the invariant.
LEMMA InstallKeeps ==
  ASSUME ReadingInv, NEW e \in Entries, Install(e)
  PROVE  ReadingInv'
<1>1. /\ TypeOK /\ UnsetOnlyAfterRemoval /\ FiniteDirectory /\ SeenOrRemoved
      /\ ReadIsCounted /\ SteadyOnesSeen /\ Outcome
  BY DEF ReadingInv, ActionsInv
<1>2. /\ e \notin installed /\ pc # "ended"
      /\ changed' = Append(changed, [what |-> "install", entry |-> e])
      /\ installed' = installed \cup {e} /\ maybe' = maybe \cup {e}
      /\ pc' = pc /\ sure' = sure /\ st' = st /\ count' = count /\ list' = list
      /\ args' = args /\ result' = result /\ named' = named
  BY DEF Install, Change
<1>3. /\ changed' \in Seq([what : {"install", "remove"}, entry : Entries])
      /\ Changes("install")' = Changes("install") \cup {e}
      /\ Changes("remove")' = Changes("remove")
  BY <1>1, <1>2, ChangesAfter
<1>4. result = "running"
  BY <1>1, <1>2 DEF Outcome
<1>5. TypeOK'
  BY <1>1, <1>2, <1>3 DEF TypeOK
<1>6. UnsetOnlyAfterRemoval' /\ PlaceForAll'
  BY <1>2, <1>3, <1>4 DEF UnsetOnlyAfterRemoval, PlaceForAll
<1>7. FiniteDirectory'
  BY <1>1, <1>2, FS_AddElement DEF FiniteDirectory
<1>8. SeenOrRemoved'
  BY <1>1, <1>2, <1>3 DEF SeenOrRemoved, Unread
<1>9. ReadIsCounted'
  <2>1. Changes("remove") = {} => e \notin Unread
    BY <1>1, <1>2 DEF SeenOrRemoved
  <2>2. /\ Changes("remove") = {} => installed' \ Unread' = installed \ Unread
        /\ installed' \ maybe' = installed \ maybe
    BY <1>2, <2>1 DEF Unread
  <2>3. QED
    BY <1>1, <1>2, <1>3, <2>2 DEF ReadIsCounted
<1>10. SteadyOnesSeen'
  <2>1. Actual(Steady)' \subseteq Actual(Steady)
    BY <1>2, <1>3 DEF Actual, Steady
  <2>2. QED
    BY <1>1, <1>2, <1>3, <2>1 DEF SteadyOnesSeen
<1>11. Outcome'
  <2>1. Typed' = Typed
    BY <1>2 DEF Typed, Forwards, IsWord
  <2>2. QED
    BY <1>1, <1>2, <1>4, <2>1 DEF Outcome
<1>12. QED
  BY <1>5, <1>6, <1>7, <1>8, <1>9, <1>10, <1>11 DEF ReadingInv, ActionsInv

\* Removing an action keeps the invariant.
LEMMA UninstallKeeps ==
  ASSUME ReadingInv, NEW e \in Entries, Uninstall(e)
  PROVE  ReadingInv'
<1>1. /\ TypeOK /\ FiniteDirectory /\ SeenOrRemoved
      /\ PlaceForAll /\ SteadyOnesSeen /\ Outcome
  BY DEF ReadingInv, ActionsInv
<1>2. /\ e \in installed /\ pc # "ended"
      /\ changed' = Append(changed, [what |-> "remove", entry |-> e])
      /\ installed' = installed \ {e} /\ maybe' = maybe \cup (sure \cap {e})
      /\ sure' = sure \ {e}
      /\ pc' = pc /\ st' = st /\ count' = count /\ list' = list
      /\ args' = args /\ result' = result /\ named' = named
  BY DEF Uninstall, Change
<1>3. /\ changed' \in Seq([what : {"install", "remove"}, entry : Entries])
      /\ Changes("install")' = Changes("install")
      /\ Changes("remove")' = Changes("remove") \cup {e}
  BY <1>1, <1>2, ChangesAfter
<1>4. result = "running"
  BY <1>1, <1>2 DEF Outcome
<1>5. Unread' = Unread
  BY <1>2 DEF Unread
<1>6. TypeOK'
  BY <1>1, <1>2, <1>3 DEF TypeOK
<1>7. UnsetOnlyAfterRemoval' /\ ReadIsCounted'
  BY <1>2, <1>3, <1>4 DEF UnsetOnlyAfterRemoval, ReadIsCounted
<1>8. FiniteDirectory'
  <2>1. IsFiniteSet(sure \cap {e}) /\ IsFiniteSet(installed \ {e})
    BY <1>1, Finite, FS_Subset DEF FiniteDirectory
  <2>2. QED
    BY <1>1, <1>2, <2>1, FS_Union DEF FiniteDirectory
<1>9. SeenOrRemoved'
  BY <1>1, <1>2, <1>3, <1>5 DEF SeenOrRemoved
<1>10. PlaceForAll'
  <2>1. /\ Cardinality(Actual(installed' \ sure')) \in Nat
        /\ Cardinality(Actual(installed \ sure)) \in Nat
        /\ Cardinality(Actual(installed' \ sure')) <= Cardinality(Actual(installed \ sure))
    <3>1. installed' \ sure' \subseteq installed \ sure
      BY <1>2
    <3>2. IsFiniteSet(installed \ sure) /\ IsFiniteSet(installed' \ sure')
      BY <3>1, Finite, FS_Subset
    <3>3. QED
      BY <3>1, <3>2, ActualSets
  <2>2. Cardinality(Actual(Unread'))= Cardinality(Actual(Unread))
    BY <1>5
  <2>3. count \in Nat /\ Len(list) \in Nat
    BY <1>1 DEF TypeOK
  <2>4. QED
    BY <1>1, <1>2, <1>3, <2>1, <2>2, <2>3 DEF PlaceForAll
<1>11. SteadyOnesSeen'
  <2>1. Actual(Steady)' \subseteq Actual(Steady) \ {e}
    BY <1>2, <1>3 DEF Actual, Steady
  <2>2. QED
    BY <1>1, <1>2, <1>3, <2>1 DEF SteadyOnesSeen
<1>12. Outcome'
  <2>1. Typed' = Typed
    BY <1>2 DEF Typed, Forwards, IsWord
  <2>2. QED
    BY <1>1, <1>2, <1>4, <2>1 DEF Outcome
<1>13. QED
  BY <1>6, <1>7, <1>8, <1>9, <1>10, <1>11, <1>12 DEF ReadingInv, ActionsInv

\* The end of the first pass keeps the invariant.
LEMMA EndCountKeeps ==
  ASSUME ReadingInv, EndCount
  PROVE  ReadingInv'
<1>1. /\ TypeOK /\ UnsetOnlyAfterRemoval /\ FiniteDirectory /\ SeenOrRemoved
      /\ ReadIsCounted /\ PlaceForAll /\ SteadyOnesSeen /\ Outcome
  BY DEF ReadingInv, ActionsInv
<1>2. /\ pc = "count" /\ sure = {} /\ list = <<>> /\ result = "running"
      /\ installed' = installed /\ changed' = changed /\ count' = count
      /\ list' = list /\ args' = args /\ result' = result /\ named' = named
      /\ \/ count = 0 /\ pc' = "choose" /\ sure' = sure /\ maybe' = maybe /\ st' = st
         \/ /\ count # 0 /\ pc' = "push" /\ sure' = installed /\ maybe' = {}
            /\ st' \in Modes
  BY <1>1 DEF EndCount, Outcome
<1>3. /\ \A v : Changes(v)' = Changes(v)
      /\ Range(list) = {} /\ Len(list) = 0 /\ Len(list') = 0 /\ count \in Nat
  BY <1>1, <1>2 DEF Changes, Range, TypeOK
<1>4. TypeOK'
  BY <1>1, <1>2 DEF TypeOK
<1>5. UnsetOnlyAfterRemoval'
  BY <1>2 DEF UnsetOnlyAfterRemoval
<1>6. FiniteDirectory'
  BY <1>1, <1>2, FS_EmptySet DEF FiniteDirectory
<1>7. SeenOrRemoved'
  <2>1. Unread' \subseteq Unread \cup installed
    BY <1>2 DEF Unread
  <2>2. QED
    BY <1>1, <1>2, <1>3, <2>1 DEF SeenOrRemoved
<1>8. ReadIsCounted'
  <2>1. SUFFICES ASSUME Changes("remove") = {}, pc' = "push"
                 PROVE  /\ 0 = Cardinality(Actual(installed \ Unread'))
                        /\ count <= Cardinality(Actual(installed \ maybe'))
    BY <1>2, <1>3 DEF ReadIsCounted
  <2>2. Actual(installed \ Unread') = {} /\ installed \ maybe' = installed
    BY <1>2, <2>1 DEF Unread, Actual
  <2>3. Cardinality(Actual(installed \ Unread)) <= Cardinality(Actual(installed))
    BY <1>1, ActualSets DEF FiniteDirectory
  <2>4. count = Cardinality(Actual(installed \ Unread))
    BY <1>1, <1>2, <2>1 DEF ReadIsCounted
  <2>5. Cardinality({}) = 0
    BY FS_EmptySet
  <2>6. count <= Cardinality(Actual(installed))
    BY <2>3, <2>4
  <2>7. QED
    BY <2>2, <2>5, <2>6
<1>9. PlaceForAll'
  <2>1. SUFFICES ASSUME Changes("install") = {}, pc' = "push"
                 PROVE  0 + Cardinality(Actual(Unread')) <= count
    BY <1>2, <1>3 DEF PlaceForAll
  <2>2. Unread' = installed /\ installed \ sure = installed
    BY <1>2, <2>1 DEF Unread
  <2>3. Cardinality(Actual(installed)) <= count
    BY <1>1, <1>2, <2>1, <2>2 DEF PlaceForAll
  <2>4. Cardinality(Actual(installed)) \in Nat
    BY <1>1, ActualSets DEF FiniteDirectory
  <2>5. QED
    BY <1>3, <2>2, <2>3, <2>4
<1>10. SteadyOnesSeen'
  <2>1. Actual(Steady)' = Actual(Steady) /\ Actual(Steady) \subseteq installed
    BY <1>2, <1>3 DEF Actual, Steady
  <2>2. \A x \in Actual(Steady) : count > 0
    BY <1>1, <1>2 DEF SteadyOnesSeen
  <2>3. QED
    BY <1>2, <1>3, <2>1, <2>2 DEF SteadyOnesSeen
<1>11. Outcome'
  BY <1>2 DEF Outcome
<1>12. QED
  BY <1>4, <1>5, <1>6, <1>7, <1>8, <1>9, <1>10, <1>11 DEF ReadingInv, ActionsInv

\* The end of the second pass keeps the invariant: what was counted and has
\* no place on the list was removed.
LEMMA EndPushKeeps ==
  ASSUME ReadingInv, EndPush
  PROVE  ReadingInv'
<1>1. /\ TypeOK /\ FiniteDirectory /\ SeenOrRemoved
      /\ ReadIsCounted /\ SteadyOnesSeen /\ Outcome
  BY DEF ReadingInv, ActionsInv
<1>2. /\ pc = "push" /\ sure = {} /\ result = "running"
      /\ installed' = installed /\ changed' = changed /\ sure' = sure
      /\ maybe' = maybe /\ st' = st /\ count' = count
      /\ args' = args /\ named' = named
      /\ \/ /\ Len(list) < count /\ pc' = "ended" /\ result' = "undefined"
            /\ list' = list
         \/ /\ ~ (Len(list) < count) /\ pc' = "choose" /\ list' \in SortedLists
            /\ result' = result
  BY <1>1 DEF EndPush, Outcome
<1>3. /\ \A v : Changes(v)' = Changes(v)
      /\ list' \in Seq(Entries) /\ Len(list') = Len(list) /\ Range(list') = Range(list)
      /\ count \in Nat /\ Len(list) \in Nat
  <2>1. \A v : Changes(v)' = Changes(v)
    BY <1>2 DEF Changes
  <2>2. list \in Seq(Entries) /\ count \in Nat /\ Len(list) \in Nat
    BY <1>1 DEF TypeOK
  <2>3. CASE list' = list
    BY <2>1, <2>2, <2>3
  <2>4. CASE list' \in SortedLists
    BY <1>1, <2>1, <2>2, <2>4, Sorted
  <2>5. QED
    BY <1>2, <2>3, <2>4
<1>4. TypeOK'
  BY <1>1, <1>2, <1>3 DEF TypeOK, Results
<1>5. UnsetOnlyAfterRemoval'
  <2>1. SUFFICES ASSUME Changes("remove") = {}, Len(list) < count
                 PROVE  FALSE
    BY <1>2, <1>3 DEF UnsetOnlyAfterRemoval
  <2>2. Unread = maybe
    BY <1>2 DEF Unread
  <2>3. /\ Len(list) = count \/ Len(list) = Cardinality(Actual(installed \ maybe))
        /\ count <= Cardinality(Actual(installed \ maybe))
    BY <1>1, <1>2, <2>1, <2>2 DEF ReadIsCounted
  <2>4. QED
    BY <1>3, <2>1, <2>3
<1>6. FiniteDirectory' /\ SeenOrRemoved'
  BY <1>1, <1>2, <1>3 DEF FiniteDirectory, SeenOrRemoved, Unread
<1>7. ReadIsCounted' /\ PlaceForAll'
  BY <1>2 DEF ReadIsCounted, PlaceForAll
<1>8. SteadyOnesSeen'
  <2>1. Actual(Steady)' = Actual(Steady)
    BY <1>2, <1>3 DEF Actual, Steady
  <2>2. \A x \in Actual(Steady) :
          count > 0 /\ (Changes("install") = {} => x \in Range(list))
    BY <1>1, <1>2 DEF SteadyOnesSeen
  <2>3. QED
    BY <1>2, <1>3, <2>1, <2>2 DEF SteadyOnesSeen
<1>9. Outcome'
  BY <1>2 DEF Outcome
<1>10. QED
  BY <1>4, <1>5, <1>6, <1>7, <1>8, <1>9 DEF ReadingInv, ActionsInv

\* Looking the typed action up keeps the invariant.
LEMMA ChooseKeeps ==
  ASSUME ReadingInv, Choose
  PROVE  ReadingInv'
<1>1. /\ TypeOK /\ FiniteDirectory /\ SeenOrRemoved /\ SteadyOnesSeen /\ Outcome
  BY DEF ReadingInv, ActionsInv
<1>2. /\ pc = "choose" /\ result = "running"
      /\ installed' = installed /\ changed' = changed /\ sure' = sure
      /\ maybe' = maybe /\ st' = st /\ count' = count /\ list' = list
      /\ args' = args
  BY <1>1 DEF Choose, OwnCommandLine, NoActions, Select, Suggest, LooksUp, Outcome
<1>3. /\ \A v : Changes(v)' = Changes(v)
      /\ Unread' = Unread /\ Typed' = Typed /\ SameAction' = SameAction
      /\ ManageCommandline' = ManageCommandline
  <2>1. Forwards' = Forwards /\ Typed' = Typed
    BY <1>2 DEF Forwards, Typed, IsWord
  <2>2. SameAction' = SameAction
    BY <1>2, <2>1 DEF SameAction, ForeachAvailAction
  <2>3. ManageCommandline' = ManageCommandline
    BY <1>2, <2>1
    DEF ManageCommandline, Given, Options, Operands, EndsOptions, IsWord
  <2>4. QED
    BY <1>2, <2>1, <2>2, <2>3 DEF Changes, Unread
<1>4. /\ list \in Seq(Entries) /\ DOMAIN list = 1 .. Len(list)
      /\ \A i \in SameAction :
           list[i] \in Entries /\ list[i].name = Typed /\ list[i] \in Range(list)
      /\ \A i \in FindSimilar : list[i] \in Entries
  BY <1>1 DEF TypeOK, SameAction, FindSimilar, ForeachAvailAction, Range
<1>5. /\ named' \in Entries \cup {NoEntry}
      /\ \/ /\ pc' = "ended" /\ result' = ManageCommandline
            /\ result' \in {"usage", "shown"}
         \/ pc' = "ended" /\ result' = "no_actions" /\ count = 0
         \/ /\ pc' = "exec" /\ result' = "running"
            /\ named' \in Entries /\ named'.name = Typed /\ named' \in Range(list)
         \/ pc' = "ended" /\ result' \in {"hint", "unknown"} /\ SameAction = {}
  <2>1. named \in Entries \cup {NoEntry}
    BY <1>1 DEF TypeOK
  <2>2. CASE OwnCommandLine
    <3>1. ManageCommandline \in {"running", "usage", "shown"}
      BY DEF ManageCommandline
    <3>2. QED
      BY <2>1, <2>2, <3>1 DEF OwnCommandLine, End
  <2>3. CASE NoActions
    BY <2>1, <2>3 DEF NoActions, End
  <2>4. CASE Select
    BY <1>2, <1>4, <2>4 DEF Select
  <2>5. CASE Suggest
    BY <1>4, <2>1, <2>5 DEF Suggest, End
  <2>6. QED
    BY <2>2, <2>3, <2>4, <2>5 DEF Choose
<1>6. TypeOK'
  BY <1>1, <1>2, <1>5 DEF TypeOK, Results
<1>7. UnsetOnlyAfterRemoval'
  BY <1>5 DEF UnsetOnlyAfterRemoval
<1>8. FiniteDirectory' /\ SeenOrRemoved'
  BY <1>1, <1>2, <1>3 DEF FiniteDirectory, SeenOrRemoved
<1>9. ReadIsCounted' /\ PlaceForAll'
  BY <1>5 DEF ReadIsCounted, PlaceForAll
<1>10. SteadyOnesSeen'
  <2>1. Actual(Steady)' = Actual(Steady)
    BY <1>2, <1>3 DEF Actual, Steady
  <2>2. \A x \in Actual(Steady) :
          count > 0 /\ (Changes("install") = {} => x \in Range(list))
    BY <1>1, <1>2 DEF SteadyOnesSeen
  <2>3. QED
    BY <1>2, <1>3, <1>5, <2>1, <2>2 DEF SteadyOnesSeen
<1>11. Outcome'
  BY <1>2, <1>3, <1>5 DEF Outcome
<1>12. QED
  BY <1>6, <1>7, <1>8, <1>9, <1>10, <1>11 DEF ReadingInv, ActionsInv

\* Running the action keeps the invariant.
LEMMA ExecvKeeps ==
  ASSUME ReadingInv, Execv
  PROVE  ReadingInv'
<1>1. /\ TypeOK /\ FiniteDirectory /\ SeenOrRemoved /\ SteadyOnesSeen /\ Outcome
  BY DEF ReadingInv, ActionsInv
<1>2. /\ pc = "exec" /\ pc' = "ended" /\ result = "running"
      /\ \/ result' = "executed"
         \/ result' = "exec_failed" /\ named \notin installed
      /\ installed' = installed /\ changed' = changed /\ sure' = sure
      /\ maybe' = maybe /\ st' = st /\ count' = count /\ list' = list
      /\ args' = args /\ named' = named
  BY <1>1 DEF Execv, End, Outcome
<1>3. /\ \A v : Changes(v)' = Changes(v)
      /\ Unread' = Unread /\ Typed' = Typed
  BY <1>2 DEF Changes, Unread, Forwards, Typed, IsWord
<1>4. TypeOK'
  BY <1>1, <1>2 DEF TypeOK, Results
<1>5. UnsetOnlyAfterRemoval'
  BY <1>2 DEF UnsetOnlyAfterRemoval
<1>6. FiniteDirectory' /\ SeenOrRemoved'
  BY <1>1, <1>2, <1>3 DEF FiniteDirectory, SeenOrRemoved
<1>7. ReadIsCounted' /\ PlaceForAll'
  BY <1>2 DEF ReadIsCounted, PlaceForAll
<1>8. SteadyOnesSeen'
  <2>1. Actual(Steady)' = Actual(Steady)
    BY <1>2, <1>3 DEF Actual, Steady
  <2>2. \A x \in Actual(Steady) :
          count > 0 /\ (Changes("install") = {} => x \in Range(list))
    BY <1>1, <1>2 DEF SteadyOnesSeen
  <2>3. QED
    BY <1>2, <1>3, <2>1, <2>2 DEF SteadyOnesSeen
<1>9. Outcome'
  BY <1>1, <1>2, <1>3 DEF Outcome
<1>10. QED
  BY <1>4, <1>5, <1>6, <1>7, <1>8, <1>9 DEF ReadingInv, ActionsInv

\* A step that changes nothing keeps the invariant.
LEMMA StutterKeeps ==
  ASSUME ReadingInv, UNCHANGED vars
  PROVE  ReadingInv'
<1>1. /\ pc' = pc /\ installed' = installed /\ changed' = changed /\ sure' = sure
      /\ maybe' = maybe /\ st' = st /\ count' = count /\ list' = list
      /\ args' = args /\ result' = result /\ named' = named
  BY DEF vars
<1>2. /\ \A v : Changes(v)' = Changes(v)
      /\ Unread' = Unread
  BY <1>1 DEF Changes, Unread
<1>3. Steady' = Steady
  BY <1>1, <1>2 DEF Steady
<1>4. Forwards' = Forwards /\ Typed' = Typed
  BY <1>1 DEF Forwards, Typed, IsWord
<1>5. SameAction' = SameAction
  BY <1>1, <1>4 DEF SameAction, ForeachAvailAction
<1>6. ManageCommandline' = ManageCommandline
  BY <1>1, <1>4 DEF ManageCommandline, Given, Options, Operands, EndsOptions, IsWord
<1>7. ActionsInv'
  BY <1>1, <1>2 DEF ReadingInv, ActionsInv, TypeOK, UnsetOnlyAfterRemoval
<1>8. FiniteDirectory' /\ SeenOrRemoved'
  BY <1>1, <1>2 DEF ReadingInv, FiniteDirectory, SeenOrRemoved
<1>9. ReadIsCounted' /\ PlaceForAll'
  BY <1>1, <1>2 DEF ReadingInv, ReadIsCounted, PlaceForAll, Actual
<1>10. SteadyOnesSeen'
  BY <1>1, <1>2, <1>3 DEF ReadingInv, SteadyOnesSeen, Actual
<1>11. Outcome'
  BY <1>1, <1>4, <1>5, <1>6 DEF ReadingInv, Outcome
<1>12. QED
  BY <1>7, <1>8, <1>9, <1>10, <1>11 DEF ReadingInv

-----------------------------------------------------------------------------
(* What a user may rely on.                                                *)

\* How what was counted and listed compares with what is in the directory, in
\* every state of every run of find_actions and main.
THEOREM ReadingInvTheorem == Spec => []ReadingInv
<1>1. Init => ReadingInv
  BY InitInv
<1>2. ReadingInv /\ [Next]_vars => ReadingInv'
  <2>1. ASSUME ReadingInv, Next
        PROVE  ReadingInv'
    <3>1. CASE \E e \in Entries : Read(e) \/ Install(e) \/ Uninstall(e)
      BY <2>1, <3>1, ReadKeeps, InstallKeeps, UninstallKeeps
    <3>2. CASE EndCount
      BY <2>1, <3>2, EndCountKeeps
    <3>3. CASE EndPush
      BY <2>1, <3>3, EndPushKeeps
    <3>4. CASE Choose
      BY <2>1, <3>4, ChooseKeeps
    <3>5. CASE Execv
      BY <2>1, <3>5, ExecvKeeps
    <3>6. QED
      BY <2>1, <3>1, <3>2, <3>3, <3>4, <3>5 DEF Next
  <2>2. QED
    BY <2>1, StutterKeeps
<1>3. QED
  BY <1>1, <1>2, PTL DEF Spec

\* Places of the list that find_actions never set are met only if an action
\* was removed while it was reading (findactions.c:58).
THEOREM ActionsInvTheorem == Spec => []ActionsInv
<1>1. ReadingInv => ActionsInv
  BY DEF ReadingInv
<1>2. QED
  BY <1>1, ReadingInvTheorem, PTL

\* An action that is there from start to end, and is typed as it is called, is
\* run unless others changed the directory in one of three ways.
LEMMA WantedRuns ==
  ASSUME ReadingInv
  PROVE  WantedActionRuns
<1>1. /\ TypeOK /\ UnsetOnlyAfterRemoval /\ SeenOrRemoved /\ SteadyOnesSeen /\ Outcome
  BY DEF ReadingInv, ActionsInv
<1>2. SUFFICES ASSUME result \notin {"running", "executed"}, Forwards,
                      NEW e \in Steady, e.kind # "bare", e.name = args[1].name
               PROVE  \/ result = "undefined" /\ Changes("remove") # {}
                      \/ result \in {"hint", "unknown"} /\ Changes("install") # {}
                      \/ /\ result = "exec_failed"
                         /\ \E x \in Changes("remove") : x.name = args[1].name
  BY DEF WantedActionRuns, Steady
<1>3. /\ pc = "ended" /\ count > 0 /\ Typed = args[1].name
      /\ ManageCommandline = "running"
  <2>1. pc = "ended"
    BY <1>1, <1>2 DEF TypeOK
  <2>2. count > 0
    BY <1>1, <1>2, <2>1 DEF SteadyOnesSeen, Actual
  <2>3. Typed = args[1].name /\ ManageCommandline = "running"
    BY <1>2 DEF Typed, ManageCommandline
  <2>4. QED
    BY <2>1, <2>2, <2>3
<1>4. result \in {"undefined", "hint", "unknown", "exec_failed"}
  BY <1>1, <1>2, <1>3 DEF TypeOK, Results, Outcome
<1>5. CASE result = "undefined"
  BY <1>1, <1>5 DEF UnsetOnlyAfterRemoval
<1>6. CASE result \in {"hint", "unknown"}
  <2>1. SUFFICES ASSUME Changes("install") = {}
                 PROVE  FALSE
    BY <1>6
  <2>2. e \in Range(list)
    BY <1>1, <1>2, <1>3, <1>6, <2>1 DEF SteadyOnesSeen, Actual
  <2> DEFINE same == {i \in DOMAIN list : list[i].name = Typed}
  <2>3. same # {} /\ same \subseteq Nat
    BY <1>1, <1>2, <1>3, <2>2 DEF Range, TypeOK
  <2> HIDE DEF same
  <2>4. ForeachAvailAction(same) # {}
    BY <2>3, FirstPlace
  <2>5. QED
    BY <1>1, <1>6, <2>4 DEF same, Outcome, SameAction
<1>7. CASE result = "exec_failed"
  BY <1>1, <1>3, <1>7 DEF Outcome, SeenOrRemoved
<1>8. QED
  BY <1>4, <1>5, <1>6, <1>7

\* The action that was typed is run: the lookup of main misses no action that
\* is in the directory all the time, unless the directory changed meanwhile.
THEOREM WantedTheorem == Spec => []WantedActionRuns
<1>1. ReadingInv => WantedActionRuns
  BY WantedRuns
<1>2. QED
  BY <1>1, ReadingInvTheorem, PTL
=============================================================================
