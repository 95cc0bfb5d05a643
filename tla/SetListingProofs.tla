-------------------------- MODULE SetListingProofs --------------------------
(***************************************************************************)
(* What insertion into a sorted list and the views of a directory give,    *)
(* for every tree and every order of paths.                                *)
(***************************************************************************)
EXTENDS SetListing, SequenceTheorems, FiniteSetTheorems, WellFoundedInduction, TLAPS

-----------------------------------------------------------------------------
(* Positions are found as the least of a set: a non-empty set of naturals  *)
(* has one.                                                                *)
LEMMA LeastExists ==
  ASSUME NEW S, S \subseteq Nat, S # {}
  PROVE  \E x \in S : \A y \in S : x <= y
<1> DEFINE less == {ss \in Nat \X Nat : ss[1] < ss[2]}
<1>1. IsWellFoundedOn(less, Nat)
  BY NatLessThanWellFounded DEF OpToRel
<1>2. PICK x \in S : \A y \in S : ~ (<<y, x>> \in less)
  BY <1>1, WFMin
<1>3. \A y \in S : <<y, x>> \in Nat \X Nat /\ <<y, x>>[1] = y /\ <<y, x>>[2] = x
  OBVIOUS
<1>4. \A y \in S : ~ (y < x)
  BY <1>2, <1>3
<1> QED BY <1>4

LEMMA MinIsLeast ==
  ASSUME NEW S, S \subseteq Nat, S # {}
  PROVE  Min(S) \in S /\ \A y \in S : Min(S) <= y
BY LeastExists DEF Min

-----------------------------------------------------------------------------
(* The order of records is a strict total order.                           *)
LEMMA BeforeIsOrder ==
  ASSUME NEW k \in Nodes, NEW m \in Nodes, NEW n \in Nodes
  PROVE  /\ Before(k, m) /\ Before(m, n) => Before(k, n)
         /\ ~ (Before(m, n) /\ Before(n, m))
         /\ m # n => Before(m, n) \/ Before(n, m)
<1>1. /\ Depth[k] \in Nat /\ Depth[m] \in Nat /\ Depth[n] \in Nat
      /\ Rank[k] \in Nat /\ Rank[m] \in Nat /\ Rank[n] \in Nat
      /\ Rank[m] = Rank[n] => m = n
  BY TreeAssumption, OrderAssumption
<1> QED BY <1>1 DEF Before

-----------------------------------------------------------------------------
(* What a sequence looks like after an insertion.                          *)
IsInsertion(new, s, p, e) ==
  /\ Len(new) = Len(s) + 1
  /\ \A i \in 1 .. Len(s) + 1 :
       new[i] = IF i < p THEN s[i] ELSE IF i = p THEN e ELSE s[i - 1]

LEMMA InsertAtFacts ==
  ASSUME NEW S, NEW s \in Seq(S), NEW e \in S, NEW p \in 1 .. Len(s) + 1
  PROVE  InsertAt(s, p, e) \in Seq(S) /\ IsInsertion(InsertAt(s, p, e), s, p, e)
<1> DEFINE front == SubSeq(s, 1, p - 1)
           back == SubSeq(s, p, Len(s))
           both == front \o <<e>>
<1>1. /\ front \in Seq(S) /\ Len(front) = p - 1
      /\ \A i \in 1 .. p - 1 : front[i] = s[i]
  <2>1. \A i \in 1 .. p - 1 : s[i] \in S
    BY ElementOfSeq
  <2> QED BY <2>1, SubSeqProperties
<1>2. /\ back \in Seq(S) /\ Len(back) = Len(s) - p + 1
      /\ \A i \in 1 .. Len(s) - p + 1 : back[i] = s[p + i - 1]
  <2>1. \A i \in p .. Len(s) : s[i] \in S
    BY ElementOfSeq
  <2>2. CASE p = Len(s) + 1
    BY <2>2, SubSeqProperties, SubSeqEmpty
  <2>3. CASE p <= Len(s)
    BY <2>1, <2>3, SubSeqProperties
  <2> QED BY <2>2, <2>3
<1>3. <<e>> \in Seq(S) /\ Len(<<e>>) = 1 /\ <<e>>[1] = e
  OBVIOUS
<1> HIDE DEF front, back
<1>4. /\ both \in Seq(S) /\ Len(both) = p
      /\ \A i \in 1 .. p : both[i] = IF i < p THEN front[i] ELSE e
  BY <1>1, <1>3, ConcatProperties
<1> HIDE DEF both
<1>5. /\ both \o back \in Seq(S) /\ Len(both \o back) = Len(s) + 1
      /\ \A i \in 1 .. Len(s) + 1 :
           (both \o back)[i] = IF i <= p THEN both[i] ELSE back[i - p]
  BY <1>2, <1>4, ConcatProperties
<1>6. \A i \in 1 .. Len(s) + 1 : i > p => back[i - p] = s[i - 1]
  BY <1>2
<1>7. InsertAt(s, p, e) = both \o back
  BY DEF InsertAt, both, front, back
<1>8. \A i \in 1 .. Len(s) + 1 :
        (both \o back)[i] = IF i < p THEN s[i] ELSE IF i = p THEN e ELSE s[i - 1]
  <2> SUFFICES ASSUME NEW i \in 1 .. Len(s) + 1
               PROVE  (both \o back)[i] =
                        IF i < p THEN s[i] ELSE IF i = p THEN e ELSE s[i - 1]
    OBVIOUS
  <2>1. (both \o back)[i] = IF i <= p THEN both[i] ELSE back[i - p]
    BY <1>5
  <2>2. i <= p => both[i] = IF i < p THEN front[i] ELSE e
    BY <1>4
  <2>3. i < p => front[i] = s[i]
    BY <1>1
  <2> QED BY <1>6, <2>1, <2>2, <2>3
<1> QED BY <1>5, <1>7, <1>8 DEF IsInsertion

(* A record that is not in a sorted list is inserted, and it stays sorted. *)
LEMMA InsertedIsSorted ==
  ASSUME NEW list \in Seq(Nodes), NEW n \in Nodes \ Range(list),
         IsSorted(list, Before)
  PROVE  /\ Inserted(list, n) \in Seq(Nodes)
         /\ IsSorted(Inserted(list, n), Before)
         /\ Range(Inserted(list, n)) = Range(list) \cup {n}
<1> DEFINE S == {i \in 1 .. Len(list) + 1 : i <= Len(list) => ~ Before(list[i], n)}
           p == LowerBound(list, n)
           new == Inserted(list, n)
<1>1. /\ Len(list) \in Nat /\ DOMAIN list = 1 .. Len(list)
      /\ \A i \in 1 .. Len(list) : list[i] \in Nodes /\ list[i] # n
  BY ElementOfSeq DEF Range
<1>2. p \in S /\ \A i \in S : p <= i
  <2>1. S \subseteq Nat /\ Len(list) + 1 \in S
    BY <1>1
  <2> QED BY <2>1, MinIsLeast DEF LowerBound
<1>3. p \in 1 .. Len(list) + 1
  BY <1>2
<1>4. \A i \in 1 .. Len(list) : i < p => Before(list[i], n)
  <2>1. \A i \in 1 .. Len(list) : i < p => i \notin S
    BY <1>2, <1>1
  <2> QED BY <2>1, <1>1
<1>5. \A i \in 1 .. Len(list) : i >= p => Before(n, list[i])
  <2> SUFFICES ASSUME NEW i \in 1 .. Len(list), i >= p
               PROVE  Before(n, list[i])
    OBVIOUS
  <2>1. p <= Len(list) /\ p \in 1 .. Len(list) /\ ~ Before(list[p], n)
    BY <1>1, <1>2, <1>3
  <2>2. Before(n, list[p])
    BY <1>1, <2>1, BeforeIsOrder
  <2>3. CASE i = p
    BY <2>2, <2>3
  <2>4. CASE i > p
    <3>1. Before(list[p], list[i])
      BY <2>1, <2>4, <1>1 DEF IsSorted
    <3> QED BY <3>1, <2>1, <2>2, <1>1, BeforeIsOrder
  <2> QED BY <2>3, <2>4, <1>3, <1>1
<1>6. /\ new \in Seq(Nodes) /\ Len(new) = Len(list) + 1
      /\ \A i \in 1 .. Len(list) + 1 :
           new[i] = IF i < p THEN list[i] ELSE IF i = p THEN n ELSE list[i - 1]
  <2>1. new = InsertAt(list, p, n)
    BY DEF Inserted
  <2> HIDE DEF p, new
  <2>2. n \in Nodes
    OBVIOUS
  <2>3. InsertAt(list, p, n) \in Seq(Nodes) /\ IsInsertion(InsertAt(list, p, n), list, p, n)
    BY <1>3, <2>2, InsertAtFacts
  <2> QED BY <2>1, <2>3 DEF IsInsertion
<1> HIDE DEF p, S, new
<1>7. IsSorted(new, Before)
  <2> SUFFICES ASSUME NEW i \in 1 .. Len(new), NEW j \in 1 .. Len(new), i < j
               PROVE  Before(new[i], new[j])
    BY DEF IsSorted
  <2> USE <1>1, <1>3, <1>6
  <2>1. CASE j < p
    BY <2>1 DEF IsSorted
  <2>2. CASE i > p
    BY <2>2 DEF IsSorted
  <2>3. CASE i = p
    <3>1. new[i] = n /\ new[j] = list[j - 1] /\ j - 1 >= p /\ j - 1 \in 1 .. Len(list)
      BY <2>3
    <3> QED BY <3>1, <1>5
  <2>4. CASE j = p
    <3>1. new[j] = n /\ new[i] = list[i] /\ i \in 1 .. Len(list) /\ i < p
      BY <2>4
    <3> QED BY <3>1, <1>4
  <2>5. CASE i < p /\ j > p
    <3>1. new[i] = list[i] /\ new[j] = list[j - 1] /\ i < j - 1
          /\ i \in 1 .. Len(list) /\ j - 1 \in 1 .. Len(list)
      BY <2>5
    <3> QED BY <3>1 DEF IsSorted
  <2> QED BY <2>1, <2>2, <2>3, <2>4, <2>5
<1>8. Range(new) = Range(list) \cup {n}
  <2>1. DOMAIN new = 1 .. Len(list) + 1
    BY <1>6
  <2>2. \A i \in 1 .. Len(list) + 1 : new[i] \in Range(list) \cup {n}
    BY <1>1, <1>3, <1>6 DEF Range
  <2>3. new[p] = n
    BY <1>3, <1>6
  <2>4. \A i \in 1 .. Len(list) : \E j \in 1 .. Len(list) + 1 : new[j] = list[i]
    <3> SUFFICES ASSUME NEW i \in 1 .. Len(list)
                 PROVE  \E j \in 1 .. Len(list) + 1 : new[j] = list[i]
      OBVIOUS
    <3>1. CASE i < p
      BY <3>1, <1>1, <1>3, <1>6
    <3>2. CASE i >= p
      <4>1. i + 1 \in 1 .. Len(list) + 1 /\ i + 1 > p /\ (i + 1) - 1 = i
        BY <3>2, <1>1, <1>3
      <4>2. new[i + 1] = list[i]
        BY <4>1, <1>3, <1>6
      <4> QED BY <4>1, <4>2
    <3> QED BY <3>1, <3>2, <1>1, <1>3
  <2>5. Range(new) \subseteq Range(list) \cup {n}
    BY <2>1, <2>2 DEF Range
  <2>6. n \in Range(new)
    BY <2>1, <2>3, <1>3 DEF Range
  <2>7. Range(list) \subseteq Range(new)
    BY <2>1, <2>4, <1>1 DEF Range
  <2> QED BY <2>5, <2>6, <2>7
<1> QED BY <1>6, <1>7, <1>8 DEF new

-----------------------------------------------------------------------------
(* Iterators stay between their start and the end of the list, and where   *)
(* they are not at their end they are at a child of their directory.       *)
LEMMA ViewBeginFacts ==
  ASSUME NEW list \in Seq(Nodes), NEW d, NEW from \in 1 .. Len(list) + 1
  PROVE  LET b == ViewBegin(list, d, from) IN
         /\ b \in from .. Len(list) + 1
         /\ ~ AtEnd(list, d, b) => IsIn(list[b], d)
<1> DEFINE S == {i \in from .. Len(list) + 1 :
                   i <= Len(list) => Depth[list[i]] # Depth[d] /\ IsIn(list[i], d)}
<1>1. S \subseteq Nat /\ Len(list) + 1 \in S
  OBVIOUS
<1>2. ViewBegin(list, d, from) \in S
  BY <1>1, MinIsLeast DEF ViewBegin
<1> QED BY <1>2 DEF AtEnd

LEMMA ViewNextFacts ==
  ASSUME NEW list \in Seq(Nodes), NEW d, NEW i \in 1 .. Len(list)
  PROVE  LET j == ViewNext(list, d, i) IN
         /\ j \in i + 1 .. Len(list) + 1
         /\ ~ AtEnd(list, d, j) => IsIn(list[j], d)
<1> DEFINE S == {j \in i + 1 .. Len(list) + 1 :
                   j <= Len(list) => Depth[list[j]] # Depth[d] + 1 \/ IsIn(list[j], d)}
<1>1. S \subseteq Nat /\ Len(list) + 1 \in S
  OBVIOUS
<1>2. ViewNext(list, d, i) \in S
  BY <1>1, MinIsLeast DEF ViewNext
<1> QED BY <1>2 DEF AtEnd

LEMMA FirstFileFacts ==
  ASSUME NEW list \in Seq(Nodes), NEW d, NEW from \in 1 .. Len(list) + 1
  PROVE  LET f == FirstFile(list, d, from) IN
         /\ f \in from .. Len(list) + 1
         /\ ~ AtEnd(list, d, f) => IsIn(list[f], d) /\ list[f] \notin Dirs
<1> DEFINE b == ViewBegin(list, d, from)
           S == {i \in b .. Len(list) + 1 :
                   AtEnd(list, d, i) \/ (IsIn(list[i], d) /\ list[i] \notin Dirs)}
           first == Min(S)
<1>1. b \in from .. Len(list) + 1
  BY ViewBeginFacts
<1>2. AtEnd(list, d, Len(list) + 1)
  BY DEF AtEnd
<1> HIDE DEF b
<1>3. S \subseteq Nat /\ Len(list) + 1 \in S
  BY <1>1, <1>2
<1>4. first \in S
  BY <1>3, MinIsLeast
<1>5. FirstFile(list, d, from) = IF AtEnd(list, d, first) THEN Len(list) + 1 ELSE first
  BY DEF FirstFile, b
<1> QED BY <1>1, <1>2, <1>4, <1>5

(* In a sorted list no directory follows a file of the same level.         *)
LEMMA FilesLast ==
  ASSUME NEW list \in Seq(Nodes), IsSorted(list, Before),
         NEW i \in 1 .. Len(list), NEW j \in 1 .. Len(list), i < j,
         Depth[list[i]] = Depth[list[j]], list[i] \notin Dirs
  PROVE  list[j] \notin Dirs
<1>1. Before(list[i], list[j])
  BY DEF IsSorted
<1>2. Depth[list[i]] \in Nat /\ Depth[list[j]] \in Nat
  BY TreeAssumption, ElementOfSeq
<1>3. ~ (Depth[list[i]] < Depth[list[j]])
  BY <1>2
<1> QED BY <1>1, <1>3 DEF Before

-----------------------------------------------------------------------------
(* Induction over the positions of a list, from either end: a set of       *)
(* positions without a least (greatest) exception has no exception.        *)
LEMMA FromTheFront ==
  ASSUME NEW N \in Nat, NEW S,
         \A i \in 1 .. N : (\A j \in 1 .. N : j < i => j \in S) => i \in S
  PROVE  \A i \in 1 .. N : i \in S
<1> DEFINE bad == {i \in 1 .. N : i \notin S}
<1>1. SUFFICES ASSUME bad # {}
               PROVE  FALSE
  OBVIOUS
<1>2. PICK x \in bad : \A y \in bad : x <= y
  <2>1. bad \subseteq Nat
    OBVIOUS
  <2>2. QED
    BY <1>1, <2>1, LeastExists
<1>3. \A j \in 1 .. N : j < x => j \in S
  BY <1>2
<1>4. QED
  BY <1>2, <1>3

LEMMA FromTheBack ==
  ASSUME NEW N \in Nat, NEW S,
         \A i \in 1 .. N : (\A j \in 1 .. N : j > i => j \in S) => i \in S
  PROVE  \A i \in 1 .. N : i \in S
<1> DEFINE bad == {i \in 1 .. N : i \notin S}
           left == {N - i : i \in bad}
<1>1. SUFFICES ASSUME bad # {}
               PROVE  FALSE
  OBVIOUS
<1>2. PICK x \in left : \A y \in left : x <= y
  <2>1. left \subseteq Nat /\ left # {}
    BY <1>1
  <2>2. QED
    BY <2>1, LeastExists
<1>3. PICK i \in bad : x = N - i
  BY <1>2
<1>4. \A j \in 1 .. N : j > i => j \in S
  <2>1. ASSUME NEW j \in 1 .. N, j > i, j \notin S
        PROVE  FALSE
    <3>1. N - j \in left
      BY <2>1
    <3>2. x <= N - j
      BY <1>2, <3>1
    <3>3. i \in 1 .. N /\ x = N - i
      BY <1>3
    <3>4. QED
      BY <2>1, <3>2, <3>3
  <2>2. QED
    BY <2>1
<1>5. QED
  BY <1>3, <1>4

-----------------------------------------------------------------------------
(* What a walk through views meets.                                        *)

\* The records of what is in the directory at position i.
Kids(list, i) == {j \in DOMAIN list : IsIn(list[j], list[i])}

\* A list as a scan makes it: one record of everything that is in a directory,
\* and of the directory, except that nothing is above the first.
Rooted(list) ==
  /\ list \in Seq(Nodes) /\ IsSorted(list, Before)
  /\ \A j \in DOMAIN list : j # 1 => \E i \in DOMAIN list : j \in Kids(list, i)

\* Levels do not decrease, and a directory is before what is in it.
LEMMA Levels ==
  ASSUME NEW list \in Seq(Nodes), IsSorted(list, Before)
  PROVE  /\ \A i \in DOMAIN list : Depth[list[i]] \in Nat
         /\ \A i, j \in DOMAIN list : i < j => Depth[list[i]] <= Depth[list[j]]
         /\ \A i, j \in DOMAIN list : i # j => list[i] # list[j]
         /\ \A i \in DOMAIN list : \A j \in Kids(list, i) :
              j > i /\ Depth[list[j]] = Depth[list[i]] + 1 /\ list[i] \in Dirs
<1>1. /\ DOMAIN list = 1 .. Len(list) /\ Len(list) \in Nat
      /\ \A i \in DOMAIN list : list[i] \in Nodes
  BY ElementOfSeq
<1>2. \A i \in DOMAIN list : Depth[list[i]] \in Nat
  BY <1>1, TreeAssumption
<1>3. \A i, j \in DOMAIN list : i < j => Before(list[i], list[j])
  BY <1>1 DEF IsSorted
<1>4. \A i, j \in DOMAIN list : i < j => Depth[list[i]] <= Depth[list[j]]
  <2>1. \A m, n : Before(m, n) => Depth[m] < Depth[n] \/ Depth[m] = Depth[n]
    BY DEF Before
  <2>2. QED
    BY <1>2, <1>3, <2>1
<1>5. \A i, j \in DOMAIN list : i < j => list[i] # list[j]
  BY <1>1, <1>3, BeforeIsOrder
<1>6. \A i, j \in DOMAIN list : i # j => list[i] # list[j]
  BY <1>1, <1>5
<1>7. ASSUME NEW i \in DOMAIN list, NEW j \in Kids(list, i)
      PROVE  j > i /\ Depth[list[j]] = Depth[list[i]] + 1 /\ list[i] \in Dirs
  <2>1. j \in DOMAIN list /\ list[j] \in Nodes \ {Root} /\ Parent[list[j]] = list[i]
    BY <1>1, <1>7 DEF Kids, IsIn
  <2>2. Depth[list[j]] = Depth[list[i]] + 1 /\ list[i] \in Dirs
    BY <2>1, TreeAssumption
  <2>3. ~ (Depth[list[j]] <= Depth[list[i]])
    BY <1>2, <2>1, <2>2
  <2>4. QED
    BY <1>1, <1>2, <1>4, <2>1, <2>2, <2>3
<1>8. QED
  BY <1>2, <1>4, <1>6, <1>7

\* The view of a record shows what is in it, whatever else is of that level.
LEMMA ViewShowsChildren ==
  ASSUME NEW list \in Seq(Nodes), IsSorted(list, Before), NEW i \in DOMAIN list
  PROVE  InView(list, i) = Kids(list, i)
<1> DEFINE d == list[i]
           begin == ViewBegin(list, d, i)
           B == {b \in i .. Len(list) + 1 :
                   b <= Len(list) => Depth[list[b]] # Depth[d] /\ IsIn(list[b], d)}
           E == {j \in begin .. Len(list) + 1 : AtEnd(list, d, j)}
           end == Min(E)
<1>1. DOMAIN list = 1 .. Len(list) /\ Len(list) \in Nat
  OBVIOUS
<1>2. begin \in B /\ \A b \in B : begin <= b
  <2>1. B \subseteq Nat /\ Len(list) + 1 \in B
    BY <1>1
  <2>2. QED
    BY <2>1, MinIsLeast DEF ViewBegin
<1>3. begin \in i .. Len(list) + 1
  BY <1>2
<1>4. begin <= Len(list) => begin \in Kids(list, i)
  BY <1>1, <1>2, <1>3 DEF Kids
<1> HIDE DEF begin, B
<1>5. end \in E /\ \A j \in E : end <= j
  <2>1. E \subseteq Nat /\ Len(list) + 1 \in E
    BY <1>1, <1>3 DEF AtEnd
  <2>2. QED
    BY <2>1, MinIsLeast
<1>6. end \in begin .. Len(list) + 1
  BY <1>5
<1>7. InView(list, i) = {j \in begin .. end - 1 : IsIn(list[j], d)}
  BY DEF InView, begin
<1> HIDE DEF end
<1>8. InView(list, i) \subseteq Kids(list, i)
  BY <1>1, <1>3, <1>6, <1>7 DEF Kids
<1>9. ASSUME NEW j \in Kids(list, i)
      PROVE  j \in InView(list, i)
  <2>1. j \in DOMAIN list /\ j > i /\ Depth[list[j]] = Depth[d] + 1 /\ IsIn(list[j], d)
    BY <1>9, Levels DEF Kids
  <2>2. Depth[d] \in Nat /\ Depth[list[j]] # Depth[d]
    BY <2>1, Levels
  <2>3. begin <= j
    BY <1>1, <1>2, <2>1, <2>2 DEF B
  <2>4. begin \in DOMAIN list /\ Depth[list[begin]] = Depth[d] + 1
    BY <1>1, <1>3, <1>4, <2>1, <2>3, Levels
  <2>5. ASSUME NEW k \in begin .. j
        PROVE  ~ AtEnd(list, d, k)
    <3>1. k \in DOMAIN list /\ begin <= k /\ k <= j
      BY <1>1, <1>3, <2>1
    <3>2. Depth[list[begin]] <= Depth[list[k]] /\ Depth[list[k]] <= Depth[list[j]]
          /\ Depth[list[k]] \in Nat
      BY <1>1, <2>1, <2>4, <3>1, Levels
    <3>3. Depth[list[k]] = Depth[d] + 1
      BY <2>1, <2>2, <2>4, <3>2
    <3>4. QED
      BY <1>1, <3>1, <3>3 DEF AtEnd
  <2>6. j < end
    BY <1>1, <1>5, <1>6, <2>1, <2>3, <2>5
  <2>7. QED
    BY <1>1, <1>3, <1>6, <1>7, <2>1, <2>3, <2>6
<1>10. QED
  BY <1>8, <1>9

\* What flattened_listing yields for each record, for those of its view.
Descended(list, below) ==
  \A i \in DOMAIN list :
    below[i] = Kids(list, i) \cup UNION {below[k] : k \in Kids(list, i)}

\* Going down from view to view yields a solution of the equation that
\* flattened_listing is defined by; there is one: everything that is in each
\* set that has what is in a record, and with anything what is in that.
LEMMA FlattenedSolves ==
  ASSUME NEW list \in Seq(Nodes), IsSorted(list, Before)
  PROVE  \E below : Descended(list, below) /\ Flattened(list) = below[1]
<1> DEFINE D == DOMAIN list
           Sub(i) == {k \in InView(list, i) : list[k] \in Dirs}
           Closed(i, S) == /\ Kids(list, i) \subseteq S
                           /\ \A k \in S : Kids(list, k) \subseteq S
           in == [i \in D |-> {j \in D : \A S \in SUBSET D : Closed(i, S) => j \in S}]
           below[i \in D] == InView(list, i) \cup UNION {below[j] : j \in Sub(i)}
<1>1. /\ \A i \in D : InView(list, i) = Kids(list, i) /\ Kids(list, i) \subseteq D
      /\ \A i \in D : list[i] \notin Dirs => Kids(list, i) = {}
  BY ViewShowsChildren, Levels DEF Kids
<1>2. \A i \in D : Kids(list, i) \subseteq in[i] /\ \A k \in in[i] : Kids(list, k) \subseteq in[i]
  <2>1. ASSUME NEW i \in D
        PROVE  Kids(list, i) \subseteq in[i]
    BY <1>1
  <2>2. ASSUME NEW i \in D, NEW k \in in[i], NEW j \in Kids(list, k)
        PROVE  j \in in[i]
    BY <1>1, <2>2
  <2>3. QED
    BY <2>1, <2>2
<1>3. \A i \in D : \A S \in SUBSET D : Closed(i, S) => in[i] \subseteq S
  OBVIOUS
<1>4. \A i \in D : in[i] \subseteq D
  OBVIOUS
<1> HIDE DEF in
<1>5. \A i \in D : list[i] \notin Dirs => in[i] = {}
  <2>1. SUFFICES ASSUME NEW i \in D, list[i] \notin Dirs
                 PROVE  in[i] \subseteq {}
    OBVIOUS
  <2>2. Closed(i, {})
    BY <1>1, <2>1
  <2>3. QED
    BY <1>3, <2>2
<1>6. \A i \in D : in[i] = Kids(list, i) \cup UNION {in[k] : k \in Kids(list, i)}
  <2>1. SUFFICES ASSUME NEW i \in D
                 PROVE  in[i] = Kids(list, i) \cup UNION {in[k] : k \in Kids(list, i)}
    OBVIOUS
  <2> DEFINE T == Kids(list, i) \cup UNION {in[k] : k \in Kids(list, i)}
  <2>2. Closed(i, T)
    <3>1. ASSUME NEW m \in T, NEW j \in Kids(list, m)
          PROVE  j \in T
      <4>1. CASE m \in Kids(list, i)
        BY <1>1, <1>2, <3>1, <4>1
      <4>2. CASE m \notin Kids(list, i)
        <5>1. PICK k \in Kids(list, i) : m \in in[k]
          BY <3>1, <4>2
        <5>2. QED
          BY <1>1, <1>2, <3>1, <5>1
      <4>3. QED
        BY <4>1, <4>2
    <3>2. QED
      BY <3>1
  <2>3. T \in SUBSET D
    BY <1>1, <1>4
  <2>4. in[i] \subseteq T
    BY <1>3, <2>2, <2>3
  <2>5. \A k \in Kids(list, i) : in[k] \subseteq in[i]
    <3>1. SUFFICES ASSUME NEW k \in Kids(list, i)
                   PROVE  in[k] \subseteq in[i]
      OBVIOUS
    <3>2. k \in D /\ in[i] \in SUBSET D /\ Closed(k, in[i])
      BY <1>1, <1>2, <1>4, <3>1
    <3>3. QED
      BY <1>3, <3>2
  <2>6. T \subseteq in[i]
    BY <1>2, <2>5
  <2>7. QED
    BY <2>4, <2>6
<1>7. in = [i \in D |-> InView(list, i) \cup UNION {in[j] : j \in Sub(i)}]
  <2>1. \A i \in D : UNION {in[j] : j \in Sub(i)} = UNION {in[k] : k \in Kids(list, i)}
    BY <1>1, <1>5
  <2>2. \A i \in D : in[i] = InView(list, i) \cup UNION {in[j] : j \in Sub(i)}
    BY <1>1, <1>6, <2>1
  <2>3. in = [i \in D |-> in[i]]
    BY DEF in
  <2>4. QED
    BY <2>2, <2>3
<1>8. below = CHOOSE g : g = [i \in D |-> InView(list, i) \cup UNION {g[j] : j \in Sub(i)}]
  BY DEF below
<1>9. below = [i \in D |-> InView(list, i) \cup UNION {below[j] : j \in Sub(i)}]
  BY <1>7, <1>8
<1>10. Flattened(list) = below[1]
  BY DEF Flattened
<1> HIDE DEF below
<1>11. \A i \in D : list[i] \notin Dirs => below[i] = {}
  BY <1>1, <1>9
<1>12. \A i \in D : UNION {below[j] : j \in Sub(i)} = UNION {below[k] : k \in Kids(list, i)}
  BY <1>1, <1>11
<1>13. Descended(list, below)
  BY <1>1, <1>9, <1>12 DEF Descended
<1>14. QED
  BY <1>10, <1>13

\* What is below a record, in a list as a scan makes it: everything but the
\* first is below the first, and what is in two records of one directory is
\* different.
LEMMA DescendedFacts ==
  ASSUME NEW list, Rooted(list), list # <<>>, NEW below,
         Descended(list, below)
  PROVE  /\ \A i \in DOMAIN list : below[i] \subseteq (i + 1) .. Len(list)
         /\ below[1] = 2 .. Len(list)
         /\ \A i \in DOMAIN list : \A j, k \in Kids(list, i) :
              j # k => ({j} \cup below[j]) \cap ({k} \cup below[k]) = {}
<1> DEFINE N == Len(list)
           D == 1 .. N
<1>1. /\ list \in Seq(Nodes) /\ IsSorted(list, Before) /\ N \in Nat /\ N > 0
      /\ DOMAIN list = D
  <2>1. list \in Seq(Nodes) /\ IsSorted(list, Before)
    BY DEF Rooted
  <2>2. N # 0
    BY <2>1, EmptySeq
  <2>3. QED
    BY <2>1, <2>2
<1>2. /\ \A i \in D : Kids(list, i) \subseteq D
      /\ \A i \in D : \A j \in Kids(list, i) : j > i
      /\ \A m \in D : m # 1 => \E p \in D : m \in Kids(list, p)
      /\ \A m, p, q \in D : m \in Kids(list, p) /\ m \in Kids(list, q) => p = q
  <2>1. \A i \in D : \A j \in Kids(list, i) : j > i
    BY <1>1, Levels
  <2>2. \A m \in D : m # 1 => \E p \in D : m \in Kids(list, p)
    BY <1>1 DEF Rooted
  <2>3. ASSUME NEW m \in D, NEW p \in D, NEW q \in D,
               m \in Kids(list, p), m \in Kids(list, q)
        PROVE  p = q
    <3>1. list[p] = list[q]
      BY <2>3 DEF Kids, IsIn
    <3>2. QED
      BY <1>1, <3>1, Levels
  <2>4. QED
    BY <1>1, <2>1, <2>2, <2>3 DEF Kids
<1>3. \A i \in D :
        /\ Kids(list, i) \subseteq below[i]
        /\ \A k \in Kids(list, i) : below[k] \subseteq below[i]
        /\ \A m \in below[i] : m \in Kids(list, i) \/ \E k \in Kids(list, i) : m \in below[k]
  BY <1>1 DEF Descended
<1> HIDE DEF N
<1>4. \A i \in D : below[i] \subseteq {j \in D : j > i}
  <2> DEFINE S == {i \in D : below[i] \subseteq {j \in D : j > i}}
  <2>1. ASSUME NEW i \in D, \A j \in D : j > i => j \in S
        PROVE  i \in S
    <3>1. \A k \in Kids(list, i) : k \in D /\ k > i /\ below[k] \subseteq {j \in D : j > k}
      BY <1>2, <2>1
    <3>2. \A k \in Kids(list, i) : below[k] \subseteq {j \in D : j > i}
      BY <1>1, <3>1
    <3>3. QED
      BY <1>3, <3>1, <3>2
  <2> HIDE DEF S
  <2>2. \A i \in D : i \in S
    BY <1>1, <2>1, FromTheBack
  <2>3. QED
    BY <2>2 DEF S
<1>5. \A i \in D : \A m \in below[i] : Kids(list, m) \subseteq below[i]
  <2> DEFINE S == {i \in D : \A m \in below[i] : Kids(list, m) \subseteq below[i]}
  <2>1. ASSUME NEW i \in D, \A j \in D : j > i => j \in S
        PROVE  i \in S
    <3>1. SUFFICES ASSUME NEW m \in below[i]
                   PROVE  Kids(list, m) \subseteq below[i]
      OBVIOUS
    <3>2. CASE m \in Kids(list, i)
      BY <1>2, <1>3, <3>2
    <3>3. CASE m \notin Kids(list, i)
      <4>1. PICK k \in Kids(list, i) : m \in below[k]
        BY <1>3, <3>1, <3>3
      <4>2. k \in S
        BY <1>2, <2>1, <4>1
      <4>3. QED
        BY <1>3, <4>1, <4>2
    <3>4. QED
      BY <3>2, <3>3
  <2> HIDE DEF S
  <2>2. \A i \in D : i \in S
    BY <1>1, <2>1, FromTheBack
  <2>3. QED
    BY <2>2 DEF S
<1>6. \A i, p \in D : \A m \in below[i] : m \in Kids(list, p) => p = i \/ p \in below[i]
  <2> DEFINE S == {i \in D : \A p \in D : \A m \in below[i] :
                     m \in Kids(list, p) => p = i \/ p \in below[i]}
  <2>1. ASSUME NEW i \in D, \A j \in D : j > i => j \in S
        PROVE  i \in S
    <3>1. SUFFICES ASSUME NEW p \in D, NEW m \in below[i], m \in Kids(list, p)
                   PROVE  p = i \/ p \in below[i]
      OBVIOUS
    <3>2. CASE m \in Kids(list, i)
      BY <1>2, <3>1, <3>2
    <3>3. CASE m \notin Kids(list, i)
      <4>1. PICK k \in Kids(list, i) : m \in below[k]
        BY <1>3, <3>1, <3>3
      <4>2. k \in S
        BY <1>2, <2>1, <4>1
      <4>3. p = k \/ p \in below[k]
        BY <3>1, <4>1, <4>2
      <4>4. QED
        BY <1>3, <4>1, <4>3
    <3>4. QED
      BY <3>2, <3>3
  <2> HIDE DEF S
  <2>2. \A i \in D : i \in S
    BY <1>1, <2>1, FromTheBack
  <2>3. QED
    BY <2>2 DEF S
<1>7. \A m \in D : m # 1 => m \in below[1]
  <2> DEFINE S == {m \in D : m # 1 => m \in below[1]}
  <2>1. ASSUME NEW m \in D, \A j \in D : j < m => j \in S
        PROVE  m \in S
    <3>1. SUFFICES ASSUME m # 1
                   PROVE  m \in below[1]
      OBVIOUS
    <3>2. PICK p \in D : m \in Kids(list, p)
      BY <1>2, <3>1
    <3>3. p < m /\ p \in S /\ 1 \in D
      BY <1>1, <1>2, <2>1, <3>2
    <3>4. QED
      BY <1>3, <1>5, <3>2, <3>3
  <2> HIDE DEF S
  <2>2. \A m \in D : m \in S
    BY <1>1, <2>1, FromTheFront
  <2>3. QED
    BY <2>2 DEF S
<1> DEFINE own(j) == {j} \cup below[j]
<1>8. \A m, j, k \in D : m \in own(j) /\ m \in own(k) =>
        j = k \/ j \in below[k] \/ k \in below[j]
  <2> DEFINE S == {m \in D : \A j, k \in D : m \in own(j) /\ m \in own(k) =>
                     j = k \/ j \in below[k] \/ k \in below[j]}
  <2>1. ASSUME NEW m \in D, \A j \in D : j < m => j \in S
        PROVE  m \in S
    <3>1. SUFFICES ASSUME NEW j \in D, NEW k \in D, m \in own(j), m \in own(k),
                          m \in below[j], m \in below[k]
                   PROVE  j = k \/ j \in below[k] \/ k \in below[j]
      OBVIOUS
    <3>2. m # 1
      BY <1>1, <1>4, <3>1
    <3>3. PICK p \in D : m \in Kids(list, p)
      BY <1>2, <3>2
    <3>4. p \in own(j) /\ p \in own(k)
      BY <1>6, <3>1, <3>3
    <3>5. p \in S
      BY <1>2, <2>1, <3>3
    <3>6. QED
      BY <3>4, <3>5
  <2> HIDE DEF S
  <2>2. \A m \in D : m \in S
    BY <1>1, <2>1, FromTheFront
  <2>3. QED
    BY <2>2 DEF S
<1>9. ASSUME NEW i \in D, NEW j \in Kids(list, i), NEW k \in Kids(list, i), j # k
      PROVE  own(j) \cap own(k) = {}
  <2>1. /\ j \in D /\ k \in D /\ j > i /\ k > i
        /\ i \notin own(j) /\ i \notin own(k)
    BY <1>1, <1>2, <1>4, <1>9
  <2>2. j \notin below[k] /\ k \notin below[j]
    BY <1>6, <1>9, <2>1
  <2>3. own(j) \subseteq D
    BY <1>4, <2>1
  <2>4. QED
    BY <1>8, <1>9, <2>1, <2>2, <2>3
<1>10. \A i \in D : below[i] \subseteq (i + 1) .. N
  BY <1>1, <1>4
<1>11. below[1] = 2 .. N
  <2>1. 1 \in D /\ below[1] \subseteq 2 .. N
    BY <1>1, <1>10
  <2>2. \A m \in 2 .. N : m \in D /\ m # 1
    BY <1>1
  <2>3. QED
    BY <1>7, <2>1, <2>2
<1>12. QED
  BY <1>1, <1>9, <1>10, <1>11 DEF N

\* What count_listing_items_recursive adds up for the records at positions S,
\* given what it returns for those that are directories.
SumOver(list, count, S) ==
  MapThenSumSet(LAMBDA j : IF list[j] \in Dirs THEN 1 + count[j] ELSE 1, S)

\* What is in one of the sets that belong to the positions S.
Together(own, S) == UNION {own[j] : j \in S}

\* If each record is counted as many as a set has elements, and the sets have
\* no element in common, the sum is the size of their union.
LEMMA SumOfSizes ==
  ASSUME NEW list, NEW count, NEW S, NEW own, IsFiniteSet(S),
         \A j \in S : /\ IsFiniteSet(own[j])
                      /\ Cardinality(own[j]) = IF list[j] \in Dirs THEN 1 + count[j] ELSE 1,
         \A j, k \in S : j # k => own[j] \cap own[k] = {}
  PROVE  SumOver(list, count, S) = Cardinality(Together(own, S))
<1> DEFINE size(j) == IF list[j] \in Dirs THEN 1 + count[j] ELSE 1
           first(s) == CHOOSE x \in s : TRUE
           all(s) == Together(own, s)
           sizes == [s \in SUBSET S |-> Cardinality(all(s))]
           iter[s \in SUBSET S] ==
             IF s = {} THEN 0 ELSE LET x == first(s) IN size(x) + iter[s \ {x}]
<1>1. \A s \in SUBSET S : IsFiniteSet(s) /\ IsFiniteSet(all(s))
  <2>1. SUFFICES ASSUME NEW s \in SUBSET S
                 PROVE  IsFiniteSet(s) /\ IsFiniteSet(all(s))
    OBVIOUS
  <2>2. IsFiniteSet(s)
    BY FS_Subset
  <2> DEFINE T == {own[j] : j \in s}
  <2>3. IsFiniteSet(T)
    <3>1. [j \in s |-> own[j]] \in Surjection(s, T)
      BY DEF Surjection
    <3>2. QED
      BY <2>2, <3>1, FS_Surjection
  <2>4. \A t \in T : IsFiniteSet(t)
    OBVIOUS
  <2> HIDE DEF T
  <2>5. IsFiniteSet(UNION T)
    BY <2>3, <2>4, FS_UNION
  <2>6. QED
    BY <2>2, <2>5 DEF T, Together
<1>2. all({}) = {} /\ Cardinality({}) = 0
  BY FS_EmptySet DEF Together
<1>3. ASSUME NEW s \in SUBSET S, s # {}
      PROVE  /\ first(s) \in s /\ s \ {first(s)} \in SUBSET S
             /\ Cardinality(all(s)) = size(first(s)) + Cardinality(all(s \ {first(s)}))
             /\ Cardinality(s \ {first(s)}) \in Nat /\ Cardinality(s) \in Nat
             /\ Cardinality(s \ {first(s)}) < Cardinality(s)
  <2>1. first(s) \in s
    BY <1>3
  <2>2. PICK x \in s : x = first(s)
    BY <2>1
  <2> DEFINE rest == s \ {x}
  <2>3. rest \in SUBSET S /\ x \in S
    BY <2>2
  <2>4. all(s) = own[x] \cup all(rest)
    BY <2>2 DEF Together
  <2>5. own[x] \cap all(rest) = {}
    BY <2>3 DEF Together
  <2>6. IsFiniteSet(own[x]) /\ IsFiniteSet(all(rest)) /\ IsFiniteSet(s)
    BY <1>1, <2>3
  <2>7. Cardinality(rest) = Cardinality(s) - 1 /\ Cardinality(s) \in Nat
        /\ Cardinality(rest) \in Nat
    BY <2>6, FS_RemoveElement, FS_CardinalityType
  <2> HIDE DEF all, rest
  <2>8. /\ Cardinality(own[x] \cup all(rest)) =
             Cardinality(own[x]) + Cardinality(all(rest)) - Cardinality({})
        /\ Cardinality(own[x]) \in Nat /\ Cardinality(all(rest)) \in Nat
    BY <2>5, <2>6, FS_Union, FS_CardinalityType
  <2>9. Cardinality(own[x]) = size(x)
    BY <2>3
  <2> HIDE DEF size, first
  <2>10. Cardinality(all(s)) = size(x) + Cardinality(all(rest))
    BY <1>2, <2>4, <2>8, <2>9
  <2>11. QED
    BY <2>2, <2>3, <2>7, <2>10 DEF rest
<1> HIDE DEF all, size, first
<1>4. sizes = [s \in SUBSET S |->
                 IF s = {} THEN 0 ELSE size(first(s)) + sizes[s \ {first(s)}]]
  <2>1. \A s \in SUBSET S : Cardinality(all(s)) =
          IF s = {} THEN 0 ELSE size(first(s)) + sizes[s \ {first(s)}]
    BY <1>2, <1>3
  <2>2. QED
    BY <2>1
<1>5. iter = CHOOSE g : g = [s \in SUBSET S |->
                 IF s = {} THEN 0 ELSE size(first(s)) + g[s \ {first(s)}]]
  BY DEF iter
<1>6. iter = [s \in SUBSET S |->
                 IF s = {} THEN 0 ELSE size(first(s)) + iter[s \ {first(s)}]]
  BY <1>4, <1>5
<1>7. SumOver(list, count, S) = iter[S]
  BY DEF SumOver, MapThenSumSet, MapThenFoldSet, size, first
<1> HIDE DEF iter
<1>8. /\ iter[{}] = 0
      /\ \A s \in SUBSET S : s # {} => iter[s] = size(first(s)) + iter[s \ {first(s)}]
  BY <1>6
<1>9. \A s \in SUBSET S : iter[s] = Cardinality(all(s))
  <2> DEFINE bad == {s \in SUBSET S : iter[s] # Cardinality(all(s))}
             cards == {Cardinality(s) : s \in bad}
  <2>1. SUFFICES ASSUME bad # {}
                 PROVE  FALSE
    OBVIOUS
  <2>2. cards \subseteq Nat /\ cards # {}
    BY <1>1, <2>1, FS_CardinalityType
  <2>3. PICK s \in bad : \A t \in bad : Cardinality(s) <= Cardinality(t)
    <3>1. PICK n \in cards : \A m \in cards : n <= m
      BY <2>2, LeastExists
    <3>2. QED
      BY <3>1
  <2>4. s # {} /\ s \in SUBSET S
    BY <1>2, <1>8, <2>3
  <2>5. s \ {first(s)} \notin bad
    BY <1>3, <2>3, <2>4
  <2>6. QED
    BY <1>3, <1>8, <2>3, <2>4, <2>5
<1>10. QED
  BY <1>1, <1>7, <1>9 DEF all

\* The number that count_listing_items_recursive returns, as well.
LEMMA CountIsSize ==
  ASSUME NEW list, Rooted(list), list # <<>>, NEW below, Descended(list, below)
  PROVE  CountRecursive(list) = Cardinality(below[1])
<1> DEFINE N == Len(list)
           D == DOMAIN list
           own == [j \in D |-> {j} \cup below[j]]
           sizes == [i \in D |-> Cardinality(below[i])]
           count[i \in D] ==
             MapThenSumSet(LAMBDA j : IF list[j] \in Dirs THEN 1 + count[j] ELSE 1,
                           InView(list, i))
<1>1. /\ list \in Seq(Nodes) /\ IsSorted(list, Before) /\ N \in Nat /\ N > 0
      /\ D = 1 .. N
  <2>1. list \in Seq(Nodes) /\ IsSorted(list, Before)
    BY DEF Rooted
  <2>2. N # 0
    BY <2>1, EmptySeq
  <2>3. QED
    BY <2>1, <2>2
<1>2. /\ \A i \in D : InView(list, i) = Kids(list, i) /\ Kids(list, i) \subseteq D
      /\ \A i \in D : list[i] \notin Dirs => Kids(list, i) = {}
      /\ \A i \in D : \A j \in Kids(list, i) : j > i
  BY <1>1, ViewShowsChildren, Levels DEF Kids
<1>3. /\ \A i \in D : below[i] \subseteq (i + 1) .. N
      /\ \A i \in D : \A j, k \in Kids(list, i) : j # k => own[j] \cap own[k] = {}
      /\ \A i \in D : list[i] \notin Dirs => below[i] = {}
      /\ \A i \in D : below[i] = Together(own, Kids(list, i))
  <2>1. /\ \A i \in D : below[i] \subseteq (i + 1) .. N
        /\ \A i \in D : \A j, k \in Kids(list, i) : j # k => own[j] \cap own[k] = {}
    BY <1>2, DescendedFacts
  <2>2. \A i \in D : below[i] = Kids(list, i) \cup UNION {below[k] : k \in Kids(list, i)}
    BY DEF Descended
  <2>3. \A i \in D : list[i] \notin Dirs => below[i] = {}
    BY <1>2, <2>2
  <2>4. \A i \in D : below[i] = Together(own, Kids(list, i))
    <3>1. SUFFICES ASSUME NEW i \in D
                   PROVE  below[i] = Together(own, Kids(list, i))
      OBVIOUS
    <3>2. \A j \in Kids(list, i) : own[j] = {j} \cup below[j]
      BY <1>2
    <3> HIDE DEF own
    <3>3. Together(own, Kids(list, i)) =
            Kids(list, i) \cup UNION {below[k] : k \in Kids(list, i)}
      BY <3>2 DEF Together
    <3>4. QED
      BY <2>2, <3>3
  <2>5. QED
    BY <2>1, <2>3, <2>4
<1> HIDE DEF own, N, D
<1>4. \A i \in D : /\ IsFiniteSet(below[i]) /\ IsFiniteSet(own[i])
                   /\ IsFiniteSet(Kids(list, i))
                   /\ Cardinality(below[i]) \in Nat
                   /\ Cardinality(own[i]) = 1 + Cardinality(below[i])
  <2>1. IsFiniteSet(1 .. N)
    BY <1>1, FS_Interval
  <2>2. SUFFICES ASSUME NEW i \in D
                 PROVE  /\ IsFiniteSet(below[i]) /\ IsFiniteSet(own[i])
                        /\ IsFiniteSet(Kids(list, i))
                        /\ Cardinality(below[i]) \in Nat
                        /\ Cardinality(own[i]) = 1 + Cardinality(below[i])
    OBVIOUS
  <2>3. below[i] \in SUBSET (1 .. N) /\ Kids(list, i) \in SUBSET (1 .. N) /\ i \notin below[i]
    BY <1>1, <1>2, <1>3
  <2>4. IsFiniteSet(below[i]) /\ IsFiniteSet(Kids(list, i))
    BY <2>1, <2>3, FS_Subset
  <2>5. own[i] = below[i] \cup {i}
    BY DEF own
  <2>6. /\ IsFiniteSet(below[i] \cup {i})
        /\ Cardinality(below[i] \cup {i}) = Cardinality(below[i]) + 1
    BY <2>3, <2>4, FS_AddElement
  <2>7. Cardinality(below[i]) \in Nat
    BY <2>4, FS_CardinalityType
  <2>8. Cardinality(own[i]) = 1 + Cardinality(below[i])
    BY <2>5, <2>6, <2>7
  <2>9. QED
    BY <2>4, <2>5, <2>6, <2>7, <2>8
<1>5. ASSUME NEW i \in D, NEW c, \A j \in Kids(list, i) : c[j] = Cardinality(below[j])
      PROVE  SumOver(list, c, InView(list, i)) = Cardinality(below[i])
  <2>1. \A j \in Kids(list, i) :
          /\ IsFiniteSet(own[j])
          /\ Cardinality(own[j]) = IF list[j] \in Dirs THEN 1 + c[j] ELSE 1
    <3>1. SUFFICES ASSUME NEW j \in Kids(list, i)
                   PROVE  /\ IsFiniteSet(own[j])
                          /\ Cardinality(own[j]) = IF list[j] \in Dirs THEN 1 + c[j] ELSE 1
      OBVIOUS
    <3>2. list[j] \notin Dirs => Cardinality(below[j]) = 0
      BY <1>2, <1>3, FS_EmptySet
    <3>3. QED
      BY <1>2, <1>4, <1>5, <3>2
  <2>2. \A j, k \in Kids(list, i) : j # k => own[j] \cap own[k] = {}
    BY <1>3
  <2>3. IsFiniteSet(Kids(list, i))
    BY <1>4
  <2>4. SumOver(list, c, Kids(list, i)) = Cardinality(Together(own, Kids(list, i)))
    BY <2>1, <2>2, <2>3, SumOfSizes
  <2>5. QED
    BY <1>2, <1>3, <2>4
<1>6. sizes = [i \in D |-> SumOver(list, sizes, InView(list, i))]
  <2>1. \A i \in D : SumOver(list, sizes, InView(list, i)) = Cardinality(below[i])
    <3>1. ASSUME NEW i \in D
          PROVE  SumOver(list, sizes, InView(list, i)) = Cardinality(below[i])
      <4>1. \A j \in Kids(list, i) : sizes[j] = Cardinality(below[j])
        BY <1>2
      <4> HIDE DEF sizes
      <4>2. QED
        BY <1>5, <4>1
    <3>2. QED
      BY <3>1
  <2>2. QED
    BY <2>1
<1>7. count = CHOOSE g : g = [i \in D |-> SumOver(list, g, InView(list, i))]
  BY DEF count, SumOver, MapThenSumSet, MapThenFoldSet
<1>8. count = [i \in D |-> SumOver(list, count, InView(list, i))]
  BY <1>6, <1>7
<1>9. CountRecursive(list) = count[1]
  BY DEF CountRecursive, D, MapThenSumSet, MapThenFoldSet
<1> HIDE DEF count
<1>10. \A i \in D : count[i] = Cardinality(below[i])
  <2> DEFINE S == {i \in D : count[i] = Cardinality(below[i])}
  <2>1. ASSUME NEW i \in D, \A j \in D : j > i => j \in S
        PROVE  i \in S
    <3>1. \A j \in Kids(list, i) : count[j] = Cardinality(below[j])
      BY <1>2, <2>1
    <3>2. SumOver(list, count, InView(list, i)) = Cardinality(below[i])
      BY <1>5, <3>1
    <3>3. QED
      BY <1>8, <3>2
  <2> HIDE DEF S
  <2>2. \A i \in D : i \in S
    BY <1>1, <2>1, FromTheBack
  <2>3. QED
    BY <2>2 DEF S
<1>11. QED
  BY <1>1, <1>9, <1>10

\* Both walks of guess_content_type, over the views of a list as a scan makes
\* it, meet every record but the first, and each of them once.
LEMMA ViewsCover ==
  ASSUME NEW list, Rooted(list), list # <<>>
  PROVE  /\ CountRecursive(list) = Len(list) - 1
         /\ Flattened(list) = 2 .. Len(list)
<1>1. list \in Seq(Nodes) /\ IsSorted(list, Before)
  BY DEF Rooted
<1>2. PICK below : Descended(list, below) /\ Flattened(list) = below[1]
  BY <1>1, FlattenedSolves
<1>3. below[1] = 2 .. Len(list) /\ CountRecursive(list) = Cardinality(below[1])
  BY <1>2, DescendedFacts, CountIsSize
<1>4. Len(list) \in Nat /\ Len(list) # 0
  BY <1>1, EmptySeq
<1>5. Cardinality(2 .. Len(list)) = Len(list) - 1
  BY <1>4, FS_Interval
<1>6. QED
  BY <1>2, <1>3, <1>5
=============================================================================
