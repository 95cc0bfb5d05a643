-------------------------- MODULE LocateLocalProofs --------------------------
(***************************************************************************)
(* What `dindexer locate --byhash` leaves out, and what it asks in vain,   *)
(* for every local directory whose relative paths tell the truth           *)
(* (PathsTell).                                                            *)
(***************************************************************************)
EXTENDS LocateLocalProperties, SequenceTheorems, FiniteSetTheorems,
        WellFoundedInduction, TLAPS

-----------------------------------------------------------------------------
(* A non-empty set of naturals has a least member; one that is bounded has *)
(* a greatest (Max of the candidates on the stack).                        *)
LEMMA LeastExists ==
  ASSUME NEW S, S \subseteq Nat, S # {}
  PROVE  \E x \in S : \A y \in S : x <= y
<1> DEFINE less == {ss \in Nat \X Nat : ss[1] < ss[2]}
<1>1. IsWellFoundedOn(less, Nat)
  BY NatLessThanWellFounded DEF OpToRel
<1>2. PICK x \in S : \A y \in S : ~ (<<y, x>> \in less)
  BY <1>1, WFMin
<1>3. \A y \in S : <<y, x>> \in Nat \X Nat /\ <<y, x>>[1] = y /\ <<y, x>>[2] = x
  OBVIOUS
<1>4. \A y \in S : ~ (y < x)
  BY <1>2, <1>3
<1> QED BY <1>4

LEMMA MaxIsGreatest ==
  ASSUME NEW N \in Nat, NEW S, S \subseteq 1 .. N, S # {}
  PROVE  Max(S) \in S /\ \A y \in S : Max(S) >= y
<1> DEFINE left == {N - i : i \in S}
<1>1. PICK x \in left : \A y \in left : x <= y
  <2>0. \A i \in S : N - i \in Nat
    OBVIOUS
  <2>1. left \subseteq Nat /\ left # {}
    BY <2>0
  <2> HIDE DEF left
  <2> QED BY <2>1, LeastExists
<1>2. PICK i \in S : x = N - i
  BY <1>1
<1>3. \A y \in S : i >= y
  <2>1. \A y \in S : N - y \in left /\ y \in Int
    OBVIOUS
  <2>2. \A y \in S : N - i <= N - y
    BY <1>1, <1>2, <2>1
  <2>3. i \in Int
    BY <1>2
  <2> HIDE DEF left
  <2> QED BY <2>1, <2>2, <2>3
<1>4. \E m \in S : \A y \in S : m >= y
  BY <1>3
<1> QED BY <1>4 DEF Max

\* In place of induction, for what follows from all that is before.
LEMMA FromTheFront ==
  ASSUME NEW N \in Nat, NEW S,
         \A i \in 1 .. N : (\A j \in 1 .. N : j < i => j \in S) => i \in S
  PROVE  \A i \in 1 .. N : i \in S
<1> DEFINE bad == {i \in 1 .. N : i \notin S}
<1>1. SUFFICES ASSUME bad # {} PROVE FALSE
  OBVIOUS
<1>2. PICK x \in bad : \A y \in bad : x <= y
  <2>1. bad \subseteq Nat
    OBVIOUS
  <2> QED BY <1>1, <2>1, LeastExists
<1>3. \A j \in 1 .. N : j < x => j \in S
  BY <1>2
<1> QED BY <1>2, <1>3

-----------------------------------------------------------------------------
(* Prefixes, for the names of items.                                       *)
LEMMA PrefixIs ==
  ASSUME NEW X, NEW s \in Seq(X), NEW t \in Seq(X)
  PROVE  IsPrefix(s, t) <=> Len(s) <= Len(t) /\ \A i \in 1 .. Len(s) : s[i] = t[i]
<1>1. Len(s) \in Nat /\ Len(t) \in Nat
  OBVIOUS
<1>2. ASSUME Len(s) <= Len(t)
      PROVE  SubSeq(s, 1, Len(s)) = SubSeq(t, 1, Len(s))
               <=> \A i \in 1 .. Len(s) : s[i] = t[i]
  <2>1. /\ Len(SubSeq(s, 1, Len(s))) = Len(s)
        /\ Len(SubSeq(t, 1, Len(s))) = Len(s)
        /\ SubSeq(s, 1, Len(s)) \in Seq(X)
        /\ SubSeq(t, 1, Len(s)) \in Seq(X)
    BY <1>1, <1>2
  <2>2. \A i \in 1 .. Len(s) : /\ SubSeq(s, 1, Len(s))[i] = s[i]
                               /\ SubSeq(t, 1, Len(s))[i] = t[i]
    BY <1>1, <1>2
  <2>3. ASSUME \A i \in 1 .. Len(s) : s[i] = t[i]
        PROVE  SubSeq(s, 1, Len(s)) = SubSeq(t, 1, Len(s))
    BY <2>1, <2>2, <2>3, SeqEqual
  <2> QED BY <2>2, <2>3
<1> QED BY <1>2 DEF IsPrefix

LEMMA PrefixOrder ==
  ASSUME NEW X, NEW s \in Seq(X), NEW t \in Seq(X), NEW u \in Seq(X)
  PROVE  /\ IsPrefix(s, s)
         /\ IsPrefix(s, t) /\ IsPrefix(t, u) => IsPrefix(s, u)
         /\ IsPrefix(s, t) /\ IsPrefix(t, s) => s = t
         /\ IsStrictPrefix(s, t) => Len(s) < Len(t)
         /\ IsStrictPrefix(s, t) /\ IsPrefix(t, u) => IsStrictPrefix(s, u)
         /\ IsPrefix(s, t) /\ IsStrictPrefix(t, u) => IsStrictPrefix(s, u)
<1>1. /\ Len(s) \in Nat /\ Len(t) \in Nat /\ Len(u) \in Nat
  OBVIOUS
<1>2. IsPrefix(s, s)
  BY PrefixIs
<1>3. IsPrefix(s, t) /\ IsPrefix(t, u) => IsPrefix(s, u)
  BY <1>1, PrefixIs
<1>4. IsPrefix(s, t) /\ Len(s) = Len(t) => s = t
  BY PrefixIs, SeqEqual
<1>5. IsStrictPrefix(s, t) => Len(s) < Len(t)
  BY <1>1, <1>4, PrefixIs DEF IsStrictPrefix
<1>6. IsPrefix(s, t) => Len(s) <= Len(t)
  BY PrefixIs
<1>7. IsPrefix(t, u) => Len(t) <= Len(u)
  BY PrefixIs
<1>8. IsPrefix(t, s) => Len(t) <= Len(s)
  BY PrefixIs
<1>9. IsStrictPrefix(t, u) => Len(t) < Len(u)
  <2>1. IsPrefix(t, u) /\ Len(t) = Len(u) => t = u
    BY PrefixIs, SeqEqual
  <2> QED BY <1>1, <1>7, <2>1 DEF IsStrictPrefix
<1> QED BY <1>1, <1>2, <1>3, <1>4, <1>5, <1>6, <1>7, <1>8, <1>9 DEF IsStrictPrefix

LEMMA FrontFacts ==
  ASSUME NEW X, NEW s \in Seq(X), NEW t \in Seq(X), t # <<>>
  PROVE  /\ Front(t) \in Seq(X)
         /\ IsStrictPrefix(Front(t), t)
         /\ IsStrictPrefix(s, t) => IsPrefix(s, Front(t))
<1>1. Len(s) \in Nat /\ Len(t) \in Nat /\ Len(t) > 0
  OBVIOUS
<1>2. Front(t) \in Seq(X) /\ Len(Front(t)) = Len(t) - 1
  <2> DEFINE k == Len(t) - 1
  <2>1. k \in 0 .. Len(t)
    BY <1>1
  <2>2. SubSeq(t, 1, k) \in Seq(X) /\ Len(SubSeq(t, 1, k)) = k
    <3> HIDE DEF k
    <3> QED BY <1>1, <2>1
  <2> QED BY <2>2 DEF Front
<1>3. \A i \in 1 .. Len(t) - 1 : Front(t)[i] = t[i]
  BY <1>1 DEF Front
<1>4. IsPrefix(Front(t), t) /\ Front(t) # t
  BY <1>1, <1>2, <1>3, PrefixIs
<1>5. IsStrictPrefix(s, t) => Len(s) < Len(t)
  BY PrefixOrder
<1>6. IsStrictPrefix(s, t) => IsPrefix(s, Front(t))
  <2> SUFFICES ASSUME IsStrictPrefix(s, t) PROVE IsPrefix(s, Front(t))
    OBVIOUS
  <2>1. \A i \in 1 .. Len(s) : s[i] = t[i]
    BY PrefixIs DEF IsStrictPrefix
  <2>2. \A i \in 1 .. Len(s) : i \in 1 .. Len(t) - 1
    BY <1>1, <1>5
  <2>3. Len(s) <= Len(Front(t)) /\ \A i \in 1 .. Len(s) : s[i] = Front(t)[i]
    BY <1>1, <1>2, <1>3, <1>5, <2>1, <2>2
  <2> QED BY <1>2, <2>3, PrefixIs
<1> QED BY <1>2, <1>4, <1>6 DEF IsStrictPrefix

-----------------------------------------------------------------------------
(* The order of strings, seen from the first m letters that are the same,  *)
(* is a strict total order.                                                *)
Parts(v, w, m) ==
  /\ m \in Nat /\ m <= Len(v) /\ m < Len(w)
  /\ \A i \in 1 .. m : v[i] = w[i]
  /\ m < Len(v) => v[m + 1] < w[m + 1]

LEMMA BeforeParts ==
  ASSUME NEW v \in Seq(Nat), NEW w \in Seq(Nat)
  PROVE  Before(v, w) <=> \E m \in Nat : Parts(v, w, m)
<1>1. Len(v) \in Nat /\ Len(w) \in Nat /\ DOMAIN v = 1 .. Len(v) /\ DOMAIN w = 1 .. Len(w)
  OBVIOUS
<1>2. ASSUME IsStrictPrefix(v, w) PROVE Parts(v, w, Len(v))
  <2>1. Len(v) < Len(w)
    BY <1>2, PrefixOrder
  <2> QED BY <1>1, <1>2, <2>1, PrefixIs DEF Parts, IsStrictPrefix
<1>3. ASSUME NEW k \in DOMAIN v \cap DOMAIN w, v[k] < w[k], \A i \in 1 .. k - 1 : v[i] = w[i]
      PROVE  Parts(v, w, k - 1)
  BY <1>1, <1>3 DEF Parts
<1>4. ASSUME NEW m \in Nat, Parts(v, w, m) PROVE Before(v, w)
  <2>1. CASE m = Len(v)
    BY <1>1, <1>4, <2>1, PrefixIs DEF Parts, Before, IsStrictPrefix
  <2>2. CASE m < Len(v)
    <3>1. PICK k \in DOMAIN v \cap DOMAIN w : k = m + 1
      BY <1>1, <1>4, <2>2 DEF Parts
    <3>2. v[k] < w[k] /\ \A i \in 1 .. k - 1 : v[i] = w[i]
      BY <1>1, <1>4, <2>2, <3>1 DEF Parts
    <3> QED BY <3>2 DEF Before
  <2>3. m = Len(v) \/ m < Len(v)
    <3>1. m <= Len(v)
      BY <1>4 DEF Parts
    <3>2. Len(v) \in Nat
      OBVIOUS
    <3> QED BY ONLY <3>1, <3>2, m \in Nat
  <2> QED BY <2>1, <2>2, <2>3
<1>5. ASSUME NEW k \in DOMAIN v \cap DOMAIN w, v[k] < w[k], \A i \in 1 .. k - 1 : v[i] = w[i]
      PROVE  k - 1 \in Nat
  BY <1>1
<1> QED BY <1>1, <1>2, <1>3, <1>4, <1>5 DEF Before

LEMMA BeforeIsOrder ==
  ASSUME NEW u \in Seq(Nat), NEW v \in Seq(Nat), NEW w \in Seq(Nat)
  PROVE  /\ ~ Before(v, v)
         /\ Before(u, v) /\ Before(v, w) => Before(u, w)
         /\ v # w => Before(v, w) \/ Before(w, v)
<1>1. Len(u) \in Nat /\ Len(v) \in Nat /\ Len(w) \in Nat
  OBVIOUS
<1>2. /\ \A i \in 1 .. Len(u) : u[i] \in Nat
      /\ \A i \in 1 .. Len(v) : v[i] \in Nat
      /\ \A i \in 1 .. Len(w) : w[i] \in Nat
  OBVIOUS
<1>3. ~ Before(v, v)
  <2>1. ASSUME NEW m \in Nat, Parts(v, v, m) PROVE FALSE
    <3>1. m + 1 \in 1 .. Len(v) /\ v[m + 1] < v[m + 1]
      BY <1>1, <2>1 DEF Parts
    <3> QED BY <1>2, <3>1
  <2> QED BY <2>1, BeforeParts
<1>4. ASSUME NEW m \in Nat, NEW n \in Nat, Parts(u, v, m), Parts(v, w, n)
      PROVE  \E k \in Nat : Parts(u, w, k)
  <2>1. CASE m < n
    <3>1. m < Len(w) /\ (\A i \in 1 .. m : u[i] = w[i])
      BY <1>1, <1>4, <2>1 DEF Parts
    <3>2. v[m + 1] = w[m + 1]
      BY <1>4, <2>1 DEF Parts
    <3> QED BY <1>4, <3>1, <3>2 DEF Parts
  <2>2. CASE m = n
    <3>1. m < Len(w) /\ (\A i \in 1 .. m : u[i] = w[i])
      BY <1>1, <1>4, <2>2 DEF Parts
    <3>2. ASSUME m < Len(u) PROVE u[m + 1] < w[m + 1]
      <4>1. /\ m + 1 \in 1 .. Len(u) /\ m + 1 \in 1 .. Len(v) /\ m + 1 \in 1 .. Len(w)
            /\ u[m + 1] < v[m + 1] /\ v[m + 1] < w[m + 1]
        BY <1>1, <1>4, <2>2, <3>2 DEF Parts
      <4> QED BY <1>2, <4>1
    <3> QED BY <1>4, <3>1, <3>2 DEF Parts
  <2>3. CASE n < m
    <3>1. n <= Len(u) /\ n < Len(w) /\ (\A i \in 1 .. n : u[i] = w[i])
      BY <1>1, <1>4, <2>3 DEF Parts
    <3>2. n < Len(v) /\ v[n + 1] < w[n + 1] /\ u[n + 1] = v[n + 1]
      BY <1>1, <1>4, <2>3 DEF Parts
    <3> QED BY <1>4, <3>1, <3>2 DEF Parts
  <2> QED BY <1>4, <2>1, <2>2, <2>3
<1>5. ASSUME v # w PROVE Before(v, w) \/ Before(w, v)
  <2> DEFINE bad == {k \in DOMAIN v \cap DOMAIN w : v[k] # w[k]}
  <2>1. bad \subseteq Nat /\ bad \subseteq 1 .. Len(v) /\ bad \subseteq 1 .. Len(w)
    OBVIOUS
  <2>2. CASE bad # {}
    <3>1. PICK k \in bad : \A j \in bad : k <= j
      BY <2>1, <2>2, LeastExists
    <3>2. /\ k \in 1 .. Len(v) /\ k \in 1 .. Len(w) /\ v[k] # w[k]
          /\ \A i \in 1 .. k - 1 : v[i] = w[i]
      <4>1. k \in 1 .. Len(v) /\ k \in 1 .. Len(w) /\ v[k] # w[k]
        BY <2>1, <3>1
      <4>2. \A i \in 1 .. k - 1 : i \in 1 .. Len(v) /\ i \in 1 .. Len(w) /\ ~ (k <= i)
        BY <1>1, <4>1
      <4>3. \A i \in 1 .. k - 1 : i \in DOMAIN v \cap DOMAIN w /\ i \notin bad
        BY <3>1, <4>2
      <4> QED BY <4>1, <4>3
    <3>3. v[k] < w[k] \/ w[k] < v[k]
      BY <1>2, <3>2
    <3>4. k \in DOMAIN v \cap DOMAIN w /\ \A i \in 1 .. k - 1 : w[i] = v[i]
      BY <3>2
    <3> QED BY <3>2, <3>3, <3>4 DEF Before
  <2>3. CASE bad = {}
    <3>1. \A i \in 1 .. Len(v) : i \in 1 .. Len(w) => v[i] = w[i]
      BY <2>3
    <3>2. CASE Len(v) <= Len(w)
      <4>1. IsPrefix(v, w)
        BY <1>1, <3>1, <3>2, PrefixIs
      <4> QED BY <1>5, <4>1 DEF Before, IsStrictPrefix
    <3>3. CASE Len(w) <= Len(v)
      <4>1. IsPrefix(w, v)
        BY <1>1, <3>1, <3>3, PrefixIs
      <4> QED BY <1>5, <4>1 DEF Before, IsStrictPrefix
    <3> QED BY <1>1, <3>2, <3>3
  <2> QED BY <2>2, <2>3
<1>6. Before(u, v) /\ Before(v, w) => Before(u, w)
  <2> SUFFICES ASSUME Before(u, v), Before(v, w) PROVE Before(u, w)
    OBVIOUS
  <2>1. PICK m \in Nat : Parts(u, v, m)
    BY BeforeParts
  <2>2. PICK n \in Nat : Parts(v, w, n)
    BY BeforeParts
  <2> QED BY <1>4, <2>1, <2>2, BeforeParts
<1> QED BY <1>3, <1>5, <1>6

-----------------------------------------------------------------------------
(* Ordered lists every member once, in its place.                          *)
IsOrder(S, less) ==
  /\ \A d \in S : <<d, d>> \notin less
  /\ \A c, d, e \in S : <<c, d>> \in less /\ <<d, e>> \in less => <<c, e>> \in less
  /\ \A d, e \in S : d # e => <<d, e>> \in less \/ <<e, d>> \in less

LEMMA OrderedFacts ==
  ASSUME NEW S, IsFiniteSet(S), NEW less, IsOrder(S, less)
  PROVE  LET s == Ordered(S, less) IN
           /\ s \in Seq(S) /\ Len(s) = Cardinality(S)
           /\ \A e \in S : \E i \in 1 .. Len(s) : s[i] = e
           /\ \A i, j \in 1 .. Len(s) : i < j <=> <<s[i], s[j]>> \in less
<1> DEFINE n == Cardinality(S)
           ahead(e) == {d \in S : <<d, e>> \in less}
           place == [e \in S |-> Cardinality(ahead(e))]
           s == Ordered(S, less)
<1>1. n \in Nat
  BY FS_CardinalityType
<1>2. \A e \in S : ahead(e) \subseteq S /\ IsFiniteSet(ahead(e)) /\ Cardinality(ahead(e)) \in Nat
  <2> TAKE e \in S
  <2>1. ahead(e) \in SUBSET S
    OBVIOUS
  <2>2. IsFiniteSet(ahead(e))
    BY <2>1, FS_Subset
  <2> QED BY <2>1, <2>2, FS_CardinalityType
<1>3. ASSUME NEW e \in S PROVE Cardinality(ahead(e)) < n
  <2>1. ahead(e) \in SUBSET S /\ ahead(e) # S
    BY DEF IsOrder
  <2>2. Cardinality(ahead(e)) <= n /\ Cardinality(ahead(e)) # n
    BY <2>1, FS_Subset
  <2> HIDE DEF ahead
  <2> QED BY <1>1, <1>2, <2>2
<1>4. ASSUME NEW d \in S, NEW e \in S, <<d, e>> \in less
      PROVE  Cardinality(ahead(d)) < Cardinality(ahead(e))
  <2>1. ahead(d) \in SUBSET ahead(e)
    BY <1>4 DEF IsOrder
  <2>2. d \in ahead(e) /\ d \notin ahead(d)
    BY <1>4 DEF IsOrder
  <2> HIDE DEF ahead
  <2>3. Cardinality(ahead(d)) <= Cardinality(ahead(e)) /\ Cardinality(ahead(d)) # Cardinality(ahead(e))
    BY <1>2, <2>1, <2>2, FS_Subset
  <2> QED BY <1>2, <2>3
<1>5. place \in [S -> 0 .. n - 1]
  <2> HIDE DEF ahead
  <2> QED BY <1>1, <1>2, <1>3
<1>6. \A d, e \in S : <<d, e>> \in less => place[d] < place[e]
  <2> HIDE DEF ahead
  <2> QED BY <1>4
<1> HIDE DEF place
<1>7. \A d, e \in S : place[d] = place[e] => d = e
  <2> SUFFICES ASSUME NEW d \in S, NEW e \in S, place[d] = place[e], d # e PROVE FALSE
    OBVIOUS
  <2>1. place[d] < place[e] \/ place[e] < place[d]
    BY <1>6 DEF IsOrder
  <2>2. place[d] \in 0 .. n - 1 /\ place[e] \in 0 .. n - 1
    BY <1>5
  <2> QED BY <2>1, <2>2
<1>8. \A k \in 0 .. n - 1 : \E e \in S : place[e] = k
  <2>1. place \in Injection(S, 0 .. n - 1)
    BY <1>5, <1>7 DEF Injection, IsInjective
  <2>2. IsFiniteSet(0 .. n - 1) /\ Cardinality(0 .. n - 1) = n
    <3>1. 0 \in Int /\ n - 1 \in Int
      BY <1>1
    <3>2. IsFiniteSet(0 .. n - 1) /\ Cardinality(0 .. n - 1) = IF 0 > n - 1 THEN 0 ELSE ((n - 1) - 0) + 1
      BY <3>1, FS_Interval
    <3> QED BY <1>1, <3>2
  <2>3. place \in Surjection(S, 0 .. n - 1)
    BY <2>1, <2>2, FS_Injection
  <2> QED BY <2>3 DEF Surjection
<1>9. s = [i \in 1 .. n |-> CHOOSE e \in S : place[e] = i - 1]
  BY DEF Ordered, place
<1> HIDE DEF s
<1>10. \A i \in 1 .. n : s[i] \in S /\ place[s[i]] = i - 1
  <2> TAKE i \in 1 .. n
  <2>1. i - 1 \in 0 .. n - 1
    BY <1>1
  <2>2. \E e \in S : place[e] = i - 1
    BY <1>8, <2>1
  <2> QED BY <1>9, <2>2
<1>11. s \in Seq(S) /\ Len(s) = n
  <2>1. s \in [1 .. n -> S]
    BY <1>9, <1>10
  <2> QED BY <1>1, <2>1
<1>12. \A e \in S : \E i \in 1 .. n : s[i] = e
  <2> TAKE e \in S
  <2>1. place[e] \in 0 .. n - 1
    BY <1>5
  <2>2. place[e] + 1 \in 1 .. n /\ (place[e] + 1) - 1 = place[e]
    BY <1>1, <2>1
  <2>3. s[place[e] + 1] = e
    BY <1>7, <1>10, <2>2
  <2> QED BY <2>2, <2>3
<1>13. \A i, j \in 1 .. n : i < j <=> <<s[i], s[j]>> \in less
  <2> SUFFICES ASSUME NEW i \in 1 .. n, NEW j \in 1 .. n PROVE i < j <=> <<s[i], s[j]>> \in less
    OBVIOUS
  <2>1. /\ s[i] \in S /\ s[j] \in S /\ place[s[i]] = i - 1 /\ place[s[j]] = j - 1
        /\ i \in Int /\ j \in Int
    BY <1>10
  <2>2. ASSUME <<s[i], s[j]>> \in less PROVE i < j
    BY <1>6, <2>1, <2>2
  <2>3. ASSUME i < j PROVE <<s[i], s[j]>> \in less
    <3>1. s[i] # s[j]
      BY <2>1, <2>3
    <3>2. <<s[j], s[i]>> \notin less
      BY <1>6, <2>1, <2>3
    <3> QED BY <2>1, <3>1, <3>2 DEF IsOrder
  <2> QED BY <2>2, <2>3
<1> QED BY <1>11, <1>12, <1>13 DEF s

-----------------------------------------------------------------------------
(* The invariant, for a root of which the relative paths tell the truth.   *)
Down(d, e) == IsStrictPrefix(d.path, e.path)

Beside(d, e) ==
  /\ d # e
  /\ d.path # <<>> /\ e.path # <<>>
  /\ Front(d.path) = Front(e.path)

Name(r) == PathName(Path(records[r]))

\* Every item is listed once, in the order of the paths.
ListedRight ==
  pc # "list" =>
    /\ records \in Seq(local)
    /\ \A e \in local : \E i \in 1 .. Len(records) : records[i] = e
    /\ \A i, j \in 1 .. Len(records) :
         i < j <=> Before(Path(records[i]), Path(records[j]))

\* With a directory inside that is in the tree par.
Nested(par, recs, p) == \E c \in DOMAIN par : recs[c].dir /\ Down(recs[p], recs[c])

\* r may be under p: in it, or beside it if there is a directory inside.
MayTake(par, recs, p, r) ==
  /\ recs[p].dir
  /\ \/ Down(recs[p], recs[r])
     \/ Beside(recs[p], recs[r]) /\ Nested(par, recs, p)

Nodes == {Retval} \cup DOMAIN parent

\* A node takes what is in its directory; what is beside it only if it is nested.
TreeRight ==
  /\ pc = "list" => parent = <<>>
  /\ parent \in Seq(Nat) /\ Len(parent) <= Len(records)
  /\ pc \in {"ask", "done"} => Len(parent) = Len(records)
  /\ \A r \in DOMAIN parent :
       /\ parent[r] \in 0 .. r - 1
       /\ parent[r] # Retval => MayTake(parent, records, parent[r], r)
  /\ currNode \in Nodes
  /\ \A q \in DOMAIN parent : q = currNode => records[q].dir /\ prevDir = Name(q)
  /\ nodeStack \in Seq(Nodes)
  /\ \A k \in DOMAIN nodeStack :
       nodeStack[k] # Retval =>
         records[nodeStack[k]].dir /\ Nested(parent, records, nodeStack[k])

\* p is met on the way up from r: every set that goes up from r comes to it.
Above(par, p, r) ==
  \A S \in SUBSET Nat :
    par[r] \in S /\ (\A x \in S \cap DOMAIN par : par[x] \in S) => p \in S

\* The next node goes under p, or under one that is, unless p is left.
OnWay(par, p, n, stack) ==
  \/ n = p
  \/ /\ n # Retval /\ Above(par, p, n)
     /\ \E k \in DOMAIN stack :
          /\ stack[k] = p
          /\ \A m \in k + 1 .. Len(stack) : stack[m] # Retval /\ Above(par, p, stack[m])

\* What follows a directory, as far as all of it is inside, goes under it.
SubtreesRight ==
  \A p \in DOMAIN parent : records[p].dir =>
    /\ \A i \in DOMAIN parent :
         p < i /\ (\A j \in p + 1 .. i : Down(records[p], records[j])) => Above(parent, p, i)
    /\ (\A j \in p + 1 .. Len(parent) : Down(records[p], records[j])) =>
         OnWay(parent, p, currNode, nodeStack)

\* What was asked for and is not known, so that its children are asked for.
Open == {q \in 0 .. Len(records) : q = Retval \/ records[q] \in asked \ found}

\* An item is asked for once what it is under was and is not known.
AskRight ==
  /\ found \subseteq asked /\ asked \subseteq local
  /\ todo \in Seq(1 .. Len(records))
  /\ \A i, j \in DOMAIN todo : todo[i] = todo[j] => i = j
  /\ pc \notin {"ask", "done"} => todo = <<>> /\ asked = {} /\ found = {}
  /\ pc = "done" => todo = <<>>
  /\ pc \in {"ask", "done"} =>
       \A r \in 1 .. Len(records) :
         /\ parent[r] \in Open => r \in Range(todo) \/ records[r] \in asked
         /\ r \in Range(todo) => records[r] \notin asked /\ parent[r] \in Open
         /\ records[r] \in asked => parent[r] \in Open

LocalInv ==
  /\ local \in Locals
  /\ PathsTell => ListedRight /\ TreeRight /\ SubtreesRight /\ AskRight

-----------------------------------------------------------------------------
(* What was typed and what is there do not change, nor do relative paths.  *)
LEMMA PathsKept ==
  ASSUME root' = root, local' = local
  PROVE  /\ \A e : Path(e)' = Path(e)
         /\ PathsTell' <=> PathsTell
<1>1. \A e : AbsPath(e)' = AbsPath(e)
  BY DEF AbsPath
<1>2. \A e : Path(e)' = Path(e)
  BY <1>1 DEF Path
<1>3. PathsTell' <=> PathsTell
  BY <1>2 DEF PathsTell
<1> QED BY <1>2, <1>3

(* What the names of two records tell of how they lie to one another.      *)
LEMMA RecordsTell ==
  ASSUME PathsTell, ListedRight, pc # "list", local \in Locals,
         NEW i \in 1 .. Len(records), NEW j \in 1 .. Len(records)
  PROVE  /\ records[i] \in local
         /\ records[i].path \in Seq(Seq(Nat)) /\ records[i].dir \in BOOLEAN
         /\ records[i] = records[j] => i = j
         /\ i < j /\ IsAncestor(Name(i), Name(j)) => Down(records[i], records[j])
         /\ Down(records[i], records[j]) => i < j /\ IsAncestor(Name(i), Name(j))
         /\ i # j /\ AreSiblings(Name(i), Name(j)) => Beside(records[i], records[j])
<1> DEFINE d == records[i]
           e == records[j]
<1>1. d \in local /\ e \in local /\ i \in Int /\ j \in Int
  BY DEF ListedRight
<1>2. ASSUME NEW c \in local
      PROVE  c.path \in Seq(Seq(Nat)) /\ c.dir \in BOOLEAN
  <2>1. c \in Items \cup {RootDir}
    BY LocalAssumption
  <2>2. RootDir.path \in Seq(Seq(Nat)) /\ RootDir.dir \in BOOLEAN
    BY DEF RootDir
  <2> QED BY <2>1, <2>2, LocalAssumption
<1>3. /\ i < j <=> Before(Path(d), Path(e))
      /\ j < i <=> Before(Path(e), Path(d))
  BY DEF ListedRight
<1>4. /\ Path(d) \in Seq(Nat) /\ Path(e) \in Seq(Nat)
      /\ IsAncestor(Name(i), Name(j)) <=> IsPrefix(d.path, e.path) \/ IsPrefix(e.path, d.path)
      /\ AreSiblings(Name(i), Name(j)) => \/ d = e
                                          \/ /\ d.path # <<>> /\ e.path # <<>>
                                             /\ Front(d.path) = Front(e.path)
      /\ IsStrictPrefix(d.path, e.path) => Before(Path(d), Path(e))
      /\ IsStrictPrefix(e.path, d.path) => Before(Path(e), Path(d))
  BY <1>1 DEF PathsTell, Name
<1>5. d.path = e.path => d = e
  BY <1>1, LocalAssumption
<1>6. d = e => i = j
  <2>1. d = e => ~ (i < j) /\ ~ (j < i)
    BY <1>3, <1>4, BeforeIsOrder
  <2> QED BY <1>1, <2>1
<1>7. i < j /\ IsAncestor(Name(i), Name(j)) => Down(records[i], records[j])
  <2> SUFFICES ASSUME i < j, IsAncestor(Name(i), Name(j)) PROVE Down(records[i], records[j])
    OBVIOUS
  <2>1. d.path # e.path
    BY <1>1, <1>3, <1>4, <1>5, BeforeIsOrder
  <2>2. ~ IsStrictPrefix(e.path, d.path)
    BY <1>1, <1>3, <1>4
  <2> QED BY <1>4, <2>1, <2>2 DEF Down, IsStrictPrefix
<1>8. Down(records[i], records[j]) => i < j /\ IsAncestor(Name(i), Name(j))
  BY <1>3, <1>4 DEF Down, IsStrictPrefix
<1>9. i # j /\ AreSiblings(Name(i), Name(j)) => Beside(records[i], records[j])
  BY <1>4, <1>6 DEF Beside
<1> QED BY <1>1, <1>2, <1>6, <1>7, <1>8, <1>9

(* Listing gives every item its place.                                     *)
LEMMA ListStep ==
  ASSUME PathsTell, local \in Locals, ListItems
  PROVE  ListedRight'
<1> DEFINE path == [e \in local |-> Path(e)]
           less == {p \in local \X local : Before(path[p[1]], path[p[2]])}
<1>1. root' = root /\ local' = local /\ records' = Ordered(local, less)
  BY DEF ListItems
<1>2. \A d, e \in local : <<d, e>> \in less <=> Before(Path(d), Path(e))
  OBVIOUS
<1>3. \A d, e \in local : Path(d) \in Seq(Nat) /\ (Path(d) = Path(e) => d = e)
  BY DEF PathsTell
<1> HIDE DEF less
<1>4. IsOrder(local, less)
  <2>1. \A d \in local : <<d, d>> \notin less
    BY <1>2, <1>3, BeforeIsOrder
  <2>2. \A c, d, e \in local : <<c, d>> \in less /\ <<d, e>> \in less => <<c, e>> \in less
    BY <1>2, <1>3, BeforeIsOrder
  <2>3. \A d, e \in local : d # e => <<d, e>> \in less \/ <<e, d>> \in less
    BY <1>2, <1>3, BeforeIsOrder
  <2> QED BY <2>1, <2>2, <2>3 DEF IsOrder
<1>5. IsFiniteSet(local)
  BY LocalAssumption
<1>6. /\ records' \in Seq(local)
      /\ \A e \in local : \E i \in 1 .. Len(records') : records'[i] = e
      /\ \A i, j \in 1 .. Len(records') : i < j <=> <<records'[i], records'[j]>> \in less
  BY <1>1, <1>4, <1>5, OrderedFacts
<1>7. \A i, j \in 1 .. Len(records') :
        i < j <=> Before(Path(records'[i]), Path(records'[j]))
  <2>1. \A i \in 1 .. Len(records') : records'[i] \in local
    BY <1>6
  <2> QED BY <1>2, <1>6, <2>1
<1>8. \A i : Path(records[i])' = Path(records'[i])
  BY <1>1 DEF Path, AbsPath
<1> QED BY <1>1, <1>6, <1>7, <1>8 DEF ListedRight

LEMMA ListedKept ==
  ASSUME ListedRight, pc # "list", root' = root, local' = local, records' = records
  PROVE  ListedRight'
<1>1. \A i : Path(records[i])' = Path(records[i])
  BY DEF Path, AbsPath
<1> QED BY <1>1 DEF ListedRight

-----------------------------------------------------------------------------
(* Nodes that are put in the tree.                                         *)
LEMMA AboveKept ==
  ASSUME NEW par \in Seq(Nat), NEW n \in Nat, NEW p \in Nat
  PROVE  LET new == Append(par, n) IN
           /\ \A i \in DOMAIN par : Above(par, p, i) => Above(new, p, i)
           /\ n \in DOMAIN par /\ Above(par, p, n) => Above(new, p, Len(par) + 1)
           /\ n = p => Above(new, p, Len(par) + 1)
<1> DEFINE new == Append(par, n)
<1>1. /\ Len(par) \in Nat /\ DOMAIN par = 1 .. Len(par)
      /\ DOMAIN new = 1 .. Len(par) + 1
      /\ \A i \in DOMAIN par : new[i] = par[i]
      /\ new[Len(par) + 1] = n
  OBVIOUS
<1>2. DOMAIN par \subseteq DOMAIN new
  BY <1>1
<1> HIDE DEF new
<1>3. ASSUME NEW i \in DOMAIN par, Above(par, p, i) PROVE Above(new, p, i)
  BY <1>1, <1>2, <1>3 DEF Above
<1>4. ASSUME n \in DOMAIN par, Above(par, p, n) PROVE Above(new, p, Len(par) + 1)
  <2> SUFFICES ASSUME NEW S \in SUBSET Nat, new[Len(par) + 1] \in S,
                      \A x \in S \cap DOMAIN new : new[x] \in S
               PROVE  p \in S
    BY DEF Above
  <2>1. n \in S /\ new[n] \in S
    BY <1>1, <1>2, <1>4
  <2>2. par[n] \in S /\ \A x \in S \cap DOMAIN par : par[x] \in S
    BY <1>1, <1>2, <1>4, <2>1
  <2> QED BY <1>4, <2>2 DEF Above
<1>5. ASSUME n = p PROVE Above(new, p, Len(par) + 1)
  BY <1>1, <1>5 DEF Above
<1> QED BY <1>3, <1>4, <1>5 DEF new

LEMMA PutKeepsTree ==
  ASSUME PathsTell, ListedRight, TreeRight, local \in Locals, Placing,
         NEW n \in Nodes, NEW stack \in Seq(Nodes), NEW dir,
         n # Retval => dir = Name(n) /\ MayTake(parent, records, n, This),
         \A k \in DOMAIN stack :
           stack[k] # Retval => records[stack[k]].dir /\ Nested(parent, records, stack[k]),
         PutUnder(n, stack, dir)
  PROVE  TreeRight'
<1> DEFINE t == Len(parent) + 1
<1>1. /\ pc = "tree" /\ t \in 1 .. Len(records) /\ Len(parent) \in Nat /\ Len(records) \in Nat
      /\ DOMAIN parent = 1 .. Len(parent) /\ This = t
  BY DEF Placing, This, TreeRight, ListedRight
<1>2. /\ parent' = Append(parent, n) /\ records' = records /\ pc' = pc
      /\ root' = root /\ local' = local
  BY DEF PutUnder
<1>3. n \in Nat /\ n < t
  BY <1>1 DEF Nodes, Retval
<1>4. /\ parent' \in Seq(Nat) /\ Len(parent') = t /\ DOMAIN parent' = 1 .. t
      /\ \A r \in DOMAIN parent : parent'[r] = parent[r]
      /\ parent'[t] = n
  BY <1>1, <1>2, <1>3 DEF TreeRight
<1>5. /\ DOMAIN parent \subseteq DOMAIN parent' /\ Nodes \subseteq Nodes' /\ t \in Nodes'
      /\ DOMAIN parent' = DOMAIN parent \cup {t}
  BY <1>1, <1>4 DEF Nodes
<1> HIDE DEF t
<1>6. \A p : Nested(parent, records, p) => Nested(parent', records, p)
  BY <1>5 DEF Nested
<1>7. \A p, r : MayTake(parent, records, p, r) => MayTake(parent', records, p, r)
  BY <1>6 DEF MayTake
<1>8. \A i : Name(i)' = Name(i)
  BY <1>2 DEF Name, Path, AbsPath
<1>9. n # Retval /\ records[t].dir => records[n].dir /\ Nested(parent', records, n)
  BY <1>1, <1>5, <1>6 DEF Nested, MayTake
<1>10. \A r \in DOMAIN parent' :
         /\ parent'[r] \in 0 .. r - 1
         /\ parent'[r] # Retval => MayTake(parent', records, parent'[r], r)
  <2> TAKE r \in DOMAIN parent'
  <2>1. CASE r \in DOMAIN parent
    BY <1>4, <1>7, <2>1 DEF TreeRight
  <2>2. CASE r = t
    <3>1. n \in 0 .. t - 1
      BY <1>1, <1>3
    <3> QED BY <1>1, <1>4, <1>7, <2>2, <3>1
  <2> QED BY <1>5, <2>1, <2>2
<1>11. CASE records[t].dir
  <2>1. nodeStack' = Append(stack, n) /\ currNode' = t /\ prevDir' = Name(t)
    BY <1>1, <1>11 DEF PutUnder, CurrPath, Name
  <2>2. stack \in Seq(Nodes') /\ n \in Nodes'
    BY <1>5
  <2>3. /\ nodeStack' \in Seq(Nodes') /\ DOMAIN nodeStack' = 1 .. Len(stack) + 1
        /\ \A k \in 1 .. Len(stack) : nodeStack'[k] = stack[k]
        /\ nodeStack'[Len(stack) + 1] = n
    BY <2>1, <2>2
  <2>4. ASSUME NEW k \in DOMAIN nodeStack', nodeStack'[k] # Retval
        PROVE  records[nodeStack'[k]].dir /\ Nested(parent', records, nodeStack'[k])
    <3>1. CASE k \in 1 .. Len(stack)
      BY <1>6, <2>3, <2>4, <3>1
    <3>2. CASE k = Len(stack) + 1
      BY <1>9, <1>11, <2>3, <2>4, <3>2
    <3>3. Len(stack) \in Nat
      OBVIOUS
    <3> QED BY <2>3, <3>1, <3>2, <3>3
  <2>5. \A q \in DOMAIN parent' : q = currNode' => records[q].dir /\ prevDir' = Name(q)'
    BY <1>8, <1>11, <2>1
  <2>6. currNode' \in Nodes' /\ pc' = "tree" /\ Len(parent') <= Len(records')
    BY <1>1, <1>2, <1>4, <1>5, <2>1
  <2>7. \A k \in DOMAIN nodeStack' : nodeStack'[k] # Retval =>
          records'[nodeStack'[k]].dir /\ Nested(parent', records', nodeStack'[k])
    BY <1>2, <2>4
  <2>8. \A q \in DOMAIN parent' : q = currNode' => records'[q].dir /\ prevDir' = Name(q)'
    BY <1>2, <2>5
  <2>9. nodeStack' \in Seq(Nodes')
    BY <2>3
  <2> QED BY <1>2, <1>4, <1>10, <2>6, <2>7, <2>8, <2>9 DEF TreeRight
<1>12. CASE ~ records[t].dir
  <2>1. nodeStack' = stack /\ currNode' = n /\ prevDir' = dir
    BY <1>1, <1>12 DEF PutUnder
  <2>2. stack \in Seq(Nodes') /\ n \in Nodes'
    BY <1>5
  <2>3. \A k \in DOMAIN stack :
          stack[k] # Retval => records[stack[k]].dir /\ Nested(parent', records, stack[k])
    BY <1>6
  <2>4. \A q \in DOMAIN parent' : q = currNode' => records[q].dir /\ prevDir' = Name(q)'
    <3>1. \A q \in DOMAIN parent' : q # Retval
      BY <1>4 DEF Retval
    <3> QED BY <1>8, <2>1, <3>1 DEF MayTake
  <2> QED BY <1>1, <1>2, <1>4, <1>5, <1>10, <2>1, <2>2, <2>3, <2>4 DEF TreeRight
<1> QED BY <1>11, <1>12

(* A node that is put under p, or under what is under p, keeps the way.    *)
LEMMA PutKeepsSubtrees ==
  ASSUME ListedRight, TreeRight, SubtreesRight, Placing,
         NEW n \in Nodes, NEW stack \in Seq(Nodes), NEW dir,
         \A p \in DOMAIN parent :
           records[p].dir /\ (\A j \in p + 1 .. This : Down(records[p], records[j])) =>
             OnWay(parent, p, n, stack),
         PutUnder(n, stack, dir)
  PROVE  SubtreesRight'
<1> DEFINE t == Len(parent) + 1
<1>1. /\ Len(parent) \in Nat /\ DOMAIN parent = 1 .. Len(parent) /\ This = t /\ t \in Nat
      /\ parent \in Seq(Nat)
  BY DEF This, TreeRight
<1>2. parent' = Append(parent, n) /\ records' = records
  BY DEF PutUnder
<1>3. n \in Nat /\ (n # Retval => n \in DOMAIN parent)
  BY <1>1 DEF Nodes, Retval
<1>4. Len(parent') = t /\ DOMAIN parent' = 1 .. t /\ DOMAIN parent' = DOMAIN parent \cup {t}
  BY <1>1, <1>2, <1>3
<1>5. \A p \in Nat :
        /\ \A i \in DOMAIN parent : Above(parent, p, i) => Above(parent', p, i)
        /\ n \in DOMAIN parent /\ Above(parent, p, n) => Above(parent', p, t)
        /\ n = p => Above(parent', p, t)
  BY <1>1, <1>2, <1>3, AboveKept
<1>6. \A k \in DOMAIN stack : stack[k] # Retval => stack[k] \in DOMAIN parent
  BY DEF Nodes
<1>7. DOMAIN stack = 1 .. Len(stack) /\ Len(stack) \in Nat
  OBVIOUS
<1>8. IF records[t].dir THEN nodeStack' = Append(stack, n) /\ currNode' = t
                        ELSE nodeStack' = stack /\ currNode' = n
  BY <1>1 DEF PutUnder
<1>9. t # Retval /\ Retval \notin DOMAIN parent
  BY <1>1 DEF Retval
<1> HIDE DEF t
<1> SUFFICES ASSUME NEW p \in DOMAIN parent', records[p].dir
             PROVE  /\ \A i \in DOMAIN parent' :
                         p < i /\ (\A j \in p + 1 .. i : Down(records[p], records[j])) =>
                           Above(parent', p, i)
                    /\ (\A j \in p + 1 .. t : Down(records[p], records[j])) =>
                         OnWay(parent', p, currNode', nodeStack')
  BY <1>2, <1>4 DEF SubtreesRight
<1>10. CASE p = t
  <2>1. currNode' = p
    BY <1>8, <1>10
  <2>2. \A i \in DOMAIN parent' : ~ (p < i)
    BY <1>1, <1>4, <1>10
  <2> QED BY <2>1, <2>2 DEF OnWay
<1>11. CASE p \in DOMAIN parent
  <2>1. p \in Nat /\ p < t /\ p # Retval
    BY <1>1, <1>9, <1>11 DEF t
  <2>2. ASSUME \A j \in p + 1 .. t : Down(records[p], records[j])
        PROVE  Above(parent', p, t) /\ OnWay(parent', p, n, stack)
               /\ OnWay(parent', p, currNode', nodeStack')
    <3>1. OnWay(parent, p, n, stack)
      BY <1>1, <1>11, <2>2
    <3>2. Above(parent', p, t)
      BY <1>3, <1>5, <2>1, <3>1 DEF OnWay
    <3>3. ASSUME n # p
          PROVE  /\ n # Retval /\ Above(parent', p, n)
                 /\ \E k \in DOMAIN stack :
                      /\ stack[k] = p
                      /\ \A m \in k + 1 .. Len(stack) : stack[m] # Retval /\ Above(parent', p, stack[m])
      <4>1. n # Retval /\ Above(parent, p, n)
        BY <3>1, <3>3 DEF OnWay
      <4>2. PICK k \in DOMAIN stack :
              /\ stack[k] = p
              /\ \A m \in k + 1 .. Len(stack) : stack[m] # Retval /\ Above(parent, p, stack[m])
        BY <3>1, <3>3 DEF OnWay
      <4>3. \A m \in k + 1 .. Len(stack) : m \in DOMAIN stack
        BY <1>7, <4>2
      <4>4. \A m \in k + 1 .. Len(stack) : stack[m] # Retval /\ Above(parent', p, stack[m])
        BY <1>5, <1>6, <2>1, <4>2, <4>3
      <4> QED BY <1>3, <1>5, <2>1, <4>1, <4>2, <4>4
    <3>4. OnWay(parent', p, n, stack)
      BY <3>3 DEF OnWay
    <3>5. CASE records[t].dir
      <4>1. nodeStack' = Append(stack, n) /\ currNode' = t
        BY <1>8, <3>5
      <4>2. /\ DOMAIN nodeStack' = 1 .. Len(stack) + 1 /\ Len(nodeStack') = Len(stack) + 1
            /\ \A k \in 1 .. Len(stack) : nodeStack'[k] = stack[k]
            /\ nodeStack'[Len(stack) + 1] = n
        BY <1>7, <4>1
      <4>3. \E k \in DOMAIN nodeStack' :
              /\ nodeStack'[k] = p
              /\ \A m \in k + 1 .. Len(nodeStack') :
                   nodeStack'[m] # Retval /\ Above(parent', p, nodeStack'[m])
        <5>1. CASE n = p
          <6>1. Len(stack) + 1 \in DOMAIN nodeStack'
            BY <1>7, <4>2
          <6>2. \A m \in (Len(stack) + 1) + 1 .. Len(nodeStack') : FALSE
            BY <1>7, <4>2
          <6> QED BY <4>2, <5>1, <6>1, <6>2
        <5>2. CASE n # p
          <6>1. PICK k \in DOMAIN stack :
                  /\ stack[k] = p
                  /\ \A m \in k + 1 .. Len(stack) : stack[m] # Retval /\ Above(parent', p, stack[m])
            BY <3>3, <5>2
          <6>2. k \in DOMAIN nodeStack' /\ nodeStack'[k] = p
            BY <1>7, <4>2, <6>1
          <6>3. ASSUME NEW m \in k + 1 .. Len(nodeStack')
                PROVE  nodeStack'[m] # Retval /\ Above(parent', p, nodeStack'[m])
            <7>1. m \in k + 1 .. Len(stack) \/ m = Len(stack) + 1
              BY <1>7, <4>2, <6>1
            <7>2. ASSUME m \in k + 1 .. Len(stack)
                  PROVE  nodeStack'[m] = stack[m]
              BY <1>7, <4>2, <6>1, <7>2
            <7> QED BY <3>3, <4>2, <5>2, <6>1, <7>1, <7>2
          <6> QED BY <6>2, <6>3
        <5> QED BY <5>1, <5>2
      <4> QED BY <1>9, <3>2, <4>1, <4>3 DEF OnWay
    <3>6. CASE ~ records[t].dir
      BY <1>8, <3>2, <3>4, <3>6
    <3> QED BY <3>2, <3>4, <3>5, <3>6
  <2>3. ASSUME NEW i \in DOMAIN parent', p < i, \A j \in p + 1 .. i : Down(records[p], records[j])
        PROVE  Above(parent', p, i)
    <3>1. CASE i = t
      BY <2>2, <2>3, <3>1
    <3>2. CASE i \in DOMAIN parent
      <4>1. Above(parent, p, i)
        BY <1>11, <2>3, <3>2 DEF SubtreesRight
      <4> QED BY <1>5, <2>1, <3>2, <4>1
    <3> QED BY <1>4, <3>1, <3>2
  <2> QED BY <2>2, <2>3
<1> QED BY <1>4, <1>10, <1>11

(* What is in the directory at hand goes under it.                         *)
LEMMA SubPathStep ==
  ASSUME PathsTell, ListedRight, TreeRight, SubtreesRight, local \in Locals, SubPath
  PROVE  TreeRight' /\ SubtreesRight'
<1>1. /\ Placing /\ IsAncestor(prevDir, CurrPath)
      /\ PutUnder(currNode, nodeStack, prevDir)
  BY DEF SubPath
<1>2. /\ currNode \in Nodes /\ nodeStack \in Seq(Nodes)
      /\ This \in 1 .. Len(records) /\ DOMAIN parent = 1 .. This - 1 /\ This \in Nat
      /\ pc # "list"
  BY <1>1 DEF TreeRight, Placing, This, ListedRight
<1>3. currNode # Retval => prevDir = Name(currNode) /\ MayTake(parent, records, currNode, This)
  <2> SUFFICES ASSUME currNode # Retval
               PROVE  prevDir = Name(currNode) /\ MayTake(parent, records, currNode, This)
    OBVIOUS
  <2>1. currNode \in DOMAIN parent /\ records[currNode].dir /\ prevDir = Name(currNode)
    BY DEF TreeRight, Nodes
  <2>2. currNode \in 1 .. Len(records) /\ currNode < This
    BY <1>2, <2>1
  <2>3. IsAncestor(Name(currNode), Name(This))
    BY <1>1, <2>1 DEF CurrPath, Name
  <2> QED BY <1>2, <2>1, <2>2, <2>3, RecordsTell DEF MayTake
<1>4. \A k \in DOMAIN nodeStack :
        nodeStack[k] # Retval =>
          records[nodeStack[k]].dir /\ Nested(parent, records, nodeStack[k])
  BY DEF TreeRight
<1>5. TreeRight'
  BY <1>1, <1>2, <1>3, <1>4, PutKeepsTree
<1>6. ASSUME NEW p \in DOMAIN parent, records[p].dir,
             \A j \in p + 1 .. This : Down(records[p], records[j])
      PROVE  OnWay(parent, p, currNode, nodeStack)
  <2>1. \A j \in p + 1 .. Len(parent) : j \in p + 1 .. This
    BY <1>2 DEF This
  <2> QED BY <1>6, <2>1 DEF SubtreesRight
<1>7. SubtreesRight'
  BY <1>1, <1>2, <1>6, PutKeepsSubtrees
<1> QED BY <1>5, <1>7

(* Else it goes under the last directory on the stack that it is in or     *)
(* beside; none that it is in is popped before.                            *)
LEMMA OtherPathStep ==
  ASSUME PathsTell, ListedRight, TreeRight, SubtreesRight, local \in Locals, OtherPath
  PROVE  TreeRight' /\ SubtreesRight'
<1> DEFINE k == Max(Candidates)
           n == nodeStack[k]
           stack == SubSeq(nodeStack, 1, k - 1)
<1>1. /\ Placing /\ ~ IsAncestor(prevDir, CurrPath)
      /\ PutUnder(n, stack, Name(n))
  BY DEF OtherPath, Name
<1>2. /\ currNode \in Nodes /\ nodeStack \in Seq(Nodes)
      /\ This \in 1 .. Len(records) /\ DOMAIN parent = 1 .. This - 1 /\ This \in Nat
      /\ pc # "list" /\ Len(nodeStack) \in Nat
  BY <1>1 DEF TreeRight, Placing, This, ListedRight
<1>3. k \in Candidates /\ \A m \in Candidates : k >= m
  <2>1. Candidates \subseteq 1 .. Len(nodeStack) /\ Candidates # {}
    BY <1>2 DEF Candidates, OtherPath
  <2> QED BY <1>2, <2>1, MaxIsGreatest
<1>4. k \in 1 .. Len(nodeStack) /\ n # Retval /\ Fits(k)
  BY <1>2, <1>3 DEF Candidates
<1> HIDE DEF k
<1>5. /\ n \in Nodes /\ stack \in Seq(Nodes) /\ Len(stack) = k - 1
      /\ \A m \in 1 .. k - 1 : stack[m] = nodeStack[m]
  BY <1>2, <1>4
<1> HIDE DEF n, stack
<1>6. n \in DOMAIN parent /\ n \in 1 .. Len(records) /\ n < This
  BY <1>2, <1>4, <1>5 DEF Nodes
<1>7. MayTake(parent, records, n, This)
  <2>1. records[n].dir /\ Nested(parent, records, n)
    BY <1>2, <1>4 DEF TreeRight, n
  <2>2. AreSiblings(Name(n), Name(This)) \/ IsAncestor(Name(n), Name(This))
    BY <1>4 DEF Fits, Name, CurrPath, n
  <2>3. Beside(records[n], records[This]) \/ Down(records[n], records[This])
    BY <1>2, <1>6, <2>2, RecordsTell
  <2> QED BY <2>1, <2>3 DEF MayTake
<1>8. \A m \in DOMAIN stack :
        stack[m] # Retval => records[stack[m]].dir /\ Nested(parent, records, stack[m])
  <2>1. \A m \in DOMAIN stack : m \in DOMAIN nodeStack /\ stack[m] = nodeStack[m]
    BY <1>2, <1>4, <1>5
  <2> QED BY <2>1 DEF TreeRight
<1>9. TreeRight'
  BY <1>1, <1>5, <1>7, <1>8, PutKeepsTree
<1>10. ASSUME NEW p \in DOMAIN parent, records[p].dir,
              \A j \in p + 1 .. This : Down(records[p], records[j])
       PROVE  OnWay(parent, p, n, stack)
  <2>1. p \in 1 .. Len(records) /\ p < This /\ p # Retval
    BY <1>2 DEF Retval
  <2>2. IsAncestor(Name(p), Name(This))
    <3>1. This \in p + 1 .. This
      BY <1>2, <2>1
    <3> QED BY <1>2, <1>10, <2>1, <3>1, RecordsTell
  <2>3. currNode # p
    BY <1>1, <2>2 DEF TreeRight, CurrPath, Name
  <2>4. OnWay(parent, p, currNode, nodeStack)
    <3>1. \A j \in p + 1 .. Len(parent) : j \in p + 1 .. This
      BY <1>2 DEF This
    <3> QED BY <1>10, <3>1 DEF SubtreesRight
  <2>5. PICK m \in DOMAIN nodeStack :
          /\ nodeStack[m] = p
          /\ \A i \in m + 1 .. Len(nodeStack) : nodeStack[i] # Retval /\ Above(parent, p, nodeStack[i])
    BY <2>3, <2>4 DEF OnWay
  <2>6. m \in Candidates
    BY <2>1, <2>2, <2>5 DEF Candidates, Fits, CurrPath, Name
  <2>7. m <= k /\ m \in 1 .. Len(nodeStack)
    BY <1>2, <1>3, <1>4, <2>5, <2>6
  <2>8. CASE m = k
    BY <2>5, <2>8 DEF OnWay, n
  <2>9. CASE m < k
    <3>1. k \in m + 1 .. Len(nodeStack) /\ m \in 1 .. k - 1
      BY <1>4, <2>7, <2>9
    <3>2. n # Retval /\ Above(parent, p, n)
      BY <2>5, <3>1 DEF n
    <3>3. m \in DOMAIN stack /\ stack[m] = p
      BY <1>4, <1>5, <2>5, <3>1
    <3>4. \A i \in m + 1 .. Len(stack) : i \in m + 1 .. Len(nodeStack) /\ stack[i] = nodeStack[i]
      BY <1>2, <1>4, <1>5, <2>7, <2>9
    <3> QED BY <2>5, <3>2, <3>3, <3>4 DEF OnWay
  <2> QED BY <1>4, <2>7, <2>8, <2>9
<1>11. SubtreesRight'
  BY <1>1, <1>5, <1>10, PutKeepsSubtrees
<1> QED BY <1>9, <1>11

-----------------------------------------------------------------------------
(* Asking.                                                                 *)
LEMMA ChildrenFacts ==
  ASSUME parent \in Seq(Nat), NEW n
  PROVE  LET c == Children(n) IN
           /\ c \in Seq(DOMAIN parent)
           /\ \A r \in DOMAIN parent : r \in Range(c) <=> parent[r] = n
           /\ \A i, j \in DOMAIN c : c[i] = c[j] => i = j
<1> DEFINE mine == {r \in DOMAIN parent : parent[r] = n}
           less == {p \in mine \X mine : p[1] < p[2]}
           c == Ordered(mine, less)
<1>1. Children(n) = c
  BY DEF Children
<1>2. Len(parent) \in Nat /\ DOMAIN parent = 1 .. Len(parent)
  OBVIOUS
<1>3. mine \in SUBSET (1 .. Len(parent)) /\ mine \subseteq Int
  BY <1>2
<1>4. IsFiniteSet(mine)
  <2>1. 1 \in Int /\ Len(parent) \in Int
    BY <1>2
  <2>2. IsFiniteSet(1 .. Len(parent))
    BY <2>1, FS_Interval
  <2> QED BY <1>3, <2>2, FS_Subset
<1>5. \A q, r \in mine : <<q, r>> \in less <=> q < r
  OBVIOUS
<1>6. \A r \in DOMAIN parent : r \in mine <=> parent[r] = n
  OBVIOUS
<1> HIDE DEF mine, less
<1>7. IsOrder(mine, less)
  BY <1>3, <1>5 DEF IsOrder
<1>8. /\ c \in Seq(mine) /\ \A e \in mine : \E i \in 1 .. Len(c) : c[i] = e
      /\ \A i, j \in 1 .. Len(c) : i < j <=> <<c[i], c[j]>> \in less
  BY <1>4, <1>7, OrderedFacts
<1> HIDE DEF c
<1>9. c \in Seq(DOMAIN parent) /\ DOMAIN c = 1 .. Len(c) /\ \A i \in 1 .. Len(c) : c[i] \in mine
  <2>1. mine \subseteq DOMAIN parent
    BY <1>2, <1>3
  <2> QED BY <1>8, <2>1
<1>10. \A r \in DOMAIN parent : r \in Range(c) <=> parent[r] = n
  BY <1>6, <1>8, <1>9 DEF Range
<1>11. \A i, j \in DOMAIN c : c[i] = c[j] => i = j
  <2> SUFFICES ASSUME NEW i \in 1 .. Len(c), NEW j \in 1 .. Len(c), c[i] = c[j] PROVE i = j
    BY <1>9
  <2>1. <<c[i], c[j]>> \notin less /\ <<c[j], c[i]>> \notin less
    BY <1>7, <1>9 DEF IsOrder
  <2>2. ~ (i < j) /\ ~ (j < i)
    BY <1>8, <2>1
  <2> QED BY <2>2
<1> QED BY <1>1, <1>9, <1>10, <1>11

(* When the tree is made, what is under no directory is asked for first.   *)
LEMMA EndTreeStep ==
  ASSUME ListedRight, TreeRight, AskRight, EndTree
  PROVE  AskRight' /\ TreeRight'
<1>1. /\ pc = "tree" /\ Len(parent) \in Nat /\ Len(records) \in Nat
      /\ Len(parent) = Len(records) /\ DOMAIN parent = 1 .. Len(records)
      /\ parent \in Seq(Nat)
  BY DEF EndTree, This, TreeRight, ListedRight
<1>2. todo = <<>> /\ asked = {} /\ found = {}
  BY <1>1 DEF AskRight
<1>3. /\ pc' = "ask" /\ todo' = Children(Retval) /\ UNCHANGED <<asked, found, records, parent, local>>
      /\ UNCHANGED <<root, nodeStack, currNode, prevDir>>
  BY DEF EndTree
<1>4. /\ todo' \in Seq(1 .. Len(records))
      /\ \A r \in 1 .. Len(records) : r \in Range(todo') <=> parent[r] = Retval
      /\ \A i, j \in DOMAIN todo' : todo'[i] = todo'[j] => i = j
  BY <1>1, <1>3, ChildrenFacts
<1>5. Open' = {Retval}
  BY <1>1, <1>2, <1>3 DEF Open, Retval
<1>6. AskRight'
  BY <1>2, <1>3, <1>4, <1>5 DEF AskRight
<1>7. \A q : Name(q)' = Name(q)
  BY <1>3 DEF Name, Path, AbsPath
<1>8. TreeRight'
  BY <1>1, <1>3, <1>7 DEF TreeRight, Nodes
<1> QED BY <1>6, <1>8

(* One item is asked for: what is under it comes up, or it is found.       *)
LEMMA AskStep ==
  ASSUME PathsTell, local \in Locals, ListedRight, TreeRight, AskRight,
         NEW known \in BOOLEAN, Ask(known)
  PROVE  AskRight'
<1> DEFINE N == Len(records)
           h == Head(todo)
           e == records[h]
<1>1. /\ pc = "ask" /\ todo # <<>> /\ asked' = asked \cup {e}
      /\ UNCHANGED <<root, local, pc, records, parent>>
      /\ IF known THEN found' = found \cup {e} /\ todo' = Tail(todo)
                  ELSE found' = found /\ todo' = Children(h) \o Tail(todo)
  BY DEF Ask
<1>2. /\ N \in Nat /\ Len(parent) = N /\ DOMAIN parent = 1 .. N /\ parent \in Seq(Nat)
      /\ \A r \in 1 .. N : parent[r] \in 0 .. r - 1 /\ parent[r] \in 0 .. N
      /\ \A i \in 1 .. N : records[i] \in local
  <2>1. /\ N \in Nat /\ Len(parent) = N /\ DOMAIN parent = 1 .. N /\ parent \in Seq(Nat)
        /\ \A i \in 1 .. N : records[i] \in local
    BY <1>1 DEF TreeRight, ListedRight
  <2>2. \A r \in 1 .. N : parent[r] \in 0 .. r - 1
    BY <2>1 DEF TreeRight
  <2> HIDE DEF N
  <2>3. \A r \in 1 .. N : parent[r] \in 0 .. N
    BY <2>1, <2>2
  <2> QED BY <2>1, <2>2, <2>3
<1>3. \A i, j \in 1 .. N : records[i] = records[j] => i = j
  BY <1>1, RecordsTell
<1>4. /\ todo \in Seq(1 .. N) /\ DOMAIN todo = 1 .. Len(todo) /\ Len(todo) \in Nat /\ Len(todo) > 0
      /\ h = todo[1] /\ h \in 1 .. N
      /\ Tail(todo) \in Seq(1 .. N) /\ Len(Tail(todo)) = Len(todo) - 1
      /\ \A i \in 1 .. Len(todo) - 1 : Tail(todo)[i] = todo[i + 1]
  <2>1. todo \in Seq(1 .. N) /\ todo # <<>>
    BY <1>1 DEF AskRight
  <2> HIDE DEF N
  <2>2. Len(todo) \in Nat /\ Len(todo) > 0 /\ DOMAIN todo = 1 .. Len(todo)
    BY <2>1
  <2>3. h = todo[1] /\ h \in 1 .. N
    <3>1. 1 \in 1 .. Len(todo)
      BY <2>2
    <3>2. todo[1] \in 1 .. N
      BY <2>1, <3>1, ElementOfSeq
    <3> QED BY <2>1, <3>2
  <2>4. /\ Tail(todo) \in Seq(1 .. N) /\ Len(Tail(todo)) = Len(todo) - 1
        /\ \A i \in 1 .. Len(todo) - 1 : Tail(todo)[i] = todo[i + 1]
    BY <2>1, <2>2
  <2> QED BY <2>1, <2>2, <2>3, <2>4
<1>5. /\ \A i, j \in DOMAIN Tail(todo) : Tail(todo)[i] = Tail(todo)[j] => i = j
      /\ Range(todo) = Range(Tail(todo)) \cup {h}
      /\ h \notin Range(Tail(todo))
  <2>1. \A i, j \in 1 .. Len(todo) : todo[i] = todo[j] => i = j
    BY <1>4 DEF AskRight
  <2>2. DOMAIN Tail(todo) = 1 .. Len(todo) - 1
    BY <1>4
  <2>3. \A i \in 1 .. Len(todo) - 1 : i + 1 \in 1 .. Len(todo) /\ i + 1 # 1
    BY <1>4
  <2>4. \A i, j \in DOMAIN Tail(todo) : Tail(todo)[i] = Tail(todo)[j] => i = j
    <3> SUFFICES ASSUME NEW i \in 1 .. Len(todo) - 1, NEW j \in 1 .. Len(todo) - 1,
                        Tail(todo)[i] = Tail(todo)[j]
                 PROVE  i = j
      BY <2>2
    <3>1. todo[i + 1] = todo[j + 1]
      BY <1>4
    <3>2. i + 1 = j + 1
      BY <2>1, <2>3, <3>1
    <3> QED BY <3>2
  <2>5. h \notin Range(Tail(todo))
    <3> SUFFICES ASSUME NEW i \in 1 .. Len(todo) - 1, Tail(todo)[i] = h PROVE FALSE
      BY <2>2 DEF Range
    <3>1. todo[i + 1] = todo[1] /\ 1 \in 1 .. Len(todo)
      BY <1>4
    <3> QED BY <2>1, <2>3, <3>1
  <2>6. ASSUME NEW i \in 1 .. Len(todo) PROVE todo[i] \in Range(Tail(todo)) \cup {h}
    <3>1. CASE i = 1
      BY <1>4, <3>1
    <3>2. CASE i # 1
      <4>1. i - 1 \in 1 .. Len(todo) - 1 /\ (i - 1) + 1 = i
        BY <3>2
      <4>2. Tail(todo)[i - 1] = todo[i]
        BY <1>4, <4>1
      <4> QED BY <2>2, <4>1, <4>2 DEF Range
    <3> QED BY <3>1, <3>2
  <2>7. \A i \in 1 .. Len(todo) - 1 : Tail(todo)[i] \in Range(todo)
    BY <1>4, <2>3 DEF Range
  <2>8. h \in Range(todo)
    BY <1>4 DEF Range
  <2> QED BY <1>4, <2>2, <2>4, <2>5, <2>6, <2>7, <2>8 DEF Range
<1>6. /\ e \notin asked /\ parent[h] \in Open /\ e \in local
  BY <1>1, <1>2, <1>4, <1>5 DEF AskRight
<1>7. h \notin Open /\ h # Retval
  BY <1>4, <1>6 DEF Open, Retval
<1>8. \A q \in 0 .. N : q # h =>
        /\ q \in Open' <=> q \in Open
        /\ q # Retval => (records[q] \in asked' <=> records[q] \in asked)
  <2> SUFFICES ASSUME NEW q \in 0 .. N, q # h
               PROVE  /\ q \in Open' <=> q \in Open
                      /\ q # Retval => (records[q] \in asked' <=> records[q] \in asked)
    OBVIOUS
  <2>1. q # Retval => records[q] # e
    <3>1. q # Retval => q \in 1 .. N
      BY <1>2 DEF Retval
    <3> QED BY <1>3, <1>4, <3>1
  <2> QED BY <1>1, <2>1 DEF Open
<1>9. h \in Open' <=> ~ known
  BY <1>1, <1>4, <1>6, <1>7 DEF Open, AskRight
<1>10. /\ \A r \in 1 .. N : r # h => (records[r] \in asked' <=> records[r] \in asked)
       /\ records[h] \in asked'
  BY <1>1, <1>8, <1>2 DEF Retval
<1>11. \A r \in 1 .. N :
         /\ parent[r] \in Open => r \in Range(todo) \/ records[r] \in asked
         /\ r \in Range(todo) => records[r] \notin asked /\ parent[r] \in Open
         /\ records[r] \in asked => parent[r] \in Open
  BY <1>1 DEF AskRight
<1>12. parent[h] # h
  BY <1>2, <1>4
<1>13. \A r \in 1 .. N : parent[r] = h =>
         r # h /\ r \notin Range(todo) /\ records[r] \notin asked
  BY <1>7, <1>11, <1>12
<1>14. found' \subseteq asked' /\ asked' \subseteq local'
  BY <1>1, <1>6 DEF AskRight
<1> HIDE DEF N, h, e
<1>15. CASE known
  <2>1. todo' = Tail(todo) /\ Range(todo') = Range(todo) \ {h}
    BY <1>1, <1>5, <1>15
  <2>2. ASSUME NEW r \in 1 .. N
        PROVE  /\ parent[r] \in Open' => r \in Range(todo') \/ records[r] \in asked'
               /\ r \in Range(todo') => records[r] \notin asked' /\ parent[r] \in Open'
               /\ records[r] \in asked' => parent[r] \in Open'
    <3>1. parent[r] \in Open' <=> parent[r] \in Open
      BY <1>2, <1>7, <1>8, <1>9, <1>15
    <3>2. CASE r = h
      BY <1>6, <1>10, <2>1, <3>1, <3>2
    <3>3. CASE r # h
      BY <1>10, <1>11, <2>1, <3>1, <3>3
    <3> QED BY <3>2, <3>3
  <2> QED BY <1>1, <1>4, <1>5, <1>14, <2>1, <2>2 DEF AskRight, N
<1>16. CASE ~ known
  <2> DEFINE c == Children(h)
             s == Tail(todo)
  <2>1. /\ c \in Seq(1 .. N)
        /\ \A r \in 1 .. N : r \in Range(c) <=> parent[r] = h
        /\ \A i, j \in DOMAIN c : c[i] = c[j] => i = j
    BY <1>2, ChildrenFacts
  <2> HIDE DEF c, s
  <2>2. todo' = c \o s /\ s \in Seq(1 .. N) /\ \A i, j \in DOMAIN s : s[i] = s[j] => i = j
    BY <1>1, <1>4, <1>5, <1>16 DEF c, s
  <2>3. Range(s) = Range(todo) \ {h}
    BY <1>5 DEF s
  <2>4. /\ Len(c) \in Nat /\ Len(s) \in Nat /\ DOMAIN c = 1 .. Len(c) /\ DOMAIN s = 1 .. Len(s)
        /\ todo' \in Seq(1 .. N) /\ DOMAIN todo' = 1 .. Len(c) + Len(s)
        /\ \A i \in 1 .. Len(c) : todo'[i] = c[i]
        /\ \A i \in 1 .. Len(s) : todo'[Len(c) + i] = s[i]
    BY <2>1, <2>2
  <2>5. \A i \in 1 .. Len(c) + Len(s) :
          i \in 1 .. Len(c) \/ (i - Len(c) \in 1 .. Len(s) /\ i = Len(c) + (i - Len(c)))
    BY <2>4
  <2>6. Range(todo') = Range(c) \cup Range(s)
    <3>1. \A i \in 1 .. Len(c) : i \in 1 .. Len(c) + Len(s)
      BY <2>4
    <3>2. \A i \in 1 .. Len(s) : Len(c) + i \in 1 .. Len(c) + Len(s)
      BY <2>4
    <3>3. \A x \in Range(c) \cup Range(s) : x \in Range(todo')
      BY <2>4, <3>1, <3>2 DEF Range
    <3>4. ASSUME NEW i \in 1 .. Len(c) + Len(s) PROVE todo'[i] \in Range(c) \cup Range(s)
      <4>1. CASE i \in 1 .. Len(c)
        BY <2>4, <4>1 DEF Range
      <4>2. CASE i - Len(c) \in 1 .. Len(s)
        <5>1. todo'[i] = s[i - Len(c)]
          BY <2>4, <2>5, <4>2
        <5> QED BY <2>4, <4>2, <5>1 DEF Range
      <4> QED BY <2>5, <4>1, <4>2
    <3> QED BY <2>4, <3>3, <3>4 DEF Range
  <2>7. \A i \in DOMAIN c, j \in DOMAIN s : c[i] # s[j]
    <3> SUFFICES ASSUME NEW i \in DOMAIN c, NEW j \in DOMAIN s, c[i] = s[j] PROVE FALSE
      OBVIOUS
    <3>0. c[i] \in 1 .. N
      BY <2>1, <2>4, ElementOfSeq
    <3>1. c[i] \in Range(c) /\ c[i] \in Range(s) /\ c[i] \in 1 .. N
      BY <3>0 DEF Range
    <3> QED BY <1>13, <2>1, <2>3, <3>1
  <2>8. ASSUME NEW i \in DOMAIN todo', NEW j \in DOMAIN todo', todo'[i] = todo'[j]
        PROVE  i = j
    <3>1. CASE i \in 1 .. Len(c) /\ j \in 1 .. Len(c)
      BY <2>1, <2>4, <2>8, <3>1
    <3>2. CASE i \in 1 .. Len(c) /\ j - Len(c) \in 1 .. Len(s)
      BY <2>4, <2>5, <2>7, <2>8, <3>2
    <3>3. CASE i - Len(c) \in 1 .. Len(s) /\ j \in 1 .. Len(c)
      BY <2>4, <2>5, <2>7, <2>8, <3>3
    <3>4. CASE i - Len(c) \in 1 .. Len(s) /\ j - Len(c) \in 1 .. Len(s)
      <4>1. s[i - Len(c)] = s[j - Len(c)]
        BY <2>4, <2>5, <2>8, <3>4
      <4>2. i - Len(c) = j - Len(c)
        BY <2>2, <2>4, <3>4, <4>1
      <4> QED BY <2>4, <4>2
    <3> QED BY <2>4, <2>5, <3>1, <3>2, <3>3, <3>4
  <2>9. ASSUME NEW r \in 1 .. N
        PROVE  /\ parent[r] \in Open' => r \in Range(todo') \/ records[r] \in asked'
               /\ r \in Range(todo') => records[r] \notin asked' /\ parent[r] \in Open'
               /\ records[r] \in asked' => parent[r] \in Open'
    <3>1. CASE parent[r] = h
      BY <1>9, <1>10, <1>13, <1>16, <2>1, <2>6, <3>1
    <3>2. CASE parent[r] # h
      <4>1. parent[r] \in Open' <=> parent[r] \in Open
        BY <1>2, <1>8, <3>2
      <4>2. r \in Range(todo') <=> r \in Range(todo) \ {h}
        BY <2>1, <2>3, <2>6, <3>2
      <4>3. CASE r = h
        BY <1>6, <1>10, <4>1, <4>2, <4>3
      <4>4. CASE r # h
        BY <1>10, <1>11, <4>1, <4>2, <4>4
      <4> QED BY <4>3, <4>4
    <3> QED BY <3>1, <3>2
  <2> QED BY <1>1, <1>14, <2>4, <2>8, <2>9 DEF AskRight, N
<1> QED BY <1>15, <1>16

-----------------------------------------------------------------------------
(* Nothing else changes what the invariant speaks of.                      *)
LEMMA SubtreesKept ==
  ASSUME SubtreesRight, UNCHANGED <<records, parent, currNode, nodeStack>>
  PROVE  SubtreesRight'
BY DEF SubtreesRight

LEMMA TreeKept ==
  ASSUME TreeRight, UNCHANGED <<root, local, records, parent, currNode, prevDir, nodeStack>>,
         pc # "list" => pc' # "list",
         pc' \in {"ask", "done"} => pc \in {"ask", "done"}
  PROVE  TreeRight'
<1>1. \A q : Name(q)' = Name(q)
  BY DEF Name, Path, AbsPath
<1>2. pc' = "list" => parent = <<>>
  BY DEF TreeRight
<1> QED BY <1>1, <1>2 DEF TreeRight, Nodes

LEMMA LocalStep ==
  ASSUME LocalInv, [Next]_vars
  PROVE  LocalInv'
<1>1. root' = root /\ local' = local
  BY DEF Next, vars, ListItems, SubPath, OtherPath, PutUnder, ReadUnsetIndex, EndTree, Ask, EndAsking
<1>2. local' \in Locals /\ (PathsTell' <=> PathsTell)
  BY <1>1, PathsKept DEF LocalInv
<1> SUFFICES ASSUME PathsTell
             PROVE  ListedRight' /\ TreeRight' /\ SubtreesRight' /\ AskRight'
  BY <1>2 DEF LocalInv
<1>3. local \in Locals /\ ListedRight /\ TreeRight /\ SubtreesRight /\ AskRight
  BY DEF LocalInv
<1>4. CASE ListItems
  <2>1. ListedRight'
    BY <1>3, <1>4, ListStep
  <2>2. /\ pc = "list" /\ pc' = "tree" /\ parent = <<>> /\ todo = <<>> /\ asked = {} /\ found = {}
        /\ UNCHANGED <<root, local, parent, nodeStack, currNode, prevDir, todo, asked, found>>
    BY <1>3, <1>4 DEF ListItems, TreeRight, AskRight
  <2>3. DOMAIN parent = {} /\ Nodes = {Retval} /\ DOMAIN parent' = {} /\ Nodes' = {Retval}
    BY <2>2 DEF Nodes
  <2>4. Len(records') \in Nat
    BY <2>1, <2>2 DEF ListedRight
  <2>5. \A k \in DOMAIN nodeStack : nodeStack[k] = Retval
    BY <1>3, <2>3 DEF TreeRight
  <2>6. TreeRight'
    BY <1>3, <2>2, <2>3, <2>4, <2>5 DEF TreeRight
  <2>7. SubtreesRight'
    BY <2>3 DEF SubtreesRight
  <2>8. AskRight'
    BY <2>2, <2>4 DEF AskRight
  <2> QED BY <2>1, <2>6, <2>7, <2>8
<1>5. CASE SubPath \/ OtherPath
  <2>1. TreeRight' /\ SubtreesRight'
    BY <1>3, <1>5, SubPathStep, OtherPathStep
  <2>2. pc = "tree" /\ UNCHANGED <<root, local, pc, records, todo, asked, found>>
    BY <1>5 DEF SubPath, OtherPath, PutUnder, Placing
  <2>3. ListedRight'
    BY <1>3, <2>2, ListedKept
  <2>4. AskRight'
    BY <1>3, <2>2 DEF AskRight
  <2> QED BY <2>1, <2>3, <2>4
<1>6. CASE ReadUnsetIndex
  <2>1. /\ pc = "tree" /\ pc' = "undefined"
        /\ UNCHANGED <<root, local, records, parent, nodeStack, currNode, prevDir, todo, asked, found>>
    BY <1>6 DEF ReadUnsetIndex, Placing
  <2>2. ListedRight' /\ TreeRight' /\ SubtreesRight'
    BY <1>3, <2>1, ListedKept, TreeKept, SubtreesKept
  <2>3. AskRight'
    BY <1>3, <2>1 DEF AskRight
  <2> QED BY <2>2, <2>3
<1>7. CASE EndTree
  <2>1. AskRight' /\ TreeRight'
    BY <1>3, <1>7, EndTreeStep
  <2>2. /\ pc = "tree" /\ UNCHANGED <<root, local, records, parent, nodeStack, currNode>>
    BY <1>7 DEF EndTree
  <2>3. ListedRight' /\ SubtreesRight'
    BY <1>3, <2>2, ListedKept, SubtreesKept
  <2> QED BY <2>1, <2>3
<1>8. CASE \E known \in BOOLEAN : Ask(known)
  <2>1. AskRight'
    BY <1>3, <1>8, AskStep
  <2>2. pc = "ask" /\ UNCHANGED <<root, local, pc, records, parent, nodeStack, currNode, prevDir>>
    BY <1>8 DEF Ask
  <2>3. ListedRight' /\ TreeRight' /\ SubtreesRight'
    BY <1>3, <2>2, ListedKept, TreeKept, SubtreesKept
  <2> QED BY <2>1, <2>3
<1>9. CASE EndAsking
  <2>1. /\ pc = "ask" /\ pc' = "done" /\ todo = <<>>
        /\ UNCHANGED <<root, local, records, parent, nodeStack, currNode, prevDir, todo, asked, found>>
    BY <1>9 DEF EndAsking
  <2>2. ListedRight' /\ TreeRight' /\ SubtreesRight'
    BY <1>3, <2>1, ListedKept, TreeKept, SubtreesKept
  <2>3. AskRight'
    BY <1>3, <2>1 DEF AskRight, Open
  <2> QED BY <2>2, <2>3
<1>10. CASE UNCHANGED vars
  <2>1. UNCHANGED <<root, local, pc, records, parent, nodeStack, currNode, prevDir, todo, asked, found>>
    BY <1>10 DEF vars
  <2>2. TreeRight' /\ SubtreesRight'
    BY <1>3, <2>1, TreeKept, SubtreesKept
  <2>3. AskRight'
    BY <1>3, <2>1 DEF AskRight, Open
  <2>4. ListedRight'
    BY <1>3, <2>1, ListedKept DEF ListedRight
  <2> QED BY <2>2, <2>3, <2>4
<1> QED BY <1>4, <1>5, <1>6, <1>7, <1>8, <1>9, <1>10 DEF Next

THEOREM LocalInvariant == Spec => []LocalInv
<1>1. Init => LocalInv
  <2> SUFFICES ASSUME Init PROVE LocalInv
    OBVIOUS
  <2>1. /\ local \in Locals /\ pc = "list" /\ records = <<>> /\ parent = <<>> /\ nodeStack = <<>>
        /\ currNode = Retval /\ todo = <<>> /\ asked = {} /\ found = {}
    BY DEF Init
  <2>2. ListedRight
    BY <2>1 DEF ListedRight
  <2>3. TreeRight
    BY <2>1 DEF TreeRight, Nodes
  <2>4. SubtreesRight
    BY <2>1 DEF SubtreesRight
  <2>5. AskRight
    BY <2>1 DEF AskRight
  <2> QED BY <2>1, <2>2, <2>3, <2>4, <2>5 DEF LocalInv
<1>2. LocalInv /\ [Next]_vars => LocalInv'
  BY LocalStep
<1> QED BY <1>1, <1>2, PTL DEF Spec

-----------------------------------------------------------------------------
(* What is not asked for is in what was found, or beside it.               *)
LEMMA LeftOutIsBeside ==
  ASSUME LocalInv, PathsTell, pc = "done"
  PROVE  LeftOutBesideNested
<1> DEFINE N == Len(records)
           Beneath(r, f) ==
             IsIn(records[r], f) \/ /\ f.path # <<>>
                                    /\ IsStrictPrefix(Front(f.path), records[r].path)
                                    /\ \E c \in local : c.dir /\ IsIn(c, f)
           S == {r \in 1 .. N : records[r] \notin asked => \E f \in found : Beneath(r, f)}
<1>1. /\ local \in Locals /\ ListedRight /\ TreeRight /\ AskRight
      /\ N \in Nat /\ Len(parent) = N /\ DOMAIN parent = 1 .. N /\ todo = <<>>
  <2>1. local \in Locals /\ ListedRight /\ TreeRight /\ AskRight
    BY DEF LocalInv
  <2> QED BY <2>1 DEF ListedRight, TreeRight, AskRight
<1>2. \A i \in 1 .. N : records[i] \in local /\ records[i].path \in Seq(Seq(Nat))
  BY <1>1, RecordsTell
<1>3. ASSUME NEW f \in found PROVE f \in local /\ f.path \in Seq(Seq(Nat))
  <2>1. f \in local
    BY <1>1 DEF AskRight
  <2>2. PICK i \in 1 .. N : records[i] = f
    BY <1>1, <2>1 DEF ListedRight
  <2> QED BY <1>2, <2>1, <2>2
<1>4. ASSUME NEW r \in 1 .. N, \A j \in 1 .. N : j < r => j \in S
      PROVE  r \in S
  <2> SUFFICES ASSUME records[r] \notin asked PROVE \E f \in found : Beneath(r, f)
    OBVIOUS
  <2> DEFINE p == parent[r]
  <2>1. p \in 0 .. r - 1 /\ (p # Retval => MayTake(parent, records, p, r))
    BY <1>1 DEF TreeRight
  <2>2. p \notin Open
    <3>1. r \notin Range(todo)
      BY <1>1 DEF Range
    <3> QED BY <1>1, <3>1 DEF AskRight
  <2>3. p # Retval /\ p \in 1 .. N /\ p < r /\ MayTake(parent, records, p, r)
    BY <1>1, <2>1, <2>2 DEF Open, Retval
  <2> HIDE DEF p
  <2>4. records[p].dir /\ records[p].path \in Seq(Seq(Nat)) /\ records[r].path \in Seq(Seq(Nat))
    BY <1>2, <2>3 DEF MayTake
  <2>5. CASE records[p] \in asked
    <3>1. records[p] \in found
      BY <1>1, <2>2, <2>3, <2>5 DEF Open
    <3>2. CASE Down(records[p], records[r])
      BY <2>4, <3>1, <3>2 DEF Down, IsIn
    <3>3. CASE Beside(records[p], records[r]) /\ Nested(parent, records, p)
      <4>1. /\ records[p].path # <<>> /\ records[r].path # <<>>
            /\ Front(records[p].path) = Front(records[r].path)
        BY <3>3 DEF Beside
      <4>2. IsStrictPrefix(Front(records[p].path), records[r].path)
        BY <2>4, <4>1, FrontFacts
      <4>3. \E c \in local : c.dir /\ IsIn(c, records[p])
        BY <1>1, <1>2, <2>4, <3>3 DEF Nested, Down, IsIn
      <4> QED BY <3>1, <4>1, <4>2, <4>3
    <3> QED BY <2>3, <3>2, <3>3 DEF MayTake
  <2>6. CASE records[p] \notin asked
    <3>1. PICK f \in found : Beneath(p, f)
      BY <1>4, <2>3, <2>6
    <3>2. f.path \in Seq(Seq(Nat))
      BY <1>3
    <3>3. CASE Down(records[p], records[r])
      <4>1. \A a \in Seq(Seq(Nat)) :
              IsStrictPrefix(a, records[p].path) => IsStrictPrefix(a, records[r].path)
        BY <2>4, <3>3, PrefixOrder DEF Down, IsStrictPrefix
      <4>2. f.path # <<>> => Front(f.path) \in Seq(Seq(Nat))
        BY <3>2, FrontFacts
      <4> QED BY <3>1, <3>2, <4>1, <4>2 DEF IsIn
    <3>4. CASE Beside(records[p], records[r])
      <4>1. \A a \in Seq(Seq(Nat)) :
              IsStrictPrefix(a, records[p].path) => IsStrictPrefix(a, records[r].path)
        <5> SUFFICES ASSUME NEW a \in Seq(Seq(Nat)), IsStrictPrefix(a, records[p].path)
                     PROVE  IsStrictPrefix(a, records[r].path)
          OBVIOUS
        <5>1. /\ records[p].path # <<>> /\ records[r].path # <<>>
              /\ Front(records[p].path) = Front(records[r].path)
          BY <3>4 DEF Beside
        <5>2. IsPrefix(a, Front(records[r].path))
          BY <2>4, <5>1, FrontFacts
        <5>3. /\ Front(records[r].path) \in Seq(Seq(Nat))
              /\ IsStrictPrefix(Front(records[r].path), records[r].path)
          BY <2>4, <5>1, FrontFacts
        <5> QED BY <2>4, <5>2, <5>3, PrefixOrder
      <4>2. f.path # <<>> => Front(f.path) \in Seq(Seq(Nat))
        BY <3>2, FrontFacts
      <4> QED BY <3>1, <3>2, <4>1, <4>2 DEF IsIn
    <3> QED BY <2>3, <3>3, <3>4 DEF MayTake
  <2> QED BY <2>5, <2>6
<1>5. \A r \in 1 .. N : r \in S
  <2> HIDE DEF S
  <2> QED BY <1>1, <1>4, FromTheFront
<1>6. ASSUME NEW e \in local, LeftOut(e)
      PROVE  \E d \in found :
               /\ d.path # <<>> /\ ~ IsIn(e, d)
               /\ IsPrefix(Front(d.path), e.path)
               /\ \E c \in local : c.dir /\ IsIn(c, d)
  <2>1. PICK r \in 1 .. N : records[r] = e
    BY <1>1 DEF ListedRight
  <2>2. PICK f \in found : Beneath(r, f)
    BY <1>5, <1>6, <2>1 DEF LeftOut
  <2>3. ~ IsIn(e, f)
    BY <1>6 DEF LeftOut
  <2> QED BY <2>1, <2>2, <2>3 DEF IsStrictPrefix
<1> QED BY <1>6 DEF LeftOutBesideNested

(* What was asked for is under nothing that was found; with nothing between *)
(* a directory and an item in it, the item is under the directory.         *)
LEMMA AskedInVainIsSplit ==
  ASSUME LocalInv, PathsTell
  PROVE  AskedInVainOnlyIfSplit
<1> SUFFICES ASSUME NEW e \in asked, NEW d \in found, IsIn(e, d),
                    \A b \in local : ~ IsIn(b, d) /\ b # d =>
                      ~ (Before(Path(d), Path(b)) /\ Before(Path(b), Path(e)))
             PROVE  FALSE
  BY DEF AskedInVainOnlyIfSplit
<1> DEFINE N == Len(records)
<1>1. /\ local \in Locals /\ ListedRight /\ TreeRight /\ SubtreesRight /\ AskRight
      /\ pc \in {"ask", "done"}
      /\ N \in Nat /\ Len(parent) = N /\ DOMAIN parent = 1 .. N
  <2>1. local \in Locals /\ ListedRight /\ TreeRight /\ SubtreesRight /\ AskRight
    BY DEF LocalInv
  <2>2. pc \in {"ask", "done"}
    BY <2>1 DEF AskRight
  <2> QED BY <2>1, <2>2 DEF ListedRight, TreeRight
<1>2. d \in local /\ e \in local /\ d \in asked
  BY <1>1 DEF AskRight
<1>3. PICK p \in 1 .. N : records[p] = d
  BY <1>1, <1>2 DEF ListedRight
<1>4. PICK r \in 1 .. N : records[r] = e
  BY <1>1, <1>2 DEF ListedRight
<1>5. records[p].dir /\ Down(records[p], records[r])
  BY <1>3, <1>4 DEF IsIn, Down
<1>6. p < r
  BY <1>1, <1>5, RecordsTell
<1>7. ASSUME NEW j \in p + 1 .. r PROVE Down(records[p], records[j])
  <2>1. CASE j = r
    BY <1>5, <2>1
  <2>2. CASE j # r
    <3>1. j \in 1 .. N /\ p < j /\ j < r
      BY <1>1, <1>6, <2>2
    <3>2. records[j] \in local /\ records[j] # d
      <4>1. records[j] = records[p] => j = p
        BY <1>1, <3>1, RecordsTell
      <4> QED BY <1>1, <1>3, <3>1, <4>1, RecordsTell
    <3>3. Before(Path(d), Path(records[j])) /\ Before(Path(records[j]), Path(e))
      BY <1>1, <1>3, <1>4, <3>1 DEF ListedRight
    <3>4. IsIn(records[j], d)
      BY <3>2, <3>3
    <3> QED BY <1>3, <3>4 DEF IsIn, Down
  <2> QED BY <2>1, <2>2
<1>8. Above(parent, p, r)
  BY <1>1, <1>5, <1>6, <1>7 DEF SubtreesRight
<1>9. parent[r] \in Open
  BY <1>1, <1>4 DEF AskRight
<1>10. ASSUME NEW x \in Open \cap DOMAIN parent PROVE parent[x] \in Open
  <2>1. records[x] \in asked
    BY <1>1 DEF Open, Retval
  <2> QED BY <1>1, <2>1 DEF AskRight
<1>11. Open \in SUBSET Nat
  BY <1>1 DEF Open
<1>12. p \in Open
  BY <1>8, <1>9, <1>10, <1>11 DEF Above
<1> QED BY <1>3, <1>12 DEF Open, Retval

(* An item is left out only if the database knows a directory beside it,   *)
(* or beside one it is in, with another directory inside: for every local  *)
(* directory, as far as relative paths tell how items lie to one another.  *)
THEOREM LeftOutTheorem == Spec => [](PathsTell => LeftOutBesideNested)
<1>1. LocalInv => (PathsTell => LeftOutBesideNested)
  BY LeftOutIsBeside DEF LeftOutBesideNested
<1> QED BY <1>1, LocalInvariant, PTL

(* An item whose directory was found is asked for in vain only if another  *)
(* name comes between the two in the order of strings.                     *)
THEOREM AskedInVainTheorem == Spec => [](PathsTell => AskedInVainOnlyIfSplit)
<1>1. LocalInv => (PathsTell => AskedInVainOnlyIfSplit)
  BY AskedInVainIsSplit
<1> QED BY <1>1, LocalInvariant, PTL
=============================================================================
