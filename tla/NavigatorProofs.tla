--------------------------- MODULE NavigatorProofs ---------------------------
(***************************************************************************)
(* The navigator's cache holds every key once and within its bounds, its   *)
(* rows come from the set they are shown for, and remembered completions   *)
(* are those of the current directory: for every catalogue, every path a   *)
(* user may type, every size of the cache.  A listing of a set that is     *)
(* still recorded misses none of it, and the cache is one that gives up    *)
(* what was used least recently.                                           *)
(***************************************************************************)
EXTENDS NavigatorProperties, FiniteSetTheorems, TLAPS

(* A piece leads from a path to a path (push_piece).                       *)
LEMMA PushPieceType ==
  ASSUME NEW s \in Seq(Names), NEW p \in Pieces \cup Words \cup {NoPiece}
  PROVE  PushPiece(s, p) \in Seq(Names)
<1>1. p.up \in Nat /\ p.names \in Seq(Names)
  <2>1. CASE p \in Pieces \cup Words
    BY <2>1, NavigatorAssumption
  <2>2. CASE p = NoPiece
    BY <2>2 DEF NoPiece
  <2> QED BY <2>1, <2>2
<1> DEFINE base == IF p.abs THEN <<>> ELSE s
           kept == IF p.up < Len(base) THEN SubSeq(base, 1, Len(base) - p.up) ELSE <<>>
<1>2. base \in Seq(Names)
  OBVIOUS
<1>3. kept \in Seq(Names)
  <2>1. CASE p.up < Len(base)
    BY <1>1, <1>2, <2>1
  <2>2. CASE ~(p.up < Len(base))
    BY <2>2
  <2> QED BY <2>1, <2>2
<1>4. kept \o p.names \in Seq(Names)
  BY <1>1, <1>3
<1> QED BY <1>4 DEF PushPiece

(* The newest entry is the last one, and full buffers lose one entry.      *)
LEMMA PushBackFacts ==
  ASSUME NEW S, NEW c \in Seq(S), NEW e \in S,
         Len(c) <= CacheSize,
         \A i, j \in 1..Len(c) : c[i].key = c[j].key => i = j,
         \A i \in 1..Len(c) : c[i].key # e.key
  PROVE  LET d == PushBack(c, e) IN
         /\ d \in Seq(S)
         /\ Len(d) \in 1..CacheSize
         /\ d[Len(d)] = e
         /\ \A j \in 1..Len(d) : d[j] = e \/ \E k \in 1..Len(c) : d[j] = c[k]
         /\ \A i, j \in 1..Len(d) : d[i].key = d[j].key => i = j
<1> DEFINE d == PushBack(c, e)
<1>0. CacheSize \in Nat \ {0} /\ Len(c) \in Nat
  BY NavigatorAssumption
<1>1. CASE Len(c) < CacheSize
  <2>1. d = Append(c, e)
    BY <1>1 DEF PushBack
  <2>2. d \in Seq(S) /\ Len(d) = Len(c) + 1 /\ d[Len(d)] = e
    BY <2>1
  <2>3. \A j \in 1..Len(c) : d[j] = c[j]
    BY <2>1
  <2>4. \A j \in 1..Len(d) : j = Len(d) \/ j \in 1..Len(c)
    BY <2>2, <1>0
  <2>5. \A i, j \in 1..Len(d) : d[i].key = d[j].key => i = j
    BY <2>2, <2>3, <2>4
  <2> HIDE DEF d
  <2>6. Len(d) \in 1..CacheSize
    BY <1>0, <1>1, <2>2
  <2>7. \A j \in 1..Len(d) : d[j] = e \/ \E k \in 1..Len(c) : d[j] = c[k]
    BY <2>2, <2>3, <2>4
  <2> QED BY <2>2, <2>5, <2>6, <2>7 DEF d
<1>2. CASE ~(Len(c) < CacheSize)
  <2>1. Len(c) = CacheSize
    BY <1>0, <1>2
  <2>2. d = [j \in 1..Len(c) |-> IF j < Len(c) THEN c[j + 1] ELSE e]
    BY <1>2 DEF PushBack
  <2>3. \A j \in 1..Len(c) : (IF j < Len(c) THEN c[j + 1] ELSE e) \in S
    BY <1>0
  <2>4. d \in Seq(S) /\ Len(d) = Len(c)
    BY <2>2, <2>3, <1>0
  <2>5. d[Len(d)] = e
    BY <2>2, <2>4, <2>1, <1>0
  <2>6. \A j \in 1..Len(c) : j # Len(c) => d[j] = c[j + 1] /\ j + 1 \in 1..Len(c)
    BY <2>2, <1>0
  <2>7. \A i, j \in 1..Len(c) : d[i].key = d[j].key => i = j
    <3> SUFFICES ASSUME NEW i \in 1..Len(c), NEW j \in 1..Len(c), d[i].key = d[j].key
                 PROVE  i = j
      OBVIOUS
    <3> HIDE DEF d
    <3>1. CASE i # Len(c) /\ j # Len(c)
      BY <3>1, <2>6, <1>0
    <3>2. CASE i = Len(c) /\ j # Len(c)
      BY <3>2, <2>6, <2>5, <2>4
    <3>3. CASE i # Len(c) /\ j = Len(c)
      BY <3>3, <2>6, <2>5, <2>4
    <3> QED BY <3>1, <3>2, <3>3
  <2> HIDE DEF d
  <2>8. Len(d) \in 1..CacheSize
    BY <1>0, <2>1, <2>4
  <2>9. \A j \in 1..Len(d) : d[j] = e \/ \E k \in 1..Len(c) : d[j] = c[k]
    BY <2>4, <2>5, <2>6
  <2> QED BY <2>4, <2>5, <2>7, <2>8, <2>9 DEF d
<1> QED BY <1>1, <1>2

(* Refreshing an entry moves it to the end and loses nothing.              *)
LEMMA RefreshFacts ==
  ASSUME NEW S, NEW c \in Seq(S), NEW i \in 1..Len(c),
         Len(c) <= CacheSize,
         \A k, j \in 1..Len(c) : c[k].key = c[j].key => k = j
  PROVE  LET d == PushBack(Without(c, i), c[i]) IN
         /\ d \in Seq(S)
         /\ Len(d) \in 1..CacheSize
         /\ d[Len(d)] = c[i]
         /\ \A j \in 1..Len(d) : \E k \in 1..Len(c) : d[j] = c[k]
         /\ \A k, j \in 1..Len(d) : d[k].key = d[j].key => k = j
<1> DEFINE w == Without(c, i)
<1>0. CacheSize \in Nat \ {0} /\ Len(c) \in Nat
  BY NavigatorAssumption
<1>1. \A j \in 1..Len(c) - 1 : (IF j < i THEN c[j] ELSE c[j + 1]) \in S
  BY <1>0
<1>2. w \in Seq(S) /\ Len(w) = Len(c) - 1
  BY <1>0, <1>1 DEF Without
<1>3. \A j \in 1..Len(w) :
        \E k \in 1..Len(c) : w[j] = c[k] /\ k # i /\ k = IF j < i THEN j ELSE j + 1
  <2> SUFFICES ASSUME NEW j \in 1..Len(w)
               PROVE  LET k == IF j < i THEN j ELSE j + 1
                      IN  k \in 1..Len(c) /\ w[j] = c[k] /\ k # i
    OBVIOUS
  <2>1. w[j] = IF j < i THEN c[j] ELSE c[j + 1]
    BY <1>0, <1>2 DEF Without
  <2> HIDE DEF w
  <2> QED BY <1>0, <1>2, <2>1
<1> HIDE DEF w
<1>4. \A k, j \in 1..Len(w) : w[k].key = w[j].key => k = j
  <2> SUFFICES ASSUME NEW k \in 1..Len(w), NEW j \in 1..Len(w), w[k].key = w[j].key
               PROVE  k = j
    OBVIOUS
  <2>1. PICK kk \in 1..Len(c) : w[k] = c[kk] /\ kk = IF k < i THEN k ELSE k + 1
    BY <1>3
  <2>2. PICK jj \in 1..Len(c) : w[j] = c[jj] /\ jj = IF j < i THEN j ELSE j + 1
    BY <1>3
  <2>3. kk = jj
    BY <2>1, <2>2
  <2> QED BY <1>0, <1>2, <2>1, <2>2, <2>3
<1>5. \A j \in 1..Len(w) : w[j].key # c[i].key
  BY <1>3
<1>6. Len(w) <= CacheSize /\ c[i] \in S
  BY <1>0, <1>2
<1> DEFINE d == PushBack(w, c[i])
<1>7. /\ d \in Seq(S)
      /\ Len(d) \in 1..CacheSize
      /\ d[Len(d)] = c[i]
      /\ \A j \in 1..Len(d) : d[j] = c[i] \/ \E k \in 1..Len(w) : d[j] = w[k]
      /\ \A k, j \in 1..Len(d) : d[k].key = d[j].key => k = j
  BY <1>2, <1>4, <1>5, <1>6, PushBackFacts
<1> HIDE DEF d
<1>8. \A j \in 1..Len(d) : \E k \in 1..Len(c) : d[j] = c[k]
  <2> SUFFICES ASSUME NEW j \in 1..Len(d)
               PROVE  \E k \in 1..Len(c) : d[j] = c[k]
    OBVIOUS
  <2>1. CASE d[j] = c[i]
    BY <2>1
  <2>2. CASE \E k \in 1..Len(w) : d[j] = w[k]
    BY <2>2, <1>3
  <2> QED BY <1>7, <2>1, <2>2
<1>9. d = PushBack(Without(c, i), c[i])
  BY DEF d, w
<1> QED BY <1>7, <1>8, <1>9

-----------------------------------------------------------------------------
(* The parts of the invariant about the cache, of any cache.               *)

Entry == [key : Seq(Names), rows : SUBSET RowSet]

CacheInv(c) ==
  /\ c \in Seq(Entry)
  /\ Len(c) <= CacheSize
  /\ \A i, j \in 1..Len(c) : c[i].key = c[j].key => i = j
  /\ \A i \in 1..Len(c) : RowsFit(c[i])

LEMMA CacheInvIs ==
  ASSUME TypeOK
  PROVE  CacheInv(cache) <=> KeysOnce /\ RowsOfTheirSet
<1>1. cache \in Seq(Entry) /\ DOMAIN cache = 1..Len(cache)
  BY DEF TypeOK, Entry
<1> QED BY <1>1 DEF CacheInv, KeysOnce, RowsOfTheirSet

LEMMA CacheInvIsPrimed ==
  ASSUME TypeOK', CacheInv(cache')
  PROVE  (KeysOnce /\ RowsOfTheirSet)'
<1>1. cache' \in Seq(Entry) /\ DOMAIN cache' = 1..Len(cache')
  BY DEF TypeOK, Entry
<1> QED BY <1>1 DEF CacheInv, KeysOnce, RowsOfTheirSet

(* An answer that is not cached yet may be added.                          *)
LEMMA PushBackInv ==
  ASSUME NEW c, CacheInv(c), NEW e \in Entry, RowsFit(e),
         \A i \in 1..Len(c) : c[i].key # e.key
  PROVE  LET d == PushBack(c, e) IN CacheInv(d) /\ Len(d) # 0 /\ d[Len(d)] = e
<1> DEFINE d == PushBack(c, e)
<1>1. /\ d \in Seq(Entry)
      /\ Len(d) \in 1..CacheSize
      /\ d[Len(d)] = e
      /\ \A j \in 1..Len(d) : d[j] = e \/ \E k \in 1..Len(c) : d[j] = c[k]
      /\ \A i, j \in 1..Len(d) : d[i].key = d[j].key => i = j
  BY PushBackFacts DEF CacheInv
<1> HIDE DEF d
<1>2. \A j \in 1..Len(d) : RowsFit(d[j])
  BY <1>1 DEF CacheInv
<1>3. CacheInv(d) /\ Len(d) # 0
  BY <1>1, <1>2, NavigatorAssumption DEF CacheInv
<1> QED BY <1>1, <1>3 DEF d

(* A cached answer may be refreshed.                                       *)
LEMMA RefreshInv ==
  ASSUME NEW c, CacheInv(c), NEW i \in 1..Len(c)
  PROVE  LET d == PushBack(Without(c, i), c[i]) IN
         CacheInv(d) /\ Len(d) # 0 /\ d[Len(d)] = c[i]
<1> DEFINE d == PushBack(Without(c, i), c[i])
<1>1. /\ d \in Seq(Entry)
      /\ Len(d) \in 1..CacheSize
      /\ d[Len(d)] = c[i]
      /\ \A j \in 1..Len(d) : \E k \in 1..Len(c) : d[j] = c[k]
      /\ \A k, j \in 1..Len(d) : d[k].key = d[j].key => k = j
  BY RefreshFacts DEF CacheInv
<1> HIDE DEF d
<1>2. \A j \in 1..Len(d) : RowsFit(d[j])
  BY <1>1 DEF CacheInv
<1>3. CacheInv(d) /\ Len(d) # 0
  BY <1>1, <1>2, NavigatorAssumption DEF CacheInv
<1> QED BY <1>1, <1>3 DEF d

-----------------------------------------------------------------------------
(* Asking for a listing keeps the invariant, whoever asks.                 *)

Asks == [tab : BOOLEAN, op : {"ls", "complete"}, key : Seq(Names), at : Nat]

LEMMA AskStep ==
  ASSUME PromptInv, NEW a \in Asks, Ask(a),
         UNCHANGED <<db, connected, dir, closed>>,
         prefix' \in Words \cup {NoPiece},
         IF a.tab THEN a.key = PushPiece(dir, prefix') ELSE prefix' = NoPiece
  PROVE  PromptInv'
<1> USE DEF PromptInv
<1>0. CacheInv(cache)
  BY CacheInvIs
<1>1. CASE \E i \in CachedAt(a.key) :
             /\ cache' = FindAndRefresh(i)
             /\ Answer(a, Last(cache').rows)
             /\ UNCHANGED listing
  <2>1. PICK i \in CachedAt(a.key) :
               /\ cache' = FindAndRefresh(i)
               /\ Answer(a, Last(cache').rows)
               /\ UNCHANGED listing
    BY <1>1
  <2>2. i \in 1..Len(cache) /\ cache[i].key = a.key /\ cache[i] \in Entry
    BY <1>0 DEF CachedAt, CacheInv
  <2>3. CacheInv(cache') /\ Len(cache') # 0 /\ cache'[Len(cache')] = cache[i]
    BY <1>0, <2>1, <2>2, RefreshInv DEF FindAndRefresh
  <2>4. pc' = "prompt" /\ Last(cache') = cache[i]
    BY <2>1, <2>3 DEF Answer, Last
  <2>5. TypeOK'
    BY <2>1, <2>2, <2>3, <2>4 DEF TypeOK, CacheInv, Entry, Answer, listing, db
  <2>6. (KeysOnce /\ RowsOfTheirSet)'
    BY <2>3, <2>5, CacheInvIsPrimed
  <2>7. MatchesOfThisDirectory'
    BY <2>1, <2>2, <2>4 DEF MatchesOfThisDirectory, Answer
  <2>8. ListingInProgress'
    BY <2>4 DEF ListingInProgress
  <2> QED BY <2>5, <2>6, <2>7, <2>8
<1>2. CASE /\ CachedAt(a.key) = {}
           /\ UNCHANGED cache /\ NoAnswer(a)
           /\ UNCHANGED listing
           /\ pc' \in Failures
  <2>1. TypeOK'
    BY <1>2 DEF TypeOK, NoAnswer, listing, db
  <2>2. (KeysOnce /\ RowsOfTheirSet)'
    BY <1>2 DEF KeysOnce, RowsOfTheirSet
  <2>3. MatchesOfThisDirectory' /\ ListingInProgress'
    BY <1>2 DEF MatchesOfThisDirectory, ListingInProgress, Failures
  <2> QED BY <2>1, <2>2, <2>3
<1>3. CASE /\ CachedAt(a.key) = {}
           /\ UNCHANGED cache /\ NoAnswer(a)
           /\ pc' = "list" /\ ask' = a /\ want' = {} /\ rows' = {}
  <2>1. TypeOK'
    BY <1>3 DEF TypeOK, NoAnswer, Asks, db
  <2>2. (KeysOnce /\ RowsOfTheirSet)'
    BY <1>3 DEF KeysOnce, RowsOfTheirSet
  <2>3. MatchesOfThisDirectory'
    BY <1>3 DEF MatchesOfThisDirectory
  <2>4. ListingInProgress'
    BY <1>3 DEF ListingInProgress, CachedAt
  <2> QED BY <2>1, <2>2, <2>3, <2>4
<1> QED BY <1>1, <1>2, <1>3 DEF Ask, Failures

(* The listing itself, command by command.                                 *)
LEMMA ListStep ==
  ASSUME PromptInv, List
  PROVE  PromptInv'
<1> USE DEF PromptInv
<1>1. /\ want' \subseteq Catalogue \cup {SetRecord(s) : s \in SetIds}
      /\ ask.key # <<>> => \A r \in want' : r \in Catalogue /\ r.set = ask.key[1]
  BY DEF List, FilesAt, TypeOK, PointsToGroup
<1>2. TypeOK'
  BY <1>1 DEF List, TypeOK, db, reading
<1>3. (KeysOnce /\ RowsOfTheirSet)'
  BY DEF List, KeysOnce, RowsOfTheirSet
<1>4. MatchesOfThisDirectory'
  BY DEF List, MatchesOfThisDirectory
<1>5. ListingInProgress'
  BY <1>1 DEF List, ListingInProgress, CachedAt, reading
<1> QED BY <1>2, <1>3, <1>4, <1>5

LEMMA ReadRowStep ==
  ASSUME PromptInv, NEW r, ReadRow(r)
  PROVE  PromptInv'
<1> USE DEF PromptInv
<1>1. /\ want' \subseteq want
      /\ rows' \subseteq RowSet
      /\ ask.key # <<>> => rows' \subseteq PathsOf(ask.key[1])
  <2>1. rows \subseteq RowSet /\ (ask.key # <<>> => rows \subseteq PathsOf(ask.key[1]))
    BY DEF ReadRow, TypeOK, ListingInProgress
  <2>2. RowOf(r) \subseteq RowSet
    BY DEF RowOf, RowSet, Paths, TypeOK
  <2>3. ask.key # <<>> => RowOf(r) \subseteq PathsOf(ask.key[1])
    BY DEF ReadRow, RowOf, PathsOf, PointsToGroup, ListingInProgress
  <2>4. want' = want \ {r} /\ rows' = rows \cup RowOf(r)
    BY DEF ReadRow
  <2> QED BY <2>1, <2>2, <2>3, <2>4
<1>2. TypeOK'
  BY <1>1 DEF ReadRow, TypeOK, db, reading
<1>3. (KeysOnce /\ RowsOfTheirSet)'
  BY DEF ReadRow, KeysOnce, RowsOfTheirSet
<1>4. MatchesOfThisDirectory'
  BY DEF ReadRow, MatchesOfThisDirectory
<1>5. ListingInProgress'
  BY <1>1 DEF ReadRow, ListingInProgress, CachedAt, reading
<1> QED BY <1>2, <1>3, <1>4, <1>5

(* What is added to the cache comes from the set of its key.               *)
LEMMA ResultFits ==
  ASSUME PromptInv, pc = "rows", HasComponents
  PROVE  [key |-> ask.key, rows |-> Result] \in Entry
         /\ RowsFit([key |-> ask.key, rows |-> Result])
<1> USE DEF PromptInv
<1>1. ask.key \in Seq(Names) /\ ask.at \in Nat /\ rows \subseteq RowSet
  BY DEF TypeOK
<1>2. CASE ask.op = "complete"
  <2>1. Result = {<<x[ask.at + 1]>> : x \in rows}
    BY <1>2 DEF Result
  <2>2. \A x \in rows : x \in Seq(Names) /\ ask.at + 1 \in DOMAIN x
    <3> TAKE x \in rows
    <3>1. x \in Seq(Names)
      <4>1. x \in RowSet
        BY <1>1
      <4>2. \A n \in Names : <<n>> \in Seq(Names)
        OBVIOUS
      <4>3. CASE x \in {<<n>> : n \in Names} \cup {<<s>> : s \in SetIds}
        BY <4>2, <4>3, NavigatorAssumption
      <4>4. CASE x \in Paths
        BY <4>4, NavigatorAssumption DEF Paths
      <4> QED BY <4>1, <4>3, <4>4 DEF RowSet
    <3>2. ask.at < Len(x)
      BY <1>2 DEF HasComponents
    <3> QED BY <1>1, <3>1, <3>2
  <2>3. Result \subseteq RowSet
    BY <2>1, <2>2 DEF RowSet
  <2>4. ASSUME ask.key # <<>>, NEW y \in Result
        PROVE  \E r \in Catalogue : r.set = ask.key[1] /\ \E k \in DOMAIN r.path : y = <<r.path[k]>>
    <3>1. PICK x \in rows : y = <<x[ask.at + 1]>>
      BY <2>1
    <3>2. x \in PathsOf(ask.key[1])
      BY <2>4 DEF ListingInProgress
    <3> QED BY <2>2, <3>1, <3>2 DEF PathsOf
  <2> QED BY <1>1, <2>3, <2>4 DEF Entry, RowsFit
<1>3. CASE ask.op # "complete"
  <2>1. Result = rows
    BY <1>3 DEF Result
  <2>2. ASSUME ask.key # <<>>, NEW x \in rows
        PROVE  \E r \in Catalogue : r.set = ask.key[1] /\ x = r.path
    BY <2>2 DEF ListingInProgress, PathsOf
  <2> QED BY <1>1, <2>1, <2>2 DEF Entry, RowsFit
<1> QED BY <1>2, <1>3

LEMMA EndListStep ==
  ASSUME PromptInv, EndList
  PROVE  PromptInv'
<1> USE DEF PromptInv
<1>0. CacheInv(cache) /\ pc = "rows" /\ CachedAt(ask.key) = {}
  BY CacheInvIs DEF EndList, ListingInProgress
<1> DEFINE e == [key |-> ask.key, rows |-> Result]
<1>1. CASE HasComponents
  <2>1. e \in Entry /\ RowsFit(e)
    BY <1>0, <1>1, ResultFits
  <2>2. /\ cache' = PushBack(cache, e)
        /\ Answer(ask, Result)
        /\ ask' = NoAsk /\ rows' = {}
        /\ UNCHANGED <<db, connected, dir, prefix, want, closed>>
    BY <1>1 DEF EndList
  <2>3. e.key = ask.key /\ e.rows = Result
    OBVIOUS
  <2> HIDE DEF e
  <2>4. \A i \in 1..Len(cache) : cache[i].key # e.key
    BY <1>0, <2>3 DEF CachedAt, CacheInv
  <2>5. CacheInv(cache') /\ Len(cache') # 0 /\ cache'[Len(cache')] = e
    BY <1>0, <2>1, <2>2, <2>4, PushBackInv
  <2>6. pc' = "prompt"
    BY <2>2 DEF Answer
  <2>7. TypeOK'
    BY <2>1, <2>2, <2>3, <2>5, <2>6 DEF TypeOK, CacheInv, Entry, Answer, NoAsk, db
  <2>8. (KeysOnce /\ RowsOfTheirSet)'
    BY <2>5, <2>7, CacheInvIsPrimed
  <2>9. MatchesOfThisDirectory'
    <3>1. CASE ask.tab
      BY <1>0, <2>2, <2>3, <2>5, <3>1
         DEF MatchesOfThisDirectory, Answer, Last, ListingInProgress
    <3>2. CASE ~ask.tab
      BY <1>0, <2>2, <3>2 DEF MatchesOfThisDirectory, ListingInProgress
    <3> QED BY <3>1, <3>2
  <2>10. ListingInProgress'
    BY <2>6 DEF ListingInProgress
  <2> QED BY <2>7, <2>8, <2>9, <2>10
<1>2. CASE ~HasComponents
  <2>1. /\ pc' = "entry_index"
        /\ UNCHANGED <<cache, shown, matches, ask, rows>>
        /\ UNCHANGED <<db, connected, dir, prefix, want, closed>>
    BY <1>2 DEF EndList
  <2>2. TypeOK'
    BY <2>1 DEF TypeOK, Failures, db
  <2>3. (KeysOnce /\ RowsOfTheirSet)'
    BY <2>1 DEF KeysOnce, RowsOfTheirSet
  <2>4. MatchesOfThisDirectory' /\ ListingInProgress'
    BY <2>1 DEF MatchesOfThisDirectory, ListingInProgress
  <2> QED BY <2>2, <2>3, <2>4
<1> QED BY <1>1, <1>2

-----------------------------------------------------------------------------
(* What the user and the other processes do.                               *)
LEMMA TabStep ==
  ASSUME PromptInv, NEW p \in Words \cup {NoPiece}, Tab(p)
  PROVE  PromptInv'
<1> DEFINE a == [tab |-> TRUE,
                 op |-> IF p = NoPiece THEN "ls" ELSE "complete",
                 key |-> PushPiece(dir, p),
                 at |-> Level(dir)]
<1>1. dir \in Seq(Names)
  BY DEF PromptInv, TypeOK
<1>2. Level(dir) \in Nat
  BY <1>1 DEF Level
<1>3. PushPiece(dir, p) \in Seq(Names)
  BY <1>1, PushPieceType
<1>4. a \in Asks /\ a.tab /\ a.key = PushPiece(dir, p)
  BY <1>2, <1>3 DEF Asks
<1>5. Ask(a) /\ prefix' = p /\ UNCHANGED <<db, connected, dir, closed>>
  BY DEF Tab
<1> HIDE DEF a
<1> QED BY <1>4, <1>5, AskStep

LEMMA LsStep ==
  ASSUME PromptInv, Ls
  PROVE  PromptInv'
<1> DEFINE a == [tab |-> FALSE, op |-> "ls", key |-> dir, at |-> Level(dir)]
<1>1. dir \in Seq(Names)
  BY DEF PromptInv, TypeOK
<1>2. Level(dir) \in Nat
  BY <1>1 DEF Level
<1>3. a \in Asks /\ ~a.tab
  BY <1>1, <1>2 DEF Asks
<1>4. Ask(a) /\ prefix' = NoPiece /\ UNCHANGED <<db, connected, dir, closed>>
  BY DEF Ls, LineRead
<1> HIDE DEF a
<1> QED BY <1>3, <1>4, AskStep

\* The other lines the user types lead to no listing and change no cache.
LEMMA LineStep ==
  ASSUME PromptInv,
         \/ \E p \in Pieces : Cd(p)
         \/ Pwd \/ Disconnect \/ Exit \/ Unknown \/ EndOfInput \/ ReadAtEnd
  PROVE  PromptInv'
<1> USE DEF PromptInv
<1>1. /\ dir' \in Seq(Names)
      /\ connected' \in BOOLEAN /\ closed' \in BOOLEAN
      /\ prefix' \in {NoPiece, prefix}
      /\ matches' \in {matches, {}}
      /\ pc' \in {pc, "ended", "uncaught"}
      /\ pc = "prompt"
      /\ dir' # dir => prefix' = NoPiece
      /\ prefix' # NoPiece => matches' = matches
      /\ UNCHANGED <<db, cache, listing, shown>>
  <2>1. dir \in Seq(Names) /\ connected \in BOOLEAN /\ closed \in BOOLEAN
    BY DEF TypeOK
  <2>2. CASE \E p \in Pieces : Cd(p)
    BY <2>1, <2>2, PushPieceType DEF Cd, LineRead
  <2>3. CASE Pwd \/ Disconnect \/ Exit \/ Unknown
    BY <2>1, <2>3 DEF Pwd, Disconnect, Exit, Unknown, LineRead
  <2>4. CASE EndOfInput \/ ReadAtEnd
    BY <2>1, <2>4 DEF EndOfInput, ReadAtEnd, reading
  <2> QED BY <2>2, <2>3, <2>4
<1>2. TypeOK'
  BY <1>1 DEF TypeOK, db, listing, Failures
<1>3. (KeysOnce /\ RowsOfTheirSet)'
  BY <1>1 DEF KeysOnce, RowsOfTheirSet
<1>4. MatchesOfThisDirectory'
  BY <1>1 DEF MatchesOfThisDirectory
<1>5. ListingInProgress'
  BY <1>1 DEF ListingInProgress
<1> QED BY <1>2, <1>3, <1>4, <1>5

LEMMA OtherStep ==
  ASSUME PromptInv, OtherProcess
  PROVE  PromptInv'
<1> USE DEF PromptInv
<1>1. /\ records' \subseteq records /\ levels' \subseteq levels /\ files' \subseteq files
      /\ UNCHANGED <<connected, dir, cache, reading, listing, shown, closed, pc>>
  BY DEF OtherProcess, DelSet, DelLevels, DelFile
<1>2. TypeOK'
  BY <1>1 DEF TypeOK, reading, listing
<1>3. (KeysOnce /\ RowsOfTheirSet)'
  BY <1>1 DEF KeysOnce, RowsOfTheirSet
<1>4. MatchesOfThisDirectory' /\ ListingInProgress'
  BY <1>1 DEF MatchesOfThisDirectory, ListingInProgress, CachedAt, reading, listing
<1> QED BY <1>2, <1>3, <1>4


LEMMA PromptInit ==
  ASSUME Init
  PROVE  PromptInv
<1>1. TypeOK
  <2>1. records \subseteq SetIds /\ levels \subseteq SetIds /\ files \subseteq Catalogue
    BY NavigatorAssumption DEF Init
  <2>2. cache \in Seq([key : Seq(Names), rows : SUBSET RowSet]) /\ dir \in Seq(Names)
    BY DEF Init
  <2>3. ask \in [tab : BOOLEAN, op : {"ls", "complete"}, key : Seq(Names), at : Nat]
    BY DEF Init, NoAsk
  <2>4. shown \in [dir : Seq(Names), rows : SUBSET RowSet]
    BY DEF Init
  <2>5. /\ connected \in BOOLEAN /\ closed \in BOOLEAN
        /\ prefix \in Words \cup {NoPiece}
        /\ matches \in SUBSET RowSet /\ want = {} /\ rows \in SUBSET RowSet
        /\ pc \in {"prompt", "list", "rows", "ended"} \cup Failures
    BY DEF Init
  <2> QED BY <2>1, <2>2, <2>3, <2>4, <2>5 DEF TypeOK
<1>2. KeysOnce /\ RowsOfTheirSet
  BY NavigatorAssumption DEF Init, KeysOnce, RowsOfTheirSet
<1>3. MatchesOfThisDirectory /\ ListingInProgress
  BY DEF Init, MatchesOfThisDirectory, ListingInProgress
<1> QED BY <1>1, <1>2, <1>3 DEF PromptInv

LEMMA PromptStep ==
  ASSUME PromptInv, [Next]_vars
  PROVE  PromptInv'
<1>1. CASE Listing
  BY <1>1, ListStep, EndListStep, ReadRowStep DEF Listing
<1>2. CASE \E p \in Words \cup {NoPiece} : Tab(p)
  BY <1>2, TabStep
<1>3. CASE Command \/ EndOfInput \/ ReadAtEnd
  BY <1>3, LsStep, LineStep DEF Command
<1>4. CASE OtherProcess
  BY <1>4, OtherStep
<1>5. CASE UNCHANGED vars
  BY <1>5 DEF PromptInv, TypeOK, KeysOnce, RowsOfTheirSet, MatchesOfThisDirectory,
              ListingInProgress, CachedAt, vars, db, reading, listing
<1> QED BY <1>1, <1>2, <1>3, <1>4, <1>5 DEF Next

-----------------------------------------------------------------------------
(* A deletion in progress hides nothing of a set that is still recorded.   *)

(* A child's path starts with that of its directory.                       *)
LEMMA ChildFacts ==
  ASSUME NEW d \in Seq(Names), d # <<>>, NEW p \in Children(d)
  PROVE  /\ [set |-> d[1], path |-> p] \in Catalogue
         /\ Len(p) = Level(d) + 1
         /\ StartsWith(p, FilePath(d))
<1>1. /\ [set |-> d[1], path |-> p] \in Catalogue
      /\ p # <<>> /\ Front(p) = Tail(d)
  BY DEF Children, FilePath
<1>2. p \in Seq(Names)
  BY <1>1, NavigatorAssumption
<1>3. /\ Front(p) \in Seq(Names) /\ Len(Front(p)) = Len(p) - 1
      /\ \A i \in 1..Len(p) - 1 : Front(p)[i] = p[i]
  <2>1. Len(p) \in Nat \ {0}
    BY <1>1, <1>2
  <2>2. Front(p) = SubSeq(p, 1, Len(p) - 1)
    BY DEF Front
  <2>3. \A i \in 1..Len(p) - 1 : p[i] \in Names
    BY <1>2, <2>1
  <2>4. SubSeq(p, 1, Len(p) - 1) = [i \in 1..Len(p) - 1 |-> p[i]]
    BY <1>2, <2>1
  <2>5. [i \in 1..Len(p) - 1 |-> p[i]] \in Seq(Names)
    BY <2>1, <2>3
  <2> DEFINE t == [i \in 1..Len(p) - 1 |-> p[i]]
  <2>6. Len(t) = Len(p) - 1 /\ \A i \in 1..Len(p) - 1 : t[i] = p[i]
    BY <2>1, <2>5
  <2> QED BY <2>2, <2>4, <2>5, <2>6
<1>4. Len(Tail(d)) = Len(d) - 1 /\ Len(d) \in Nat \ {0}
  OBVIOUS
<1>5. Len(p) = Level(d) + 1
  BY <1>1, <1>2, <1>3, <1>4 DEF Level
<1> DEFINE t == Front(p)
<1>6. StartsWith(p, t)
  <2>1. CASE t = <<>>
    BY <2>1 DEF StartsWith
  <2>2. CASE t # <<>>
    <3>1. Len(t) \in 1..Len(p) - 1
      BY <1>2, <1>3, <2>2
    <3>2. Last(t) = p[Len(t)] /\ p[Len(t)] \in Names
      BY <1>2, <1>3, <3>1 DEF Last
    <3>3. <<Last(t), p[Len(t)]>> \in Begins
      BY <3>2, NavigatorAssumption
    <3>4. Len(t) <= Len(p) /\ \A i \in 1..Len(t) - 1 : p[i] = t[i]
      BY <1>2, <1>3
    <3> QED BY <3>3, <3>4 DEF StartsWith
  <2> QED BY <2>1, <2>2
<1> QED BY <1>1, <1>5, <1>6 DEF FilePath

LEMMA LiveStep ==
  ASSUME PromptInv, LiveListing, [Next]_vars
  PROVE  LiveListing'
<1>0. ask.key \in Seq(Names) /\ TypeOK
  BY DEF PromptInv, TypeOK
<1>1. CASE List
  <2>1. ASSUME ask.op = "ls", ask.key # <<>>, ask.key[1] \in records,
               NEW p \in Children(ask.key)
        PROVE  [set |-> ask.key[1], path |-> p] \in want'
    <3>1. want' = FilesAt(ask.key[1], Level(ask.key) + 1)
      BY <1>1, <2>1 DEF List, PointsToGroup, WantedLevel
    <3>2. ask.key[1] \in levels
      BY <2>1 DEF LiveListing
    <3> QED BY <1>0, <2>1, <3>1, <3>2, ChildFacts DEF FilesAt
  <2>2. UNCHANGED <<db, ask>>
    BY <1>1 DEF List
  <2> QED BY <2>1, <2>2 DEF LiveListing, db, Children
<1>2. CASE \E r \in want : ReadRow(r)
  <2>1. PICK r \in want : ReadRow(r)
    BY <1>2
  <2>2. UNCHANGED <<db, ask, pc>> /\ want' = want \ {r} /\ rows' = rows \cup RowOf(r)
    BY <2>1 DEF ReadRow
  <2>3. ASSUME pc = "rows", ask.op = "ls", ask.key # <<>>, ask.key[1] \in records,
               NEW p \in Children(ask.key), r = [set |-> ask.key[1], path |-> p]
        PROVE  p \in RowOf(r)
    <3>1. r \in Catalogue /\ r.set \in levels /\ StartsWith(r.path, FilePath(ask.key))
      BY <1>0, <2>3, ChildFacts DEF LiveListing
    <3>2. r \in files
      BY <3>1 DEF LiveListing
    <3> QED BY <2>3, <3>1, <3>2 DEF RowOf, PointsToGroup
  <2>4. ASSUME pc = "rows", ask.op = "ls", ask.key # <<>>, ask.key[1] \in records,
               NEW p \in Children(ask.key)
        PROVE  p \in rows' \/ [set |-> ask.key[1], path |-> p] \in want'
    BY <2>2, <2>3, <2>4 DEF LiveListing
  <2> QED BY <2>2, <2>4 DEF LiveListing, db, Children
<1>3. CASE OtherProcess
  <2>1. /\ UNCHANGED <<ask, want, rows, pc>>
        /\ records' \subseteq records
    BY <1>3 DEF OtherProcess, DelSet, DelLevels, DelFile, listing
  <2>2. records' \subseteq levels' /\ \A f \in Catalogue : f.set \in levels' => f \in files'
    <3>1. CASE \E s \in SetIds : DelSet(s)
      BY <3>1 DEF DelSet, LiveListing
    <3>2. CASE \E s \in SetIds : DelLevels(s)
      BY <3>2 DEF DelLevels, LiveListing
    <3>3. CASE \E r \in Catalogue : DelFile(r)
      BY <3>3 DEF DelFile, LiveListing
    <3> QED BY <1>3, <3>1, <3>2, <3>3 DEF OtherProcess
  <2> QED BY <2>1, <2>2 DEF LiveListing, Children
<1>4. CASE UNCHANGED db /\ pc' # "rows"
  BY <1>4 DEF LiveListing, db
<1>5. CASE UNCHANGED vars
  BY <1>5 DEF LiveListing, vars, db, listing, Children
<1>6. ASSUME NEW a, Ask(a), pc = "prompt", UNCHANGED db
      PROVE  LiveListing'
  BY <1>6, <1>4 DEF Ask, Answer, NoAnswer
<1>7. CASE \E p \in Words \cup {NoPiece} : Tab(p)
  BY <1>6, <1>7 DEF Tab
<1>8. CASE Ls
  BY <1>6, <1>8 DEF Ls, LineRead
<1>9. CASE \/ \E p \in Pieces : Cd(p)
           \/ Pwd \/ Disconnect \/ Exit \/ Unknown \/ EndOfInput \/ ReadAtEnd
  BY <1>4, <1>9 DEF Cd, Pwd, Disconnect, Exit, Unknown, EndOfInput, ReadAtEnd, LineRead
<1>10. CASE EndList
  BY <1>4, <1>10 DEF EndList, Answer
<1> QED BY <1>1, <1>2, <1>3, <1>5, <1>7, <1>8, <1>9, <1>10 DEF Next, Listing, Command

-----------------------------------------------------------------------------
(* NavigatorInv holds in every state of every behaviour.                   *)
THEOREM NavigatorCorrect == Spec => []NavigatorInv
<1>1. Init => NavigatorInv
  <2>1. Init => LiveListing
    BY DEF Init, LiveListing
  <2> QED BY <2>1, PromptInit DEF NavigatorInv
<1>2. NavigatorInv /\ [Next]_vars => NavigatorInv'
  BY PromptStep, LiveStep DEF NavigatorInv
<1> QED BY <1>1, <1>2, PTL DEF Spec

(* The variables keep their types, those of a catalogue that other          *)
(* processes take away included.                                            *)
THEOREM NavigatorTypes == Spec => []TypeOK
<1>1. NavigatorInv => TypeOK
  BY DEF NavigatorInv, PromptInv
<1> QED BY <1>1, NavigatorCorrect, PTL

(* The assertions of find_and_refresh_in_cache hold.                       *)
THEOREM KeysOnceTheorem == Spec => []KeysOnce
<1>1. NavigatorInv => KeysOnce
  BY DEF NavigatorInv, PromptInv
<1> QED BY <1>1, NavigatorCorrect, PTL

(* No listing and no completion shows rows of another set.                 *)
THEOREM RowsTheorem == Spec => []RowsOfTheirSet
<1>1. NavigatorInv => RowsOfTheirSet
  BY DEF NavigatorInv, PromptInv
<1> QED BY <1>1, NavigatorCorrect, PTL

(* Remembered completions are never those of another directory.            *)
THEOREM MatchesTheorem == Spec => []MatchesOfThisDirectory
<1>1. NavigatorInv => MatchesOfThisDirectory
  BY DEF NavigatorInv, PromptInv
<1> QED BY <1>1, NavigatorCorrect, PTL

(* A listing that ends while its set is still recorded has missed nothing  *)
(* of the directory, whatever was deleted since it began.                  *)
THEOREM CompleteTheorem == Spec => ListingOfLiveSetComplete
<1>1. NavigatorInv => (/\ pc = "rows" /\ want = {}
                       /\ ask.op = "ls" /\ ask.key # <<>>
                       /\ ask.key[1] \in records
                       => Children(ask.key) \subseteq rows)
  BY DEF NavigatorInv, LiveListing
<1> QED BY <1>1, NavigatorCorrect, PTL DEF ListingOfLiveSetComplete

-----------------------------------------------------------------------------
(* The cache gives up what was used least recently.                        *)

KeyedOnce(c) ==
  /\ c \in Seq(Entry)
  /\ \A i, j \in 1..Len(c) : c[i].key = c[j].key => i = j

KeysOf(c) == {c[i].key : i \in 1..Len(c)}

LEMMA HeldFacts ==
  ASSUME NEW c, KeyedOnce(c)
  PROVE  /\ DOMAIN Held(c) = KeysOf(c)
         /\ Held(c) = [k \in KeysOf(c) |-> Held(c)[k]]
         /\ \A i \in 1..Len(c) : Held(c)[c[i].key] = c[i].rows
         /\ Cardinality(KeysOf(c)) = Len(c)
<1>1. Len(c) \in Nat /\ DOMAIN c = 1..Len(c)
  BY DEF KeyedOnce
<1>2. Held(c) = [k \in KeysOf(c) |-> c[CHOOSE i \in 1..Len(c) : c[i].key = k].rows]
  BY <1>1 DEF Held, KeysOf
<1>3. ASSUME NEW i \in 1..Len(c)
      PROVE  Held(c)[c[i].key] = c[i].rows
  <2>1. (CHOOSE j \in 1..Len(c) : c[j].key = c[i].key) = i
    BY DEF KeyedOnce
  <2>2. c[i].key \in KeysOf(c)
    BY DEF KeysOf
  <2> QED BY <1>2, <2>1, <2>2
<1>4. Cardinality(KeysOf(c)) = Len(c)
  <2> DEFINE f == [i \in 1..Len(c) |-> c[i].key]
  <2>1. f \in Bijection(1..Len(c), KeysOf(c))
    BY DEF KeysOf, KeyedOnce, Bijection, Injection, IsInjective, Surjection
  <2>2. ExistsBijection(1..Len(c), KeysOf(c))
    BY <2>1 DEF ExistsBijection
  <2>3. /\ IsFiniteSet(1..Len(c))
        /\ Cardinality(1..Len(c)) = IF 1 > Len(c) THEN 0 ELSE Len(c) - 1 + 1
    BY <1>1, FS_Interval
  <2>4. Cardinality(1..Len(c)) = Len(c)
    BY <1>1, <2>3
  <2> QED BY <2>2, <2>3, <2>4, FS_Bijection
<1> QED BY <1>2, <1>3, <1>4

LEMMA OlderFacts ==
  ASSUME NEW c, KeyedOnce(c)
  PROVE  /\ Older(c) \subseteq KeysOf(c) \X KeysOf(c)
         /\ \A a, b : <<a, b>> \in Older(c) <=>
              \E i, j \in 1..Len(c) : i < j /\ a = c[i].key /\ b = c[j].key
<1>1. DOMAIN c = 1..Len(c)
  BY DEF KeyedOnce
<1>2. Older(c) = {<<c[p[1]].key, c[p[2]].key>> :
                    p \in {q \in (1..Len(c)) \X (1..Len(c)) : q[1] < q[2]}}
  BY <1>1 DEF Older
<1>3. ASSUME NEW a, NEW b, <<a, b>> \in Older(c)
      PROVE  \E i, j \in 1..Len(c) : i < j /\ a = c[i].key /\ b = c[j].key
  <2>1. PICK p \in (1..Len(c)) \X (1..Len(c)) :
          p[1] < p[2] /\ <<a, b>> = <<c[p[1]].key, c[p[2]].key>>
    BY <1>2, <1>3
  <2> QED BY <2>1
<1>4. ASSUME NEW i \in 1..Len(c), NEW j \in 1..Len(c), i < j
      PROVE  <<c[i].key, c[j].key>> \in Older(c)
  <2>1. <<i, j>> \in {q \in (1..Len(c)) \X (1..Len(c)) : q[1] < q[2]}
    BY <1>4
  <2> QED BY <1>2, <2>1
<1>5. Older(c) \subseteq KeysOf(c) \X KeysOf(c)
  BY <1>2 DEF KeysOf
<1> QED BY <1>3, <1>4, <1>5

(* An entry that is used again becomes the newest, and no other moves.     *)
Moved(c, i, d) ==
  /\ Len(d) = Len(c)
  /\ \A j \in 1..Len(c) :
       d[j] = IF j = Len(c) THEN c[i] ELSE IF j < i THEN c[j] ELSE c[j + 1]

LEMMA UseStep ==
  ASSUME NEW c, KeyedOnce(c), NEW i \in 1..Len(c), NEW d, KeyedOnce(d), Moved(c, i, d)
  PROVE  /\ Held(d) = Held(c)
         /\ Older(d) = {p \in Older(c) : p[1] # c[i].key}
                         \cup ((KeysOf(c) \ {c[i].key}) \X {c[i].key})
<1>0. Len(c) \in Nat /\ c \in Seq(Entry)
  BY DEF KeyedOnce
<1>00. Len(d) = Len(c)
  BY DEF Moved
<1> USE <1>00
<1> DEFINE n == Len(c)
           k == c[i].key
           \* where the entry at j was, and where the one at m goes
           was(j) == IF j = n THEN i ELSE IF j < i THEN j ELSE j + 1
           goes(m) == IF m = i THEN n ELSE IF m < i THEN m ELSE m - 1
<1>1. \A j \in 1..n : was(j) \in 1..n /\ d[j] = c[was(j)]
  BY <1>0 DEF Moved
<1>2. \A m \in 1..n : goes(m) \in 1..n /\ d[goes(m)] = c[m]
  BY <1>0 DEF Moved
<1>3. KeysOf(d) = KeysOf(c)
  <2>1. ASSUME NEW x \in KeysOf(d)
        PROVE  x \in KeysOf(c)
    <3>1. PICK j \in 1..n : x = d[j].key
      BY DEF KeysOf
    <3> HIDE DEF was
    <3> QED BY <1>1, <3>1 DEF KeysOf
  <2>2. ASSUME NEW x \in KeysOf(c)
        PROVE  x \in KeysOf(d)
    <3>1. PICK m \in 1..n : x = c[m].key
      BY DEF KeysOf
    <3> HIDE DEF goes
    <3> QED BY <1>2, <3>1 DEF KeysOf
  <2> QED BY <2>1, <2>2
<1>4. Held(d) = Held(c)
  <2>1. \A x \in KeysOf(c) : Held(d)[x] = Held(c)[x]
    <3> SUFFICES ASSUME NEW m \in 1..n
                 PROVE  Held(d)[c[m].key] = Held(c)[c[m].key]
      BY DEF KeysOf
    <3>1. Held(c)[c[m].key] = c[m].rows
      BY HeldFacts
    <3>2. \A j \in 1..n : Held(d)[d[j].key] = d[j].rows
      BY HeldFacts
    <3> QED BY <1>2, <3>1, <3>2
  <2>2. /\ Held(c) = [x \in KeysOf(c) |-> Held(c)[x]]
        /\ Held(d) = [x \in KeysOf(c) |-> Held(d)[x]]
    BY <1>3, HeldFacts
  <2> QED BY <2>1, <2>2
<1>5. ASSUME NEW a, NEW b
      PROVE  <<a, b>> \in Older(d) <=>
               \/ <<a, b>> \in Older(c) /\ a # k
               \/ a \in KeysOf(c) \ {k} /\ b = k
  <2>1. ASSUME <<a, b>> \in Older(d)
        PROVE  \/ <<a, b>> \in Older(c) /\ a # k
               \/ a \in KeysOf(c) \ {k} /\ b = k
    <3>1. PICK p \in 1..n, q \in 1..n : p < q /\ a = d[p].key /\ b = d[q].key
      BY <2>1, OlderFacts
    <3>2. was(p) \in 1..n /\ was(p) # i /\ a = c[was(p)].key
      BY <1>0, <1>1, <3>1
    <3>3. a # k /\ a \in KeysOf(c)
      BY <3>2 DEF KeyedOnce, KeysOf
    <3>4. CASE q = n
      BY <3>1, <3>3, <3>4, <1>1
    <3>5. CASE q # n
      <4>1. was(p) < was(q) /\ was(q) \in 1..n /\ b = c[was(q)].key
        BY <1>0, <1>1, <3>1, <3>5
      <4> HIDE DEF was
      <4> QED BY <3>2, <3>3, <4>1, OlderFacts
    <3> QED BY <3>4, <3>5
  <2>2. ASSUME <<a, b>> \in Older(c), a # k
        PROVE  <<a, b>> \in Older(d)
    <3>1. PICK p \in 1..n, q \in 1..n : p < q /\ a = c[p].key /\ b = c[q].key
      BY <2>2, OlderFacts
    <3>2. goes(p) < goes(q)
      BY <1>0, <2>2, <3>1
    <3>3. goes(p) \in 1..n /\ goes(q) \in 1..n /\ a = d[goes(p)].key /\ b = d[goes(q)].key
      BY <1>2, <3>1
    <3> HIDE DEF goes
    <3> QED BY <3>2, <3>3, OlderFacts
  <2>3. ASSUME a \in KeysOf(c) \ {k}, b = k
        PROVE  <<a, b>> \in Older(d)
    <3>1. PICK p \in 1..n : a = c[p].key
      BY <2>3 DEF KeysOf
    <3>2. goes(p) < n /\ goes(p) \in 1..n /\ a = d[goes(p)].key
      BY <1>0, <1>2, <2>3, <3>1
    <3>3. n \in 1..n /\ b = d[n].key
      <4>1. n \in 1..n
        BY <1>0, <3>2
      <4> QED BY <2>3, <4>1 DEF Moved
    <3> HIDE DEF goes
    <3> QED BY <3>2, <3>3, OlderFacts
  <2> QED BY <2>1, <2>2, <2>3
<1> DEFINE R == {p \in Older(c) : p[1] # k} \cup ((KeysOf(c) \ {k}) \X {k})
<1>6. /\ Older(d) \subseteq KeysOf(c) \X KeysOf(c)
      /\ Older(c) \subseteq KeysOf(c) \X KeysOf(c)
      /\ k \in KeysOf(c)
  <2>1. k \in KeysOf(c)
    BY DEF KeysOf
  <2>2. Older(d) \subseteq KeysOf(d) \X KeysOf(d)
    BY OlderFacts
  <2>3. Older(c) \subseteq KeysOf(c) \X KeysOf(c)
    BY OlderFacts
  <2> QED BY <1>3, <2>1, <2>2, <2>3
<1>7. R \subseteq KeysOf(c) \X KeysOf(c)
  BY <1>6
<1>8. \A a, b : <<a, b>> \in R <=>
               \/ <<a, b>> \in Older(c) /\ a # k
               \/ a \in KeysOf(c) \ {k} /\ b = k
  OBVIOUS
<1>9. \A a, b : <<a, b>> \in Older(d) <=> <<a, b>> \in R
  <2> HIDE DEF R
  <2> QED BY <1>5, <1>8
<1>10. Older(d) = R
  <2> HIDE DEF R
  <2>1. \A p \in KeysOf(c) \X KeysOf(c) : p \in Older(d) <=> p \in R
    BY <1>9
  <2> QED BY <1>6, <1>7, <2>1
<1> QED BY <1>4, <1>10

(* The oldest key is that of the first entry.                              *)
LEMMA OldestFacts ==
  ASSUME NEW c, KeyedOnce(c), Len(c) # 0
  PROVE  {k \in KeysOf(c) : \A j \in KeysOf(c) : <<j, k>> \notin Older(c)} = {c[1].key}
<1>0. Len(c) \in Nat /\ 1 \in 1..Len(c)
  BY DEF KeyedOnce
<1>1. c[1].key \in KeysOf(c)
  BY <1>0 DEF KeysOf
<1>2. \A j : <<j, c[1].key>> \notin Older(c)
  <2> SUFFICES ASSUME NEW j, <<j, c[1].key>> \in Older(c) PROVE FALSE
    OBVIOUS
  <2>1. PICK p \in 1..Len(c), q \in 1..Len(c) : p < q /\ c[1].key = c[q].key
    BY OlderFacts
  <2>2. q = 1
    BY <1>0, <2>1 DEF KeyedOnce
  <2> QED BY <1>0, <2>1, <2>2
<1>3. ASSUME NEW k \in KeysOf(c), k # c[1].key
      PROVE  <<c[1].key, k>> \in Older(c)
  <2>1. PICK m \in 1..Len(c) : k = c[m].key
    BY DEF KeysOf
  <2>2. 1 < m
    BY <1>0, <1>3, <2>1
  <2> QED BY <1>0, <2>1, <2>2, OlderFacts
<1> QED BY <1>1, <1>2, <1>3

(* A new entry is the newest; s entries, the oldest, made room for it.     *)
Added(c, s, e, d) ==
  /\ s \in {0, 1} /\ s <= Len(c)
  /\ Len(d) = Len(c) - s + 1
  /\ \A j \in 1..Len(d) : d[j] = IF j = Len(d) THEN e ELSE c[j + s]

LEMMA AddStep ==
  ASSUME NEW c, KeyedOnce(c), NEW d, KeyedOnce(d), NEW e, NEW s, Added(c, s, e, d),
         e.key \notin KeysOf(c)
  PROVE  LET stay == {c[j].key : j \in 1 + s..Len(c)} IN
         /\ KeysOf(d) = stay \cup {e.key}
         /\ \A x \in stay : Held(d)[x] = Held(c)[x]
         /\ Older(d) = {p \in Older(c) : p[1] \in stay /\ p[2] \in stay} \cup (stay \X {e.key})
<1> DEFINE stay == {c[j].key : j \in 1 + s..Len(c)}
           n == Len(d)
<1>0. Len(c) \in Nat /\ n \in Nat \ {0} /\ s \in Nat /\ n = Len(c) - s + 1
  BY DEF KeyedOnce, Added
<1>1. \A j \in 1..n : j # n => j + s \in 1 + s..Len(c) /\ j + s \in 1..Len(c) /\ d[j] = c[j + s]
  BY <1>0 DEF Added
<1>2. n \in 1..n /\ d[n] = e
  BY <1>0 DEF Added
<1>3. \A m \in 1 + s..Len(c) :
        m - s \in 1..n /\ m - s # n /\ m \in 1..Len(c) /\ d[m - s] = c[m]
  BY <1>0 DEF Added
<1>4. KeysOf(d) = stay \cup {e.key}
  <2>1. ASSUME NEW x \in KeysOf(d)
        PROVE  x \in stay \cup {e.key}
    <3>1. PICK j \in 1..n : x = d[j].key
      BY DEF KeysOf
    <3> QED BY <1>1, <1>2, <3>1
  <2>2. ASSUME NEW x \in stay
        PROVE  x \in KeysOf(d)
    <3>1. PICK m \in 1 + s..Len(c) : x = c[m].key
      OBVIOUS
    <3> QED BY <1>3, <3>1 DEF KeysOf
  <2>3. e.key \in KeysOf(d)
    BY <1>2 DEF KeysOf
  <2> QED BY <2>1, <2>2, <2>3
<1>5. ASSUME NEW x \in stay
      PROVE  Held(d)[x] = Held(c)[x]
  <2>1. PICK m \in 1 + s..Len(c) : x = c[m].key
    OBVIOUS
  <2>2. Held(c)[c[m].key] = c[m].rows
    BY <1>3, HeldFacts
  <2>3. Held(d)[d[m - s].key] = d[m - s].rows
    BY <1>3, HeldFacts
  <2> QED BY <1>3, <2>1, <2>2, <2>3
<1>6. stay \subseteq KeysOf(c) /\ e.key \notin stay
  BY <1>3 DEF KeysOf
<1>7. ASSUME NEW a, NEW b
      PROVE  <<a, b>> \in Older(d) <=>
               \/ <<a, b>> \in Older(c) /\ a \in stay /\ b \in stay
               \/ a \in stay /\ b = e.key
  <2>1. ASSUME <<a, b>> \in Older(d)
        PROVE  \/ <<a, b>> \in Older(c) /\ a \in stay /\ b \in stay
               \/ a \in stay /\ b = e.key
    <3>1. PICK p \in 1..n, q \in 1..n : p < q /\ a = d[p].key /\ b = d[q].key
      BY <2>1, OlderFacts
    <3>2. p # n
      BY <1>0, <3>1
    <3>3. a \in stay /\ a = c[p + s].key /\ p + s \in 1..Len(c)
      BY <1>1, <3>1, <3>2
    <3>4. CASE q = n
      BY <1>2, <3>1, <3>3, <3>4
    <3>5. CASE q # n
      <4>1. b \in stay /\ b = c[q + s].key /\ q + s \in 1..Len(c)
        BY <1>1, <3>1, <3>5
      <4>2. p + s < q + s
        BY <1>0, <3>1
      <4>3. <<a, b>> \in Older(c)
        BY <3>3, <4>1, <4>2, OlderFacts
      <4> QED BY <3>3, <4>1, <4>3
    <3> QED BY <3>4, <3>5
  <2>2. ASSUME <<a, b>> \in Older(c), a \in stay, b \in stay
        PROVE  <<a, b>> \in Older(d)
    <3> HIDE DEF stay
    <3>1. PICK p \in 1..Len(c), q \in 1..Len(c) : p < q /\ a = c[p].key /\ b = c[q].key
      BY <2>2, OlderFacts
    <3> USE DEF stay
    <3>2. p \in 1 + s..Len(c) /\ q \in 1 + s..Len(c)
      <4>1. PICK pp \in 1 + s..Len(c) : a = c[pp].key
        BY <2>2
      <4>2. PICK qq \in 1 + s..Len(c) : b = c[qq].key
        BY <2>2
      <4> QED BY <1>3, <3>1, <4>1, <4>2 DEF KeyedOnce
    <3>3. p - s < q - s
      BY <1>0, <3>1
    <3>4. /\ p - s \in 1..n /\ a = d[p - s].key
          /\ q - s \in 1..n /\ b = d[q - s].key
      BY <1>3, <3>1, <3>2
    <3> QED BY <3>3, <3>4, OlderFacts
  <2>3. ASSUME a \in stay, b = e.key
        PROVE  <<a, b>> \in Older(d)
    <3>1. PICK m \in 1 + s..Len(c) : a = c[m].key
      BY <2>3
    <3>2. m - s \in 1..n /\ m - s < n /\ a = d[m - s].key
      BY <1>0, <1>3, <3>1
    <3> QED BY <1>2, <2>3, <3>2, OlderFacts
  <2> QED BY <2>1, <2>2, <2>3
<1> DEFINE R == {p \in Older(c) : p[1] \in stay /\ p[2] \in stay} \cup (stay \X {e.key})
           P == (KeysOf(c) \cup {e.key}) \X (KeysOf(c) \cup {e.key})
<1>8. Older(d) \subseteq P /\ Older(c) \subseteq P
  <2>1. KeysOf(d) \subseteq KeysOf(c) \cup {e.key}
    BY <1>4, <1>6
  <2> QED BY <2>1, OlderFacts
<1> HIDE DEF stay
<1>9. R \subseteq P
  BY <1>6, <1>8
<1>10. \A a, b : <<a, b>> \in R <=>
               \/ <<a, b>> \in Older(c) /\ a \in stay /\ b \in stay
               \/ a \in stay /\ b = e.key
  OBVIOUS
<1>11. Older(d) = R
  <2> HIDE DEF R
  <2>1. \A a, b : <<a, b>> \in Older(d) <=> <<a, b>> \in R
    <3> TAKE a, b
    <3>1. <<a, b>> \in Older(d) <=>
            \/ <<a, b>> \in Older(c) /\ a \in stay /\ b \in stay
            \/ a \in stay /\ b = e.key
      BY <1>7
    <3>2. <<a, b>> \in R <=>
            \/ <<a, b>> \in Older(c) /\ a \in stay /\ b \in stay
            \/ a \in stay /\ b = e.key
      BY <1>10
    <3> QED BY <3>1, <3>2
  <2>2. \A p \in P : p \in Older(d) <=> p \in R
    BY <2>1
  <2> HIDE DEF P
  <2> QED BY <1>8, <1>9, <2>2
<1> QED BY <1>4, <1>5, <1>11 DEF stay

LEMMA KeyedOnceIs ==
  ASSUME NavigatorInv
  PROVE  KeyedOnce(cache) /\ Len(cache) <= CacheSize
<1>1. cache \in Seq(Entry) /\ DOMAIN cache = 1..Len(cache)
  BY DEF NavigatorInv, PromptInv, TypeOK, Entry
<1> QED BY <1>1 DEF NavigatorInv, PromptInv, KeysOnce, KeyedOnce

LEMMA KeyedOnceIsPrimed ==
  ASSUME NavigatorInv'
  PROVE  KeyedOnce(cache')
<1>1. cache' \in Seq(Entry) /\ DOMAIN cache' = 1..Len(cache')
  BY DEF NavigatorInv, PromptInv, TypeOK, Entry
<1> QED BY <1>1 DEF NavigatorInv, PromptInv, KeysOnce, KeyedOnce

(* Every step of the navigator leaves the buffer alone, or uses one entry  *)
(* of it again, or adds one.                                               *)
LEMMA RefreshUses ==
  ASSUME NavigatorInv, NavigatorInv', NEW i \in 1..Len(cache), cache' = FindAndRefresh(i)
  PROVE  LRU!Next
<1>1. KeyedOnce(cache) /\ KeyedOnce(cache') /\ Len(cache) <= CacheSize
  BY KeyedOnceIs, KeyedOnceIsPrimed
<1>2. CacheSize \in Nat /\ Len(cache) \in Nat /\ cache \in Seq(Entry)
  BY <1>1, NavigatorAssumption DEF KeyedOnce
<1> DEFINE w == Without(cache, i)
<1>3. /\ w \in Seq(Entry) /\ Len(w) = Len(cache) - 1
      /\ \A j \in 1..Len(cache) - 1 : w[j] = IF j < i THEN cache[j] ELSE cache[j + 1]
  <2>1. \A j \in 1..Len(cache) - 1 : (IF j < i THEN cache[j] ELSE cache[j + 1]) \in Entry
    BY <1>2
  <2> QED BY <1>2, <2>1 DEF Without
<1>4. cache' = Append(w, cache[i])
  <2>1. Len(w) < CacheSize
    BY <1>1, <1>2, <1>3
  <2> QED BY <2>1 DEF FindAndRefresh, PushBack
<1> HIDE DEF w
<1>5. Moved(cache, i, cache')
  BY <1>2, <1>3, <1>4 DEF Moved
<1>6. /\ Held(cache') = Held(cache)
      /\ Older(cache') = {p \in Older(cache) : p[1] # cache[i].key}
                           \cup ((KeysOf(cache) \ {cache[i].key}) \X {cache[i].key})
  BY <1>1, <1>5, UseStep
<1>7. DOMAIN Held(cache) = KeysOf(cache) /\ cache[i].key \in KeysOf(cache)
  BY <1>1, HeldFacts DEF KeysOf
<1>8. LRU!Use(cache[i].key)
  BY <1>6, <1>7 DEF LRU!Use, LRU!Keys
<1> QED BY <1>6, <1>7, <1>8 DEF LRU!Next

LEMMA PushBackAdds ==
  ASSUME NavigatorInv, NavigatorInv', NEW e \in Entry, CachedAt(e.key) = {},
         cache' = PushBack(cache, e)
  PROVE  LRU!Next
<1>1. KeyedOnce(cache) /\ KeyedOnce(cache') /\ Len(cache) <= CacheSize
  BY KeyedOnceIs, KeyedOnceIsPrimed
<1>2. CacheSize \in Nat \ {0} /\ Len(cache) \in Nat /\ cache \in Seq(Entry)
  BY <1>1, NavigatorAssumption DEF KeyedOnce
<1> DEFINE s == IF Len(cache) < CacheSize THEN 0 ELSE 1
           stay == {cache[j].key : j \in 1 + s..Len(cache)}
<1>3. e.key \notin KeysOf(cache)
  BY <1>2 DEF CachedAt, KeysOf
<1>4. Added(cache, s, e, cache')
  <2>1. CASE Len(cache) < CacheSize
    <3>1. cache' = Append(cache, e)
      BY <2>1 DEF PushBack
    <3>2. s = 0
      BY <2>1
    <3>3. Len(cache') = Len(cache) + 1 /\ cache'[Len(cache')] = e
          /\ \A j \in 1..Len(cache) : cache'[j] = cache[j]
      BY <1>2, <3>1
    <3> HIDE DEF s
    <3> QED BY <1>2, <3>2, <3>3 DEF Added
  <2>2. CASE ~(Len(cache) < CacheSize)
    <3>1. cache' = [j \in 1..Len(cache) |-> IF j < Len(cache) THEN cache[j + 1] ELSE e]
      BY <2>2 DEF PushBack
    <3>2. cache' \in Seq(Entry)
      BY <1>1 DEF KeyedOnce
    <3>3. Len(cache') = Len(cache)
      BY <1>2, <3>1, <3>2
    <3>4. s = 1 /\ Len(cache) >= 1
      BY <1>1, <1>2, <2>2
    <3> HIDE DEF s
    <3>5. \A j \in 1..Len(cache') :
            cache'[j] = IF j = Len(cache') THEN e ELSE cache[j + 1]
      <4> TAKE j \in 1..Len(cache')
      <4>1. j \in 1..Len(cache)
        BY <3>3
      <4>2. cache'[j] = IF j < Len(cache) THEN cache[j + 1] ELSE e
        BY <3>1, <4>1
      <4> QED BY <1>2, <3>3, <4>1, <4>2
    <3>6. Len(cache') = Len(cache) - 1 + 1
      BY <1>2, <3>3
    <3> QED BY <3>4, <3>5, <3>6 DEF Added
  <2> QED BY <2>1, <2>2
<1>5. stay = IF Len(cache) < CacheSize THEN KeysOf(cache) ELSE KeysOf(cache) \ {cache[1].key}
  <2>1. CASE Len(cache) < CacheSize
    BY <2>1 DEF KeysOf
  <2>2. CASE ~(Len(cache) < CacheSize)
    <3>1. Len(cache) >= 1 /\ stay = {cache[j].key : j \in 2..Len(cache)}
      BY <1>1, <1>2, <2>2
    <3>2. \A j \in 1..Len(cache) : cache[j].key # cache[1].key <=> j \in 2..Len(cache)
      BY <1>1, <1>2, <3>1 DEF KeyedOnce
    <3>3. \A j \in 2..Len(cache) : j \in 1..Len(cache)
      BY <1>2
    <3> QED BY <2>2, <3>1, <3>2, <3>3 DEF KeysOf
  <2> QED BY <2>1, <2>2
<1> HIDE DEF s
<1>6. /\ KeysOf(cache') = stay \cup {e.key}
      /\ \A x \in stay : Held(cache')[x] = Held(cache)[x]
      /\ Older(cache') = {p \in Older(cache) : p[1] \in stay /\ p[2] \in stay}
                           \cup (stay \X {e.key})
  BY <1>1, <1>3, <1>4, AddStep
<1>7. /\ DOMAIN Held(cache) = KeysOf(cache) /\ Cardinality(KeysOf(cache)) = Len(cache)
      /\ DOMAIN Held(cache') = KeysOf(cache')
  BY <1>1, HeldFacts
<1> HIDE DEF stay
<1>8. LRU!Keys = KeysOf(cache) /\ LRU!Cardinality(LRU!Keys) = Len(cache)
  <2>1. LRU!Keys = KeysOf(cache)
    BY <1>7 DEF LRU!Keys
  <2>2. LRU!Cardinality(KeysOf(cache)) = Cardinality(KeysOf(cache))
    BY DEF LRU!Cardinality, Cardinality
  <2> QED BY <1>7, <2>1, <2>2
<1>9. (IF LRU!Cardinality(LRU!Keys) < CacheSize THEN LRU!Keys ELSE LRU!Keys \ LRU!Oldest) = stay
  <2>1. CASE Len(cache) < CacheSize
    BY <1>5, <1>7, <1>8, <2>1
  <2>2. CASE ~(Len(cache) < CacheSize)
    <3>1. Len(cache) # 0
      BY <1>2, <2>2
    <3>2. LRU!Oldest = {cache[1].key}
      BY <1>1, <1>7, <3>1, OldestFacts DEF LRU!Oldest, LRU!Keys
    <3> QED BY <1>5, <1>7, <1>8, <2>2, <3>2
  <2> QED BY <2>1, <2>2
<1>10. LRU!Add(e.key)
  BY <1>3, <1>6, <1>7, <1>9, <1>8 DEF LRU!Add
<1> QED BY <1>6, <1>7, <1>10 DEF LRU!Next

(* The buffer of listings is a cache that gives up, only when it is full,  *)
(* what was used least recently, whatever its size.                        *)
THEOREM LeastRecentlyUsedTheorem == Spec => EvictsLeastRecentlyUsed
<1>1. Init => LRU!Init
  <2> SUFFICES ASSUME cache = <<>> PROVE LRU!Init
    BY DEF Init
  <2>1. KeyedOnce(cache) /\ KeysOf(cache) = {} /\ KeysOf(cache) \X KeysOf(cache) = {}
    BY DEF KeyedOnce, KeysOf
  <2>2. Held(cache) = [k \in {} |-> Held(cache)[k]] /\ Older(cache) = {}
    BY <2>1, HeldFacts, OlderFacts
  <2>3. << >> = [k \in {} |-> Held(cache)[k]]
    OBVIOUS
  <2> QED BY <2>2, <2>3 DEF LRU!Init
<1>2. NavigatorInv /\ NavigatorInv' /\ [Next]_vars => [LRU!Next]_<<Held(cache), Older(cache)>>
  <2> SUFFICES ASSUME NavigatorInv, NavigatorInv', [Next]_vars
               PROVE  LRU!Next \/ cache' = cache
    OBVIOUS
  <2>1. ASSUME NEW a, Ask(a)
        PROVE  LRU!Next \/ cache' = cache
    <3>1. CASE \E i \in CachedAt(a.key) : cache' = FindAndRefresh(i)
      <4>1. PICK i \in CachedAt(a.key) : cache' = FindAndRefresh(i)
        BY <3>1
      <4>2. i \in 1..Len(cache)
        BY KeyedOnceIs DEF CachedAt, KeyedOnce
      <4> QED BY <4>1, <4>2, RefreshUses
    <3> QED BY <2>1, <3>1 DEF Ask
  <2>2. CASE EndList
    <3>1. pc = "rows" /\ CachedAt(ask.key) = {}
      BY <2>2 DEF EndList, NavigatorInv, PromptInv, ListingInProgress
    <3>2. CASE HasComponents
      <4> DEFINE e == [key |-> ask.key, rows |-> Result]
      <4>1. e \in Entry /\ e.key = ask.key /\ cache' = PushBack(cache, e)
        BY <2>2, <3>1, <3>2, ResultFits DEF EndList, NavigatorInv
      <4> HIDE DEF e
      <4> QED BY <3>1, <4>1, PushBackAdds
    <3>3. CASE ~HasComponents
      BY <2>2, <3>3 DEF EndList
    <3> QED BY <3>2, <3>3
  <2>3. CASE \E p \in Words \cup {NoPiece} : Tab(p)
    BY <2>1, <2>3 DEF Tab
  <2>4. CASE Command \/ EndOfInput \/ ReadAtEnd
    BY <2>1, <2>4 DEF Command, Cd, Ls, Pwd, Disconnect, Exit, Unknown, EndOfInput, ReadAtEnd
  <2>5. CASE List \/ \E r \in want : ReadRow(r)
    BY <2>5 DEF List, ReadRow
  <2>6. CASE OtherProcess
    BY <2>6 DEF OtherProcess, DelSet, DelLevels, DelFile
  <2>7. CASE UNCHANGED vars
    BY <2>7 DEF vars
  <2> QED BY <2>2, <2>3, <2>4, <2>5, <2>6, <2>7 DEF Next, Listing
<1> QED BY <1>1, <1>2, NavigatorCorrect, PTL DEF Spec, EvictsLeastRecentlyUsed, LRU!Spec
=============================================================================
