------------------------- MODULE NavigatorProperties -------------------------
(***************************************************************************)
(* What the user of dindexer navigate may rely on.                         *)
(***************************************************************************)
EXTENDS Navigator, FiniteSets

Paths == {r.path : r \in Catalogue}
RowSet == {<<s>> : s \in SetIds} \cup Paths \cup {<<n>> : n \in Names}

TypeOK ==
  /\ records \subseteq SetIds
  /\ levels \subseteq SetIds
  /\ files \subseteq Catalogue
  /\ connected \in BOOLEAN
  /\ dir \in Seq(Names)
  /\ cache \in Seq([key : Seq(Names), rows : SUBSET RowSet])
  /\ prefix \in Words \cup {NoPiece}
  /\ matches \in SUBSET RowSet
  /\ ask \in [tab : BOOLEAN, op : {"ls", "complete"}, key : Seq(Names), at : Nat]
  /\ want \subseteq Catalogue \cup {SetRecord(s) : s \in SetIds}
  /\ rows \in SUBSET RowSet
  /\ shown \in [dir : Seq(Names), rows : SUBSET RowSet]
  /\ closed \in BOOLEAN
  /\ pc \in {"prompt", "list", "rows", "ended"} \cup Failures

-----------------------------------------------------------------------------
(* find_and_refresh_in_cache takes the first entry with its key and asserts *)
(* that the buffer has room afterwards: a key is cached once, and no more   *)
(* than g_max_cached_lists are, whatever is listed and completed.           *)
KeysOnce ==
  /\ Len(cache) <= CacheSize
  /\ \A i, j \in DOMAIN cache : cache[i].key = cache[j].key => i = j

(* Whatever the path between the sets a user typed, an answer holds only    *)
(* names of the set it was asked of: the cache key carries the set, and the *)
(* set is looked up in the path that is listed, not in the current one.     *)
PathsOf(s) == {r.path : r \in {f \in Catalogue : f.set = s}}

RowsFit(e) ==
  e.key # <<>> =>
    \A x \in e.rows :
      \E r \in Catalogue :
        /\ r.set = e.key[1]
        /\ x = r.path \/ \E k \in DOMAIN r.path : x = <<r.path[k]>>

RowsOfTheirSet == \A i \in DOMAIN cache : RowsFit(cache[i])

(* The matches readline offers belong to the word before the cursor and the *)
(* directory the line is typed in, although they are remembered between two *)
(* presses of TAB: they never survive a cd.                                 *)
MatchesOfThisDirectory ==
  pc = "prompt" /\ prefix # NoPiece =>
    LET newest == Last(cache) IN
    /\ newest.key = PushPiece(dir, prefix)
    /\ newest.rows = matches

(* A deletion removes the record of the set, then its levels, then its      *)
(* files, and a listing reads the levels, then the files: one that ends     *)
(* while the set is still recorded has missed none of the directory.        *)
Children(d) ==
  {p \in Paths \ {<<>>} : Front(p) = FilePath(d) /\ [set |-> d[1], path |-> p] \in Catalogue}

ListingOfLiveSetComplete ==
  [][/\ pc = "rows" /\ want = {}
     /\ ask.op = "ls" /\ ask.key # <<>>
     /\ ask.key[1] \in records
     => Children(ask.key) \subseteq rows]_vars

-----------------------------------------------------------------------------
(* The inductive invariant of the proofs: the properties above, and, while  *)
(* a listing is made, that its key is not cached, that it is the key the    *)
(* user asked for, and that its replies come from the set it names.         *)
ListingInProgress ==
  pc \in {"list", "rows"} =>
    /\ CachedAt(ask.key) = {}
    /\ IF ask.tab THEN ask.key = PushPiece(dir, prefix) ELSE prefix = NoPiece
    /\ ask.key # <<>> =>
         /\ \A r \in want : r \in Catalogue /\ r.set = ask.key[1]
         /\ rows \subseteq PathsOf(ask.key[1])

PromptInv ==
  /\ TypeOK
  /\ KeysOnce
  /\ RowsOfTheirSet
  /\ MatchesOfThisDirectory
  /\ ListingInProgress

(* The order of a deletion, as it is seen between any two commands of it,   *)
(* and what a listing of a set still recorded has found of it so far.       *)
LiveListing ==
  /\ records \subseteq levels
  /\ \A f \in Catalogue : f.set \in levels => f \in files
  /\ pc = "rows" /\ ask.op = "ls" /\ ask.key # <<>> /\ ask.key[1] \in records =>
       \A p \in Children(ask.key) : p \in rows \/ [set |-> ask.key[1], path |-> p] \in want

NavigatorInv == PromptInv /\ LiveListing

-----------------------------------------------------------------------------
(* The buffer of listings gives up the listing used least recently, and     *)
(* only when it is full.                                                    *)
Held(c) ==
  [k \in {c[i].key : i \in DOMAIN c} |-> c[CHOOSE i \in DOMAIN c : c[i].key = k].rows]

Older(c) ==
  {<<c[p[1]].key, c[p[2]].key>> : p \in {q \in (DOMAIN c) \X (DOMAIN c) : q[1] < q[2]}}

LRU == INSTANCE LeastRecentlyUsed WITH
  Capacity <- CacheSize, held <- Held(cache), older <- Older(cache)

EvictsLeastRecentlyUsed == LRU!Spec
=============================================================================
