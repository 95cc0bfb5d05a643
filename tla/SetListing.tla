----------------------------- MODULE SetListing -----------------------------
(***************************************************************************)
(* The list of records a scan collects, in the order file_record_data_lt   *)
(* gives it, and the views of one directory that DirIterator walks in it.  *)
(*                                                                         *)
(* A record is known by the entry of the disc it describes.  The disc is a *)
(* tree: a record's level is the entry's depth below the search path, its  *)
(* abs_path the place the entry has among all paths in the order of        *)
(* strings.  Levels are only ever compared with one another, so the depth  *)
(* in the whole tree serves for any search path.                           *)
(***************************************************************************)
EXTENDS Integers, SequencesExt

CONSTANTS
  Nodes,     \* the entries of the disc
  Root,      \* its topmost directory
  Dirs,      \* the entries that are directories (is_directory)
  Parent,    \* the directory an entry is in: PathName(path).pop_right()
  Depth,     \* how many directories it is below Root (level)
  Rank       \* its place in the order of paths (abs_path)

ASSUME TreeAssumption ==
  /\ Root \in Nodes
  /\ Dirs \subseteq Nodes
  /\ Parent \in [Nodes \ {Root} -> Dirs]
  /\ Depth \in [Nodes -> Nat]
  /\ Depth[Root] = 0
  /\ \A n \in Nodes \ {Root} : Depth[n] = Depth[Parent[n]] + 1

ASSUME OrderAssumption ==
  /\ Rank \in [Nodes -> Nat]
  /\ \A m, n \in Nodes : Rank[m] = Rank[n] => m = n

IsIn(n, d) == n # Root /\ Parent[n] = d

Children(d) == {n \in Nodes : IsIn(n, d)}

-----------------------------------------------------------------------------
(* The order of records, and the place a new one takes in a sorted list.   *)

Before(l, r) ==
  \/ Depth[l] < Depth[r]
  \/ Depth[l] = Depth[r] /\ l \in Dirs /\ r \notin Dirs
  \/ Depth[l] = Depth[r] /\ (l \in Dirs <=> r \in Dirs) /\ Rank[l] < Rank[r]

\* Mutated: the search compares levels and paths only.
LowerBoundByPath(list, n) ==
  Min({i \in 1 .. Len(list) + 1 :
         i <= Len(list) =>
           ~ (Depth[list[i]] < Depth[n] \/ (Depth[list[i]] = Depth[n] /\ Rank[list[i]] < Rank[n]))})

\* Mutated: it compares levels and kinds, not paths.
LowerBoundByKind(list, n) ==
  Min({i \in 1 .. Len(list) + 1 :
         i <= Len(list) =>
           ~ (Depth[list[i]] < Depth[n] \/
              (Depth[list[i]] = Depth[n] /\ list[i] \in Dirs /\ n \notin Dirs))})

LowerBound(list, n) ==
  Min({i \in 1 .. Len(list) + 1 : i <= Len(list) => ~ Before(list[i], n)})

Inserted(list, n) == InsertAt(list, LowerBound(list, n), n)

-----------------------------------------------------------------------------
(* Positions 1 .. Len(list) are records, Len(list) + 1 is the end.  A view *)
(* of directory d made at position `from' begins at ViewBegin and goes on  *)
(* with ViewNext until AtEnd.                                              *)

ViewBegin(list, d, from) ==
  Min({i \in from .. Len(list) + 1 :
         i <= Len(list) => Depth[list[i]] # Depth[d] /\ IsIn(list[i], d)})

\* Mutated: the iterator does not skip records of other directories.
NextOfLevel(list, d, i) == i + 1

ViewNext(list, d, i) ==
  Min({j \in i + 1 .. Len(list) + 1 :
         j <= Len(list) => Depth[list[j]] # Depth[d] + 1 \/ IsIn(list[j], d)})

AtEnd(list, d, i) == i <= Len(list) => Depth[list[i]] # Depth[d] + 1

\* Mutated: the end of the view is one past the end of the list.
FirstFileOrPastEnd(list, d, from) ==
  Min({i \in ViewBegin(list, d, from) .. Len(list) + 2 :
         i <= Len(list) + 1 => i <= Len(list) /\ IsIn(list[i], d) /\ list[i] \notin Dirs})

(* first_file: the first record of the view that is no directory, or the   *)
(* end of the list.                                                        *)
FirstFile(list, d, from) ==
  LET first == Min({i \in ViewBegin(list, d, from) .. Len(list) + 1 :
                      \/ AtEnd(list, d, i)
                      \/ IsIn(list[i], d) /\ list[i] \notin Dirs})
  IN  IF AtEnd(list, d, first) THEN Len(list) + 1 ELSE first

\* Mutated: everything of the level below is taken for a child.
LevelBelow(list, i) ==
  {j \in DOMAIN list : Depth[list[j]] = Depth[list[i]] + 1}

(* The positions a walk through the view of the record at position i       *)
(* yields.                                                                 *)
InView(list, i) ==
  LET begin == ViewBegin(list, list[i], i)
      end == Min({j \in begin .. Len(list) + 1 : AtEnd(list, list[i], j)})
  IN  {j \in begin .. end - 1 : IsIn(list[j], list[i])}

(* flattened_listing and count_listing_items_recursive descend into the    *)
(* view of every directory they meet.                                      *)
Flattened(list) ==
  LET below[i \in DOMAIN list] ==
        InView(list, i) \cup
          UNION {below[j] : j \in {k \in InView(list, i) : list[k] \in Dirs}}
  IN  below[1]

CountRecursive(list) ==
  LET count[i \in DOMAIN list] ==
        MapThenSumSet(LAMBDA j : IF list[j] \in Dirs THEN 1 + count[j] ELSE 1,
                      InView(list, i))
  IN  count[1]
=============================================================================
