----------------------------- MODULE PgProperties -----------------------------
(***************************************************************************)
(* What the PostgreSQL backend guarantees.                                 *)
(***************************************************************************)
EXTENDS PgBackend

CONSTANTS Unused, Gone   \* states of an id in the abstract catalogue

ASSUME CatalogueAssumption ==
  /\ Unused \notin Row /\ Gone \notin Row
  /\ Unused # Gone /\ "kept" \notin {Unused, Gone}

RowsOf(s) == {f \in FileIds : files[f] # NoFile /\ files[f].group = s}

ItemOf(row) == [path |-> row.path, hash |-> row.hash]

(* A set is recorded with all the files of its disc or not at all,         *)
(* wherever its writer or its deletion stopped (scan.cpp:97, the           *)
(* transaction of write_to_db; delete.cpp:67, that of a deletion).         *)
SetsWhole ==
  \A s \in SetIds :
    IF s \in sets
    THEN \E d \in Discs : {ItemOf(files[f]) : f \in RowsOf(s)} = Range(d)
    ELSE RowsOf(s) = {}

(* delete_group_from_db deletes the files its statement sees and then the  *)
(* sets it saw before the question: no file is ever left that would make   *)
(* the foreign key refuse the second statement (delete.cpp:67-71).         *)
ForeignKeyHolds == \A c \in Clients : pc[c] # "foreign_key"

(* Two deletions that were asked for the same sets wait for each other at  *)
(* the files: when one comes to the sets, nobody else holds one of them.   *)
SetsNeverContended ==
  \A c \in Deleters :
    pc[c] = "delete_sets" =>
      \A s \in dele[c].found \cap sets : setLock[s] = Nobody

(* read_from_db reads a file and its set in two transactions               *)
(* (scan.cpp:42, scan.cpp:66): when the set is missing, a deletion of it   *)
(* was committed; nothing else leads to "Missing set" (scan.cpp:70).       *)
MissingSetWasDeleted ==
  \A c \in Scanners :
    pc[c] \in {"read_set", "missing_set"} =>
      \/ scan[c].owner \in sets
      \/ \E d \in Deleters : pc[d] = "done" /\ scan[c].owner \in dele[d].found

(* A tag that was added is there, whatever was changed at the same time,   *)
(* until it is removed (tag.cpp: every statement computes the new tags     *)
(* from the row it has locked).                                            *)
NoTagLost ==
  \A c \in Taggers : \A f \in done[c] :
    pc[c] = "done" /\ edit[c].op = "add" /\ files[f] # NoFile =>
      \/ Range(edit[c].tags) \subseteq files[f].tags
      \/ \E d \in Taggers : /\ pc[d] = "done" /\ f \in done[d]
                            /\ edit[d].op # "add"

Asked(e, f) ==
  /\ e.owner \in {InvalidGroupID, files[f].group}
  /\ IF e.by = "ids" THEN f \in e.ids ELSE files[f].path \in e.paths

(* Tags change when an UPDATE that was asked for that file commits, files  *)
(* disappear when a deletion that was asked for their set does.            *)
OnlyWhatWasAsked ==
  [][\A f \in FileIds :
       files[f] # NoFile /\ files'[f] # files[f] =>
         \E c \in Editors :
           /\ pc'[c] = "done"
           /\ \/ c \in Taggers /\ pc[c] = "lock_rows" /\ Asked(edit[c], f)
              \/ c \in Deleters /\ pc[c] = "commit"
                   /\ files'[f] = NoFile /\ files[f].group \in dele[c].asked]_vars

(* An id is given out and not committed, or never was given out.           *)
Status(id, next, lock) ==
  IF id < next /\ lock[id] = Nobody THEN Gone ELSE Unused

catSets == [s \in SetIds |->
              IF s \in sets THEN "kept" ELSE Status(s, nextSet, setLock)]
catFiles == [f \in FileIds |->
              IF files[f] # NoFile THEN files[f]
              ELSE Status(f, nextFile, fileLock)]

Cat == INSTANCE Catalogue WITH sets <- catSets, files <- catFiles

(* Every operation of the backend takes effect in one step, on whole sets, *)
(* and no id of a set or a file is ever used again.                        *)
ImplementsCatalogue == Cat!CatSpec

(* Every process ends or waits for its user: a deletion that waits for an  *)
(* answer holds no lock, and deadlocks of two statements are resolved.     *)
EveryoneEnds ==
  <>[](\A c \in Clients : Ended(c) \/ pc[c] = "confirm")
-----------------------------------------------------------------------------
(* The inductive invariant.                                                *)

\* Ids that are in use have been handed out.
IdsHandedOut ==
  /\ \A s \in SetIds : s \in sets \/ setLock[s] # Nobody => s < nextSet
  /\ \A f \in FileIds :
       files[f] # NoFile \/ fileLock[f] # Nobody => f < nextFile

\* A scan holds its set and the files it has inserted, seen by nobody else.
ScanHolds(c) ==
  /\ \A s \in SetIds : setLock[s] = c =>
       pc[c] = "insert_file" /\ s = scan[c].group /\ s \notin sets
  /\ \A f \in FileIds : fileLock[f] = c =>
       /\ pc[c] = "insert_file"
       /\ files[f] = NoFile
       /\ draft[f] \in Row
       /\ draft[f].group = scan[c].group /\ draft[f].tags = {}
  /\ pc[c] \in {"look_up", "read_set", "insert_set"} => scan[c].written = 0
  /\ pc[c] = "insert_file" =>
       /\ scan[c].group \in SetIds
       /\ setLock[scan[c].group] = c
       /\ scan[c].written <= Len(scan[c].disc)
       /\ {ItemOf(draft[f]) : f \in {g \in FileIds : fileLock[g] = c}}
            = {scan[c].disc[i] : i \in 1 .. scan[c].written}

\* A statement holds the rows it has written, and these are its own.
EditHolds(c) ==
  /\ \A f \in FileIds : fileLock[f] = c =>
       /\ pc[c] \in {"lock_rows", "delete_sets", "commit"}
       /\ files[f] # NoFile /\ f \in done[c]
       /\ draft[f] = Written(c, files[f])
  /\ IF pc[c] = "lock_rows" THEN \A f \in done[c] : fileLock[f] = c ELSE todo[c] = {}
  /\ \A f \in done[c] \cup todo[c] : f < nextFile /\ fileLock[f] \notin Scanners

TaggerHolds(c) ==
  /\ pc[c] \in {"update", "lock_rows", "done", "failed"}
  /\ \A s \in SetIds : setLock[s] # c
  /\ pc[c] = "lock_rows" =>
       \A f \in todo[c] \cup done[c] : files[f] # NoFile => Matches(edit[c], f)
  /\ pc[c] = "update" => done[c] = {}

DeleterHolds(c) ==
  /\ \A s \in SetIds : setLock[s] = c =>
       pc[c] = "commit" /\ s \in sets /\ s \in dele[c].found
  /\ dele[c].found \subseteq dele[c].asked
  /\ \A s \in dele[c].found : s < nextSet /\ setLock[s] \notin Scanners
  /\ pc[c] \in {"fetch", "confirm", "delete_files"} => done[c] = {}
  /\ \A f \in FileIds : fileLock[f] = c => files[f].group \in dele[c].found
  /\ pc[c] = "lock_rows" =>
       \A f \in FileIds :
         files[f] # NoFile =>
           /\ f \in todo[c] => files[f].group \in dele[c].found
           /\ files[f].group \in dele[c].found => f \in todo[c] \/ fileLock[f] = c
  /\ pc[c] \in {"delete_sets", "commit"} =>
       \A f \in FileIds :
         files[f] # NoFile /\ files[f].group \in dele[c].found => fileLock[f] = c
  /\ pc[c] = "commit" =>
       \A s \in dele[c].found \cap sets : setLock[s] = c

\* TypeOK and all of the above: what every step of the backend preserves.
PgInv ==
  /\ TypeOK
  /\ IdsHandedOut
  /\ \A c \in Scanners : ScanHolds(c)
  /\ \A c \in Editors : EditHolds(c)
  /\ \A c \in Taggers : TaggerHolds(c)
  /\ \A c \in Deleters : DeleterHolds(c)
  /\ SetsWhole
  /\ ForeignKeyHolds
  /\ MissingSetWasDeleted
  /\ NoTagLost
=============================================================================
