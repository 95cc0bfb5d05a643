--------------------------- MODULE RedisProperties ---------------------------
(***************************************************************************)
(* What the Redis backend must guarantee while scans, tag edits and        *)
(* deletions of several users run side by side, may die at any step, and   *)
(* may flush each other's scripts.                                         *)
(***************************************************************************)
EXTENDS RedisBackend

\* The sets a deletion was confirmed for (or is being confirmed for) .
Condemned == {r.group : r \in UNION {dele[d].ranges : d \in Deleters}}

ScanRange(c) == IdRange(scan[c].base, DataSize(c))

-----------------------------------------------------------------------------
(* A file names the set whose id range holds it, and no other: the two     *)
(* HINCRBYs of write_files are separate commands, so ids of sets and ids   *)
(* of files are handed out in different orders to concurrent scans.        *)
FileOwnership ==
  \A f \in FileIds, g \in SetIds :
    FileExists(f) /\ SetExists(g) =>
      (files[f].group = g <=> f \in FilesOf(sets[g]))

(* The tag list in a file's key and the membership of the file in the      *)
(* tag:<t> keys say the same of every file that exists, whatever edits,    *)
(* deletions and crashes interleave (tag_if_in_set, dele_tag_if_in_set).   *)
TagIndexExact ==
  \A f \in FileIds, t \in Tags :
    FileExists(f) => (t \in files[f].tags <=> f \in tags[t])

(* search_file_by_hash asserts that the item it read has the hash it asked *)
(* for: true of every id of a hash key whose file still exists.            *)
HashIndexSound ==
  \A h \in Hashes : \A f \in hashes[h] :
    FileExists(f) => files[f].hash = h

(* A file can be found by its hash as soon as its scan has sent SADD and   *)
(* for as long as nobody asked for its set to be deleted: deleting a set   *)
(* never takes the files of another one out of the hash index, even those  *)
(* with the same contents.                                                 *)
FilesFoundByHash ==
  \A f \in FileIds :
    FileExists(f) =>
      \/ f \in hashes[files[f].hash]
      \/ files[f].group \in Condemned
      \/ \E c \in Scanners : pc[c] = "sadd_hash" /\ LastWritten(c) = f

(* write_files leaves a complete set: when a scan that wrote is done and   *)
(* no deletion has begun to delete, its record, every file, the hash index *)
(* and the levels are all there.                                           *)
ScanComplete ==
  \A c \in Scanners :
    LET g == scan[c].group IN
    /\ pc[c] = "done"
    /\ g # InvalidGroupID
    /\ \A d \in Deleters : dele[d].cur = NoRange
    => /\ sets[g] = [base |-> scan[c].base, count |-> DataSize(c)]
       /\ levels[g] = ScanRange(c)
       /\ \A f \in ScanRange(c) :
            LET h == scan[c].disc[f - scan[c].base + 1] IN
            files[f].group = g /\ files[f].hash = h /\ f \in hashes[h]

(* The record of a set that a finished deletion covered never comes back,  *)
(* whatever scan was still writing that set.                               *)
DeletedSetStaysGone ==
  \A d \in Deleters :
    pc[d] = "done" => \A r \in dele[d].ranges : ~ SetExists(r.group)

(* EVALSHA fails only while another client is connecting (or died then):   *)
(* every client loads the same scripts, so the SCRIPT FLUSH of one takes    *)
(* them from all the others, and its own SCRIPT LOADs give them back.       *)
StillLoads(d, s) ==
  \/ pc[d] = "load_tag"
  \/ pc[d] = "load_dele" /\ s # "tag_if_in_set"
  \/ pc[d] = "load_hash" /\ s = "dele_hash"

ScriptsLostOnlyWhileConnecting ==
  \A s \in ScriptNames \ scripts, c \in Clients :
    pc[c] # "connect" => \E d \in Clients : StillLoads(d, s)

(* Tags change only by a process given the file and the set owning it: an  *)
(* edit limited to a set, and the clean-up of a deletion, leave the files  *)
(* of every other set alone.                                               *)
TagsChangeOnlyInOwnSet ==
  [][\A f \in FileIds :
       FileExists(f) /\ FileExists(f)' /\ files'[f].tags # files[f].tags =>
         \E c \in Editors : /\ pc[c] = "run_tags"
                            /\ f \in edit[c].target
                            /\ files[f].group = edit[c].owner]_vars

-----------------------------------------------------------------------------
(* Liveness *)

(* A confirmed deletion removes the record of the set, unless its process  *)
(* reports an error; other clients may die.                                *)
DeleteTakesEffect ==
  \A d \in Deleters \cap Survivors, g \in SetIds :
    (pc[d] = "get_tags" /\ \E r \in dele[d].ranges : r.group = g)
      ~> (~ SetExists(g) \/ pc[d] = "failed")

-----------------------------------------------------------------------------
(* A claim of the documentation that the code breaks *)

(* README.md:77: `dindexer delete 3 28` "will delete sets 3 and 28": files *)
(* of sets that no deletion names are not removed.                         *)
DeleteOnlyNamedSets ==
  [][\A f \in FileIds :
       FileExists(f) /\ ~ FileExists(f)' => files[f].group \in Condemned]_vars
=============================================================================
