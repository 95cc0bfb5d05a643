----------------------------- MODULE RedisBackend -----------------------------
(***************************************************************************)
(* The processes that use the Redis backend at the same time: `dindexer    *)
(* scan`, `dindexer tag` and `dindexer delete`, each a process that        *)
(* connects, runs one operation and ends.  A step is one command or one    *)
(* script on the server with the client code that leads to the next one: a *)
(* batch is a pipeline, not a transaction, so commands of other clients    *)
(* run between the commands of a batch.  A client that dies sends nothing  *)
(* more: Spec lets every client stop for good at any step, and only the    *)
(* Survivors are assumed to go on.                                         *)
(***************************************************************************)
EXTENDS RedisStore

CONSTANTS
  Scanners, Taggers, Deleters,  \* processes
  Discs,   \* what a scan finds: the hashes of its items, the root first
  Survivors,  \* processes that do not die
  Owners   \* values of --set the taggers are given, InvalidGroupID without it

Editors == Taggers \cup Deleters
Clients == Scanners \cup Editors

ASSUME ClientAssumption ==
  /\ Scanners \cap Taggers = {}
  /\ Scanners \cap Deleters = {}
  /\ Taggers \cap Deleters = {}
  /\ Discs \subseteq Seq(Hashes) \ {<<>>}
  /\ Survivors \subseteq Clients
  /\ Owners \subseteq 0 .. MaxSets

VARIABLES
  pc,       \* the command each client sends next
  err,      \* some reply of the client's current batch was an error
  scan,     \* locals of search_file_by_hash and write_files
  edit,     \* locals of delete_all_tags and run_id_based_script
  dele      \* locals of delete_group_from_db

vars == <<store, pc, err, scan, edit, dele>>

Modes == {"add", "dele", "clear"}

\* A set to delete, with its first file id and its item count.
IDRange == [group : SetIds, base : FileIds, count : FileIds]
NoRange == [group |-> InvalidGroupID, base |-> 0, count |-> 0]
FilesOf(r) == IdRange(r.base, r.count)

Labels ==
  { "connect", "load_tag", "load_dele", "load_hash",
    "srandmember", "hscan_file", "hscan_set", "incr_set", "incr_files",
    "hmset_set", "hmset_file", "sadd_hash", "zadd_level",
    "start", "confirm", "get_tags", "run_tags",
    "get_hashes", "run_hashes", "del_levels", "del_files",
    "done", "failed" }

ScanLocals == [disc    : Discs,
               hit     : 0 .. MaxFiles,   \* the file SRANDMEMBER returned
               owner   : 0 .. MaxSets,    \* the group_id read from it
               group   : 0 .. MaxSets,
               base    : 0 .. MaxFiles,
               written : 0 .. MaxFiles]   \* file records sent

EditLocals == [mode   : Modes,
               owner  : 0 .. MaxSets,
               target : SUBSET FileIds,
               reads  : SUBSET FileIds,   \* HGETs still to be answered
               seen   : SUBSET Tags,
               work   : SUBSET (FileIds \X Tags)]  \* scripts still to run

DeleLocals == [ask    : SUBSET SetIds,    \* ids still to look up
               ranges : SUBSET IDRange,
               left   : SUBSET IDRange,   \* sets the current loop has ahead
               cur    : IDRange \cup {NoRange},
               calls  : SUBSET (FileIds \X (Hashes \cup {NoHash})),
               dels   : Seq(SUBSET Nat)]  \* DELs still to run

\* Every variable of the store and of the clients keeps its type.
TypeOK ==
  /\ StoreTypeOK
  /\ pc \in [Clients -> Labels]
  /\ err \in [Clients -> BOOLEAN]
  /\ scan \in [Scanners -> ScanLocals]
  /\ edit \in [Editors -> EditLocals]
  /\ dele \in [Deleters -> DeleLocals]

Init ==
  /\ StoreInit
  /\ pc = [c \in Clients |-> "connect"]
  /\ err = [c \in Clients |-> FALSE]
  /\ \E disc \in [Scanners -> Discs] :
       scan = [c \in Scanners |->
                 [disc |-> disc[c], hit |-> 0, owner |-> InvalidGroupID,
                  group |-> InvalidGroupID, base |-> 0, written |-> 0]]
  /\ edit = [c \in Editors |->
               [mode |-> "clear", owner |-> InvalidGroupID, target |-> {},
                reads |-> {}, seen |-> {}, work |-> {}]]
  /\ dele = [c \in Deleters |->
               [ask |-> {}, ranges |-> {}, left |-> {}, cur |-> NoRange,
                calls |-> {}, dels |-> <<>>]]

-----------------------------------------------------------------------------
At(c, l) == pc[c] = l

Goto(c, l) == pc' = [pc EXCEPT ![c] = l]

Ended(c) == pc[c] \in {"done", "failed"}

-----------------------------------------------------------------------------
(* BackendRedis::connect: the batch ends with SCRIPT FLUSH, which empties  *)
(* the script cache of the SERVER, then the three scripts are loaded.      *)

Connect(c) ==
  /\ At(c, "connect")
  /\ scripts' = {}
  /\ Goto(c, "load_tag")
  /\ UNCHANGED <<indices, sets, files, hashes, levels, tags>>
  /\ UNCHANGED <<err, scan, edit, dele>>

LoadScript(c, from, script, to) ==
  /\ At(c, from)
  /\ scripts' = scripts \cup {script}
  /\ Goto(c, to)
  /\ UNCHANGED <<indices, sets, files, hashes, levels, tags>>
  /\ UNCHANGED <<err, scan, edit, dele>>

\* Mutant: dele_hash is never loaded.
LoadScriptsNoHash(c) ==
  \/ LoadScript(c, "load_tag", "tag_if_in_set", "load_dele")
  \/ LoadScript(c, "load_dele", "dele_tag_if_in_set",
                IF c \in Scanners THEN "srandmember" ELSE "start")

LoadScripts(c) ==
  \/ LoadScript(c, "load_tag", "tag_if_in_set", "load_dele")
  \/ LoadScript(c, "load_dele", "dele_tag_if_in_set", "load_hash")
  \/ LoadScript(c, "load_hash", "dele_hash",
                IF c \in Scanners THEN "srandmember" ELSE "start")

-----------------------------------------------------------------------------
(* scan: add_to_db looks the root's hash up, then write_files saves all.   *)

\* search_file_by_hash: a random id out of the hash's index.
SRandMember(c) ==
  /\ At(c, "srandmember")
  /\ LET ids == hashes[Head(scan[c].disc)] IN
       \/ /\ ids = {}
          /\ Goto(c, "incr_set")
          /\ UNCHANGED scan
       \/ \E f \in ids : /\ scan' = [scan EXCEPT ![c].hit = f]
                         /\ Goto(c, "hscan_file")
  /\ UNCHANGED <<store, err, edit, dele>>

\* search_file_by_hash: the file's key, gone or not, gives the owner's id.
HScanFile(c) ==
  /\ At(c, "hscan_file")
  /\ scan' = [scan EXCEPT ![c].owner = files[scan[c].hit].group]
  /\ Goto(c, "hscan_set")
  /\ UNCHANGED <<store, err, edit, dele>>

\* search_file_by_hash: an empty set key counts as "not in the db".
HScanSet(c) ==
  /\ At(c, "hscan_set")
  /\ LET g == scan[c].owner IN
       IF g # InvalidGroupID /\ SetExists(g) THEN Goto(c, "done")
                                             ELSE Goto(c, "incr_set")
  /\ UNCHANGED <<store, err, scan, edit, dele>>

\* write_files: HINCRBY indices set 1.
IncrSet(c) ==
  /\ At(c, "incr_set")
  /\ indices.set < MaxSets
  /\ indices' = [indices EXCEPT !.set = @ + 1]
  /\ scan' = [scan EXCEPT ![c].group = indices.set + 1]
  /\ Goto(c, "incr_files")
  /\ UNCHANGED <<sets, files, hashes, levels, tags, scripts>>
  /\ UNCHANGED <<err, edit, dele>>

DataSize(c) == Len(scan[c].disc)

\* Mutant: the first id is off by one.
IncrFilesOffByOne(c) ==
  /\ At(c, "incr_files")
  /\ LET file_id == indices.files + DataSize(c) IN
       /\ file_id <= MaxFiles
       /\ indices' = [indices EXCEPT !.files = file_id]
       /\ scan' = [scan EXCEPT ![c].base = file_id - DataSize(c)]
  /\ Goto(c, "hmset_set")
  /\ UNCHANGED <<sets, files, hashes, levels, tags, scripts>>
  /\ UNCHANGED <<err, edit, dele>>

\* write_files: HINCRBY indices files n; the ids end at the reply.
IncrFiles(c) ==
  /\ At(c, "incr_files")
  /\ LET file_id == indices.files + DataSize(c) IN
       /\ file_id <= MaxFiles
       /\ indices' = [indices EXCEPT !.files = file_id]
       /\ scan' = [scan EXCEPT ![c].base = file_id - DataSize(c) + 1]
  /\ Goto(c, "hmset_set")
  /\ UNCHANGED <<sets, files, hashes, levels, tags, scripts>>
  /\ UNCHANGED <<err, edit, dele>>

\* write_files: the first command of the batch, the record of the set.
HMSetSet(c) ==
  /\ At(c, "hmset_set")
  /\ sets' = [sets EXCEPT ![scan[c].group] =
                [base |-> scan[c].base, count |-> DataSize(c)]]
  /\ Goto(c, "hmset_file")
  /\ UNCHANGED <<indices, files, hashes, levels, tags, scripts>>
  /\ UNCHANGED <<err, scan, edit, dele>>

\* Mutant: the owner is the last set id handed out, not the one of this scan.
WriteFileLastSet(c) ==
  /\ At(c, "hmset_file")
  /\ LET n == scan[c].written IN
       /\ HMSetFile(scan[c].base + n, indices.set, scan[c].disc[n + 1])
       /\ scan' = [scan EXCEPT ![c].written = n + 1]
  /\ Goto(c, "sadd_hash")
  /\ UNCHANGED <<indices, sets, hashes, levels, tags, scripts>>
  /\ UNCHANGED <<err, edit, dele>>

\* write_files: the record of the next file ...
WriteFile(c) ==
  /\ At(c, "hmset_file")
  /\ LET n == scan[c].written IN
       /\ HMSetFile(scan[c].base + n, scan[c].group, scan[c].disc[n + 1])
       /\ scan' = [scan EXCEPT ![c].written = n + 1]
  /\ Goto(c, "sadd_hash")
  /\ UNCHANGED <<indices, sets, hashes, levels, tags, scripts>>
  /\ UNCHANGED <<err, edit, dele>>

LastWritten(c) == scan[c].base + scan[c].written - 1

\* Mutant: every file is filed under the hash of the root.
SAddHashOfRoot(c) ==
  /\ At(c, "sadd_hash")
  /\ hashes' = [hashes EXCEPT ![Head(scan[c].disc)] = @ \cup {LastWritten(c)}]
  /\ Goto(c, "zadd_level")
  /\ UNCHANGED <<indices, sets, files, levels, tags, scripts>>
  /\ UNCHANGED <<err, scan, edit, dele>>

\* ... its id under its hash ...
SAddHash(c) ==
  /\ At(c, "sadd_hash")
  /\ LET h == scan[c].disc[scan[c].written] IN
       hashes' = [hashes EXCEPT ![h] = @ \cup {LastWritten(c)}]
  /\ Goto(c, "zadd_level")
  /\ UNCHANGED <<indices, sets, files, levels, tags, scripts>>
  /\ UNCHANGED <<err, scan, edit, dele>>

\* Mutant: the loop ends one file early.
ZAddLevelShort(c) ==
  /\ At(c, "zadd_level")
  /\ levels' = [levels EXCEPT ![scan[c].group] = @ \cup {LastWritten(c)}]
  /\ Goto(c, IF scan[c].written + 1 >= DataSize(c) THEN "done" ELSE "hmset_file")
  /\ UNCHANGED <<indices, sets, files, hashes, tags, scripts>>
  /\ UNCHANGED <<err, scan, edit, dele>>

\* ... and its key in the levels of the set; the scan ends with the last one.
ZAddLevel(c) ==
  /\ At(c, "zadd_level")
  /\ levels' = [levels EXCEPT ![scan[c].group] = @ \cup {LastWritten(c)}]
  /\ Goto(c, IF scan[c].written = DataSize(c) THEN "done" ELSE "hmset_file")
  /\ UNCHANGED <<indices, sets, files, hashes, tags, scripts>>
  /\ UNCHANGED <<err, scan, edit, dele>>

-----------------------------------------------------------------------------
(* tag: tag_files, delete_tags, delete_all_tags on a list of file ids.     *)

\* A deletion names the files of a set in order, a user in any order.
Turn(c, f, ids) == c \in Deleters => \A k \in ids : f <= k

StartTag(c) ==
  /\ At(c, "start")
  /\ \E ids \in SUBSET FileIds \ {{}}, g \in Owners :
       \/ \E m \in {"add", "dele"}, ts \in SUBSET Tags \ {{}} :
            /\ edit' = [edit EXCEPT ![c] =
                          [mode |-> m, owner |-> g, target |-> ids,
                           reads |-> {}, seen |-> ts, work |-> ids \X ts]]
            /\ Goto(c, "run_tags")
       \/ /\ edit' = [edit EXCEPT ![c] =
                        [mode |-> "clear", owner |-> g, target |-> ids,
                         reads |-> ids, seen |-> {}, work |-> {}]]
          /\ Goto(c, "get_tags")
  /\ UNCHANGED <<store, err, scan, dele>>

\* delete_all_tags: HGET tags of every file; the tags seen make the calls.
GetTags(c) ==
  /\ At(c, "get_tags")
  /\ \E f \in edit[c].reads :
       LET seen == edit[c].seen \cup files[f].tags
           rest == edit[c].reads \ {f}
       IN  /\ Turn(c, f, rest)
           /\ edit' = [edit EXCEPT ![c].reads = rest,
                                   ![c].seen = seen,
                                   ![c].work = IF rest = {}
                                                 THEN edit[c].target \X seen
                                                 ELSE @]
           /\ Goto(c, IF rest = {} THEN "run_tags" ELSE "get_tags")
  /\ UNCHANGED <<store, err, scan, dele>>

TagScript(c) == IF edit[c].mode = "add" THEN "tag_if_in_set"
                                        ELSE "dele_tag_if_in_set"

\* run_id_based_script: one EVALSHA per file and tag.  It fails alone when
\* the script cache was flushed, the others of the batch still run.
RunTagScript(c) ==
  /\ At(c, "run_tags")
  /\ \E p \in edit[c].work :
       /\ Turn(c, p[1], {q[1] : q \in edit[c].work})
       /\ edit' = [edit EXCEPT ![c].work = @ \ {p}]
       /\ \/ /\ TagScript(c) \in scripts
             /\ IF edit[c].mode = "add"
                  THEN TagIfInSet(p[2], p[1], edit[c].owner)
                  ELSE DeleTagIfInSet(p[2], p[1], edit[c].owner)
             /\ UNCHANGED err
          \/ /\ TagScript(c) \notin scripts
             /\ err' = [err EXCEPT ![c] = TRUE]
             /\ UNCHANGED <<files, tags>>
  /\ UNCHANGED <<indices, sets, hashes, levels, scripts>>
  /\ UNCHANGED <<pc, scan, dele>>

\* throw_if_failed closes the batch of a tag process.
EndTag(c) ==
  /\ At(c, "run_tags")
  /\ edit[c].work = {}
  /\ Goto(c, IF err[c] THEN "failed" ELSE "done")
  /\ UNCHANGED <<store, err, scan, edit, dele>>

-----------------------------------------------------------------------------
(* delete: delete_group_from_db.                                           *)

StartDelete(c) ==
  /\ At(c, "start")
  /\ \E ids \in SUBSET SetIds \ {{}} : dele' = [dele EXCEPT ![c].ask = ids]
  /\ Goto(c, "confirm")
  /\ UNCHANGED <<store, err, scan, edit>>

\* confirm_dele: HMGET of every id, the sets that exist are remembered.
ConfirmRead(c) ==
  /\ At(c, "confirm")
  /\ \E g \in dele[c].ask :
       LET found == IF SetExists(g)
                      THEN {[group |-> g, base  |-> sets[g].base,
                                          count |-> sets[g].count]}
                      ELSE {}
       IN  dele' = [dele EXCEPT ![c].ask = @ \ {g},
                                ![c].ranges = @ \cup found]
  /\ UNCHANGED <<store, pc, err, scan, edit>>

\* The user refuses, or nothing was found: nothing is deleted.
Refuse(c) ==
  /\ At(c, "confirm")
  /\ dele[c].ask = {}
  /\ dele' = [dele EXCEPT ![c].ranges = {}]
  /\ Goto(c, "done")
  /\ UNCHANGED <<store, err, scan, edit>>

\* delete_all_tags(ids, set_id) for the files of one of the sets.
StartUntag(c, r) ==
  /\ edit' = [edit EXCEPT ![c] =
                [mode |-> "clear", owner |-> r.group, target |-> FilesOf(r),
                 reads |-> FilesOf(r), seen |-> {}, work |-> {}]]
  /\ Goto(c, "get_tags")

Confirm(c) ==
  /\ At(c, "confirm")
  /\ dele[c].ask = {}
  /\ \E r \in dele[c].ranges :
       /\ StartUntag(c, r)
       /\ dele' = [dele EXCEPT ![c].left = dele[c].ranges \ {r}]
  /\ UNCHANGED <<store, err, scan>>

\* Mutant: the second loop starts with no set ahead.
NextUntagNoReset(c) ==
  /\ At(c, "run_tags")
  /\ edit[c].work = {}
  /\ \/ /\ err[c]
        /\ Goto(c, "failed")
        /\ UNCHANGED <<edit, dele>>
     \/ /\ ~ err[c]
        /\ \E r \in dele[c].left :
             /\ StartUntag(c, r)
             /\ dele' = [dele EXCEPT ![c].left = @ \ {r}]
     \/ /\ ~ err[c]
        /\ dele[c].left = {}
        /\ Goto(c, "del_files")
        /\ UNCHANGED <<edit, dele>>
  /\ UNCHANGED <<store, err, scan>>

\* First loop: the tags of the next set.  throw_if_failed ends the process
\* before anything else is deleted.
NextUntag(c) ==
  /\ At(c, "run_tags")
  /\ edit[c].work = {}
  /\ \/ /\ err[c]
        /\ Goto(c, "failed")
        /\ UNCHANGED <<edit, dele>>
     \/ /\ ~ err[c]
        /\ \E r \in dele[c].left :
             /\ StartUntag(c, r)
             /\ dele' = [dele EXCEPT ![c].left = @ \ {r}]
     \/ /\ ~ err[c]
        /\ dele[c].left = {}
        /\ dele' = [dele EXCEPT ![c].left = dele[c].ranges]
        /\ Goto(c, "del_files")
        /\ UNCHANGED edit
  /\ UNCHANGED <<store, err, scan>>

\* Mutant: the second loop does not advance.
NextSetSame(c) ==
  /\ At(c, "del_files")
  /\ dele[c].dels = <<>>
  /\ \E r \in dele[c].left :
       /\ dele' = [dele EXCEPT ![c].cur = r]
       /\ edit' = [edit EXCEPT ![c].reads = FilesOf(r)]
  /\ Goto(c, "get_hashes")
  /\ UNCHANGED <<store, err, scan>>

\* Second loop: the DELs of the set before have all been sent.
NextSet(c) ==
  /\ At(c, "del_files")
  /\ dele[c].dels = <<>>
  /\ \E r \in dele[c].left :
       /\ dele' = [dele EXCEPT ![c].left = @ \ {r}, ![c].cur = r]
       /\ edit' = [edit EXCEPT ![c].reads = FilesOf(r)]
  /\ Goto(c, "get_hashes")
  /\ UNCHANGED <<store, err, scan>>

GetHash(c) ==
  /\ At(c, "get_hashes")
  /\ \E f \in edit[c].reads :
       LET rest == edit[c].reads \ {f} IN
         /\ \A k \in rest : f < k
         /\ edit' = [edit EXCEPT ![c].reads = rest]
         /\ dele' = [dele EXCEPT ![c].calls = @ \cup {<<f, files[f].hash>>}]
         /\ Goto(c, IF rest = {} THEN "run_hashes" ELSE "get_hashes")
  /\ UNCHANGED <<store, err, scan>>

\* dele_hash for every hash read; a missing script fails this reply only.
RunHash(c) ==
  /\ At(c, "run_hashes")
  /\ \E p \in dele[c].calls :
       /\ \A q \in dele[c].calls : p[1] <= q[1]
       /\ dele' = [dele EXCEPT ![c].calls = @ \ {p}]
       /\ \/ /\ "dele_hash" \in scripts
             /\ DeleHash(p[2], FilesOf(dele[c].cur))
             /\ UNCHANGED err
          \/ /\ "dele_hash" \notin scripts
             /\ err' = [err EXCEPT ![c] = TRUE]
             /\ UNCHANGED hashes
  /\ UNCHANGED <<indices, sets, files, levels, tags, scripts>>
  /\ UNCHANGED <<pc, scan, edit>>

\* Mutant: the record of the set stays.
DelSetForgotten(c) ==
  /\ At(c, "run_hashes")
  /\ dele[c].calls = {}
  /\ Goto(c, "del_levels")
  /\ UNCHANGED <<store, err, scan, edit, dele>>

DelSet(c) ==
  /\ At(c, "run_hashes")
  /\ dele[c].calls = {}
  /\ sets' = [sets EXCEPT ![dele[c].cur.group] = NoSet]
  /\ Goto(c, "del_levels")
  /\ UNCHANGED <<indices, files, hashes, levels, tags, scripts>>
  /\ UNCHANGED <<err, scan, edit, dele>>

DelLevels(c) ==
  /\ At(c, "del_levels")
  /\ LET r == dele[c].cur IN
       /\ levels' = [levels EXCEPT ![r.group] = {}]
       /\ dele' = [dele EXCEPT ![c].dels = ChunkedRun(r.base, r.count)]
  /\ Goto(c, "del_files")
  /\ UNCHANGED <<indices, sets, files, hashes, tags, scripts>>
  /\ UNCHANGED <<err, scan, edit>>

DelFiles(c) ==
  /\ At(c, "del_files")
  /\ dele[c].dels # <<>>
  /\ DelFileKeys(Head(dele[c].dels))
  /\ dele' = [dele EXCEPT ![c].dels = Tail(@)]
  /\ UNCHANGED <<indices, sets, hashes, levels, tags, scripts>>
  /\ UNCHANGED <<pc, err, scan, edit>>

\* throw_if_failed: by now every command of the batch has run.
EndDelete(c) ==
  /\ At(c, "del_files")
  /\ dele[c].dels = <<>>
  /\ dele[c].left = {}
  /\ Goto(c, IF err[c] THEN "failed" ELSE "done")
  /\ UNCHANGED <<store, err, scan, edit, dele>>

-----------------------------------------------------------------------------
ConnectStep(c) == Connect(c) \/ LoadScripts(c)

ScanStep(c) ==
  \/ ConnectStep(c)
  \/ SRandMember(c) \/ HScanFile(c) \/ HScanSet(c)
  \/ IncrSet(c) \/ IncrFiles(c) \/ HMSetSet(c)
  \/ WriteFile(c) \/ SAddHash(c) \/ ZAddLevel(c)

TagStep(c) ==
  \/ ConnectStep(c)
  \/ StartTag(c) \/ GetTags(c) \/ RunTagScript(c) \/ EndTag(c)

DeleteStep(c) ==
  \/ ConnectStep(c)
  \/ StartDelete(c) \/ ConfirmRead(c) \/ Refuse(c) \/ Confirm(c)
  \/ GetTags(c) \/ RunTagScript(c) \/ NextUntag(c)
  \/ NextSet(c) \/ GetHash(c) \/ RunHash(c)
  \/ DelSet(c) \/ DelLevels(c) \/ DelFiles(c) \/ EndDelete(c)

\* Every process has ended: nothing is left to do.
Terminated == (\A c \in Clients : Ended(c)) /\ UNCHANGED vars

Next ==
  \/ \E c \in Scanners : ScanStep(c)
  \/ \E c \in Taggers : TagStep(c)
  \/ \E c \in Deleters : DeleteStep(c)
  \/ Terminated

Spec == Init /\ [][Next]_vars

Step(c) ==
  \/ c \in Scanners /\ ScanStep(c)
  \/ c \in Taggers /\ TagStep(c)
  \/ c \in Deleters /\ DeleteStep(c)

\* A process that does not die keeps being scheduled and Redis answers it.
FairSpec == Spec /\ \A c \in Survivors : WF_vars(Step(c))
=============================================================================
