------------------------------ MODULE PgBackend ------------------------------
(***************************************************************************)
(* The PostgreSQL backend and the processes that use it at the same time:  *)
(* `dindexer scan`, `dindexer tag` and `dindexer delete`.  A step is one   *)
(* statement, except that UPDATE and DELETE lock one row after another.    *)
(* Transactions run at PostgreSQL's default level, READ COMMITTED: a       *)
(* statement sees the rows committed when it starts, waits for a row       *)
(* that another transaction has changed, and then works on the row as      *)
(* that transaction left it.  What a transaction has written is kept apart *)
(* (draft, fileLock, setLock) until it commits.                            *)
(***************************************************************************)
EXTENDS Integers, Sequences, FiniteSets, Functions

CONSTANTS
  Scanners, Taggers, Deleters,   \* processes
  Paths, Hashes, Tags,
  Discs,       \* what a scan finds, the root first
  Requests,    \* what taggers may be asked for
  Asks,        \* the ids deletions may be asked for
  Survivors,   \* processes that do not crash
  MaxSets, MaxFiles,             \* bounds of the ids handed out
  NoFile, Nobody

SetIds == 1 .. MaxSets
FileIds == 1 .. MaxFiles
InvalidGroupID == 0
Editors == Taggers \cup Deleters
Clients == Scanners \cup Editors

Item == [path : Paths, hash : Hashes]
Row == [group : SetIds, path : Paths, hash : Hashes, tags : SUBSET Tags]

(* A `dindexer tag` command: by "ids" or by "globs", of which `paths` are  *)
(* the paths their regular expressions match; owner is --set.              *)
Request == [op : {"add", "remove", "clear"}, by : {"ids", "globs"},
            ids : SUBSET FileIds, paths : SUBSET Paths, tags : Seq(Tags),
            owner : SetIds \cup {InvalidGroupID}]

ASSUME PgAssumption ==
  /\ MaxSets \in Nat \ {0}
  /\ MaxFiles \in Nat \ {0}
  /\ Scanners \cap Taggers = {}
  /\ Scanners \cap Deleters = {}
  /\ Taggers \cap Deleters = {}
  /\ Discs \subseteq Seq(Item) \ {<<>>}
  /\ Requests \subseteq Request
  /\ Asks \subseteq SUBSET SetIds
  /\ Survivors \subseteq Clients
  /\ NoFile \notin Row
  /\ Nobody \notin Clients

VARIABLES
  sets,      \* table sets: the ids of the committed rows
  files,     \* table files: the committed rows
  nextSet, nextFile,  \* sets_id_seq and files_id_seq, not transactional
  setLock,   \* who has inserted or deleted a set and not committed
  fileLock,  \* who has written a file and not committed
  draft,     \* the row as its writer will commit it
  pc,        \* the statement each client sends, or runs, next
  scan,      \* locals of read_from_db and write_to_db
  edit,      \* the request of a tagger
  dele,      \* locals of delete_group_from_db
  todo,      \* rows a running UPDATE or DELETE has yet to come to
  done       \* rows it has written

tables == <<sets, files, nextSet, nextFile>>
locks == <<setLock, fileLock, draft>>
vars == <<tables, locks, pc, scan, edit, dele, todo, done>>

Labels == {"look_up", "read_set", "insert_set", "insert_file", "update",
           "fetch", "confirm", "delete_files", "lock_rows", "delete_sets",
           "commit", "done", "failed", "missing_set", "foreign_key"}

Ended(c) == pc[c] \in {"done", "failed", "missing_set", "foreign_key"}

TypeOK ==
  /\ sets \subseteq SetIds
  /\ files \in [FileIds -> Row \cup {NoFile}]
  /\ nextSet \in 1 .. MaxSets + 1 /\ nextFile \in 1 .. MaxFiles + 1
  /\ setLock \in [SetIds -> Clients \cup {Nobody}]
  /\ fileLock \in [FileIds -> Clients \cup {Nobody}]
  /\ draft \in [FileIds -> Row \cup {NoFile}]
  /\ pc \in [Clients -> Labels]
  /\ scan \in [Scanners -> [disc : Discs, owner : SetIds \cup {InvalidGroupID},
                            group : SetIds \cup {InvalidGroupID}, written : Nat]]
  /\ edit \in [Taggers -> Requests]
  /\ dele \in [Deleters -> [asked : Asks, found : SUBSET SetIds]]
  /\ todo \in [Editors -> SUBSET FileIds]
  /\ done \in [Editors -> SUBSET FileIds]

Init ==
  /\ sets = {} /\ nextSet = 1
  /\ files = [f \in FileIds |-> NoFile] /\ nextFile = 1
  /\ setLock = [s \in SetIds |-> Nobody]
  /\ fileLock = [f \in FileIds |-> Nobody]
  /\ draft = [f \in FileIds |-> NoFile]
  /\ pc = [c \in Clients |-> IF c \in Scanners THEN "look_up"
                            ELSE IF c \in Taggers THEN "update" ELSE "fetch"]
  /\ \E disc \in [Scanners -> Discs] :
       scan = [c \in Scanners |-> [disc |-> disc[c], owner |-> InvalidGroupID,
                                   group |-> InvalidGroupID, written |-> 0]]
  /\ edit \in [Taggers -> Requests]
  /\ \E asked \in [Deleters -> Asks] :
       dele = [c \in Deleters |-> [asked |-> asked[c], found |-> {}]]
  /\ todo = [c \in Editors |-> {}]
  /\ done = [c \in Editors |-> {}]

-----------------------------------------------------------------------------
(* Transactions.                                                           *)

Goto(c, l) == pc' = [pc EXCEPT ![c] = l]

Release(c) ==
  /\ setLock' = [s \in SetIds |-> IF setLock[s] = c THEN Nobody ELSE setLock[s]]
  /\ fileLock' = [f \in FileIds |-> IF fileLock[f] = c THEN Nobody ELSE fileLock[f]]
  /\ draft' = [f \in FileIds |-> IF fileLock[f] = c THEN NoFile ELSE draft[f]]

\* What c has written becomes visible; a set it has locked is new or goes.
Commit(c) ==
  /\ sets' = {s \in SetIds : (s \in sets) = (setLock[s] # c)}
  /\ files' = [f \in FileIds |-> IF fileLock[f] = c THEN draft[f] ELSE files[f]]
  /\ Release(c)

\* Mutant: the transaction of a failed statement is left open.
RollbackLeftOpen(c) == UNCHANGED <<locks, sets, files, todo>>

\* What c has written is dropped; the ids it drew are not given back.
Rollback(c) ==
  /\ Release(c)
  /\ todo' = [e \in Editors |-> IF e = c THEN {} ELSE todo[e]]
  /\ UNCHANGED <<sets, files>>

-----------------------------------------------------------------------------
(* scan: add_to_db looks the root's hash up, then write_files saves all.   *)

\* Mutant: a writer that goes on without the set.
LookUpNoSet(c) ==
  /\ pc[c] = "look_up"
  /\ \A f \in FileIds : files[f] # NoFile => files[f].hash # scan[c].disc[1].hash
  /\ Goto(c, "insert_file")
  /\ UNCHANGED <<tables, locks, scan, edit, dele, todo, done>>

\* read_from_db: any file that has the hash of the root.
LookUp(c) ==
  /\ pc[c] = "look_up"
  /\ LET hits == {f \in FileIds : /\ files[f] # NoFile
                                  /\ files[f].hash = scan[c].disc[1].hash} IN
       \/ /\ hits = {}
          /\ Goto(c, "insert_set")
          /\ UNCHANGED scan
       \/ \E f \in hits :
            /\ scan' = [scan EXCEPT ![c].owner = files[f].group]
            /\ Goto(c, "read_set")
  /\ UNCHANGED <<tables, locks, edit, dele, todo, done>>

\* read_from_db: the set of that file, which may be gone by now.
ReadSet(c) ==
  /\ pc[c] = "read_set"
  /\ Goto(c, IF scan[c].owner \in sets THEN "done" ELSE "missing_set")
  /\ UNCHANGED <<tables, locks, scan, edit, dele, todo, done>>

InsertSet(c) ==
  /\ pc[c] = "insert_set"
  /\ nextSet <= MaxSets
  /\ nextSet' = nextSet + 1
  /\ setLock' = [setLock EXCEPT ![nextSet] = c]
  /\ scan' = [scan EXCEPT ![c].group = nextSet]
  /\ Goto(c, "insert_file")
  /\ UNCHANGED <<sets, files, nextFile, fileLock, draft, edit, dele, todo, done>>

\* Mutant: without BEGIN, every INSERT commits.
InsertFileAutocommit(c) ==
  /\ pc[c] = "insert_file"
  /\ scan[c].written < Len(scan[c].disc)
  /\ nextFile <= MaxFiles
  /\ nextFile' = nextFile + 1
  /\ LET item == scan[c].disc[scan[c].written + 1] IN
       files' = [files EXCEPT ![nextFile] =
                   [group |-> scan[c].group, path |-> item.path,
                    hash |-> item.hash, tags |-> {}]]
  /\ scan' = [scan EXCEPT ![c].written = @ + 1]
  /\ UNCHANGED <<sets, nextSet, locks, pc, edit, dele, todo, done>>

InsertFile(c) ==
  /\ pc[c] = "insert_file"
  /\ scan[c].written < Len(scan[c].disc)
  /\ nextFile <= MaxFiles
  /\ nextFile' = nextFile + 1
  /\ fileLock' = [fileLock EXCEPT ![nextFile] = c]
  /\ LET item == scan[c].disc[scan[c].written + 1] IN
       draft' = [draft EXCEPT ![nextFile] =
                   [group |-> scan[c].group, path |-> item.path,
                    hash |-> item.hash, tags |-> {}]]
  /\ scan' = [scan EXCEPT ![c].written = @ + 1]
  /\ UNCHANGED <<sets, files, nextSet, setLock, pc, edit, dele, todo, done>>

\* Mutant: COMMIT is sent inside the loop.
CommitScanEarly(c) ==
  /\ pc[c] = "insert_file"
  /\ scan[c].written > 0
  /\ Commit(c)
  /\ Goto(c, "done")
  /\ UNCHANGED <<nextSet, nextFile, scan, edit, dele, todo, done>>

CommitScan(c) ==
  /\ pc[c] = "insert_file"
  /\ scan[c].written = Len(scan[c].disc)
  /\ Commit(c)
  /\ Goto(c, "done")
  /\ UNCHANGED <<nextSet, nextFile, scan, edit, dele, todo, done>>

\* nextval fails when a sequence has reached its last value.
SequenceAtEnd(c) ==
  /\ \/ pc[c] = "insert_set" /\ nextSet > MaxSets
     \/ /\ pc[c] = "insert_file" /\ nextFile > MaxFiles
        /\ scan[c].written < Len(scan[c].disc)
  /\ Rollback(c)
  /\ Goto(c, "failed")
  /\ UNCHANGED <<nextSet, nextFile, scan, edit, dele, done>>

-----------------------------------------------------------------------------
(* tag: one UPDATE, a transaction of its own.                              *)

Single(e) == Len(e.tags) = 1

(* Two of the statements are not accepted by the server: one compares an   *)
(* integer with an array and leaves a parameter unused (tag.cpp:102), one  *)
(* uses a second parameter that is not passed (tag.cpp:145).               *)
Malformed(e) ==
  /\ e.by = "globs"
  /\ \/ e.op = "remove" /\ Single(e) /\ e.owner # InvalidGroupID
     \/ e.op = "clear" /\ e.owner = InvalidGroupID

\* Mutant: --set is forgotten when files are given by id.
MatchesAnySet(e, f) ==
  IF e.by = "ids"
  THEN f \in e.ids
  ELSE /\ e.owner # InvalidGroupID => files[f].group = e.owner
       /\ files[f].path \in e.paths

(* The WHERE of the statement.  Several tags removed without --set compare *)
(* paths with regular expressions for equality (tag.cpp:116): no path is   *)
(* a text that begins with (?i) and ends with $.                           *)
Matches(e, f) ==
  /\ e.owner # InvalidGroupID => files[f].group = e.owner
  /\ IF e.by = "ids"
     THEN f \in e.ids
     ELSE /\ files[f].path \in e.paths
          /\ ~(e.op = "remove" /\ ~Single(e) /\ e.owner = InvalidGroupID)

NewTags(e, old) ==
  CASE e.op = "add" -> old \cup Range(e.tags)
    [] e.op = "remove" -> old \ Range(e.tags)
    [] e.op = "clear" -> {}

\* The rows the statement will come to are those committed when it starts.
Update(c) ==
  /\ pc[c] = "update"
  /\ \/ /\ Malformed(edit[c])
        /\ Goto(c, "failed")
        /\ UNCHANGED todo
     \/ /\ ~Malformed(edit[c])
        /\ todo' = [todo EXCEPT ![c] = {f \in FileIds : files[f] # NoFile
                                                     /\ Matches(edit[c], f)}]
        /\ Goto(c, "lock_rows")
  /\ UNCHANGED <<tables, locks, scan, edit, dele, done>>

\* What the running statement makes of a row.
Written(c, row) ==
  IF c \in Taggers THEN [row EXCEPT !.tags = NewTags(edit[c], @)] ELSE NoFile

\* Mutant: a row that another transaction has locked is taken all the same.
LockRowNoWait(c, f) ==
  /\ pc[c] = "lock_rows"
  /\ f \in todo[c]
  /\ todo' = [todo EXCEPT ![c] = @ \ {f}]
  /\ IF files[f] = NoFile
     THEN UNCHANGED <<fileLock, draft, done>>
     ELSE /\ fileLock' = [fileLock EXCEPT ![f] = c]
          /\ draft' = [draft EXCEPT ![f] = Written(c, files[f])]
          /\ done' = [done EXCEPT ![c] = @ \cup {f}]
  /\ UNCHANGED <<tables, setLock, pc, scan, edit, dele>>

\* Mutant: locked rows are skipped.
LockRowSkip(c, f) ==
  /\ pc[c] = "lock_rows"
  /\ f \in todo[c]
  /\ todo' = [todo EXCEPT ![c] = @ \ {f}]
  /\ IF files[f] = NoFile \/ fileLock[f] # Nobody
     THEN UNCHANGED <<fileLock, draft, done>>
     ELSE /\ fileLock' = [fileLock EXCEPT ![f] = c]
          /\ draft' = [draft EXCEPT ![f] = Written(c, files[f])]
          /\ done' = [done EXCEPT ![c] = @ \cup {f}]
  /\ UNCHANGED <<tables, setLock, pc, scan, edit, dele>>

(* The next row: it waits until nobody has it locked, skips it if it was   *)
(* deleted, and changes what it has become (its id, path and set are as    *)
(* they were, so it still meets the WHERE).                                *)
LockRow(c, f) ==
  /\ pc[c] = "lock_rows"
  /\ f \in todo[c]
  /\ fileLock[f] = Nobody
  /\ todo' = [todo EXCEPT ![c] = @ \ {f}]
  /\ IF files[f] = NoFile
     THEN UNCHANGED <<fileLock, draft, done>>
     ELSE /\ fileLock' = [fileLock EXCEPT ![f] = c]
          /\ draft' = [draft EXCEPT ![f] = Written(c, files[f])]
          /\ done' = [done EXCEPT ![c] = @ \cup {f}]
  /\ UNCHANGED <<tables, setLock, pc, scan, edit, dele>>

CommitUpdate(c) ==
  /\ pc[c] = "lock_rows"
  /\ c \in Taggers
  /\ todo[c] = {}
  /\ Commit(c)
  /\ Goto(c, "done")
  /\ UNCHANGED <<nextSet, nextFile, scan, edit, dele, todo, done>>

-----------------------------------------------------------------------------
(* delete: the sets are shown to the user, then one transaction.           *)

FetchExistingIds(c) ==
  /\ pc[c] = "fetch"
  /\ dele' = [dele EXCEPT ![c].found = dele[c].asked \cap sets]
  /\ Goto(c, IF dele[c].asked \cap sets = {} THEN "done" ELSE "confirm")
  /\ UNCHANGED <<tables, locks, scan, edit, todo, done>>

\* Mutant: the sets are deleted before the files.
AnswerSetsFirst(c) ==
  /\ pc[c] = "confirm"
  /\ \E l \in {"delete_sets", "done"} : Goto(c, l)
  /\ UNCHANGED <<tables, locks, scan, edit, dele, todo, done>>

Answer(c) ==
  /\ pc[c] = "confirm"
  /\ \E l \in {"delete_files", "done"} : Goto(c, l)
  /\ UNCHANGED <<tables, locks, scan, edit, dele, todo, done>>

DeleteFiles(c) ==
  /\ pc[c] = "delete_files"
  /\ todo' = [todo EXCEPT ![c] = {f \in FileIds : files[f] # NoFile
                                    /\ files[f].group \in dele[c].found}]
  /\ Goto(c, "lock_rows")
  /\ UNCHANGED <<tables, locks, scan, edit, dele, done>>

\* Mutant: the two statements are not one transaction.
EndDeleteFilesAutocommit(c) ==
  /\ pc[c] = "lock_rows"
  /\ c \in Deleters
  /\ todo[c] = {}
  /\ Commit(c)
  /\ Goto(c, "delete_sets")
  /\ UNCHANGED <<nextSet, nextFile, scan, edit, dele, todo, done>>

EndDeleteFiles(c) ==
  /\ pc[c] = "lock_rows"
  /\ c \in Deleters
  /\ todo[c] = {}
  /\ Goto(c, "delete_sets")
  /\ UNCHANGED <<tables, locks, scan, edit, dele, todo, done>>

(* The rows are locked in one step: it never has to wait for one           *)
(* (SetsNeverContended).  fk_files_sets is checked when the statement      *)
(* ends, against all committed files and what c has deleted.               *)
DeleteSets(c) ==
  /\ pc[c] = "delete_sets"
  /\ LET goes == dele[c].found \cap sets IN
       /\ \A s \in goes : setLock[s] = Nobody
       /\ IF \E f \in FileIds : /\ files[f] # NoFile
                                /\ files[f].group \in goes
                                /\ fileLock[f] # c
          THEN /\ Rollback(c)
               /\ Goto(c, "foreign_key")
          ELSE /\ setLock' = [s \in SetIds |-> IF s \in goes THEN c ELSE setLock[s]]
               /\ Goto(c, "commit")
               /\ UNCHANGED <<sets, files, fileLock, draft, todo>>
  /\ UNCHANGED <<nextSet, nextFile, scan, edit, dele, done>>

CommitDelete(c) ==
  /\ pc[c] = "commit"
  /\ Commit(c)
  /\ Goto(c, "done")
  /\ UNCHANGED <<nextSet, nextFile, scan, edit, dele, todo, done>>

-----------------------------------------------------------------------------
(* Failures.  Connection::query throws for whatever the server refuses,    *)
(* nothing catches it in a transaction, and the server rolls back when the *)
(* connection goes.                                                        *)

\* c has come to, or may come to, a row that d has locked.
WaitsFor(c, d) == \E f \in todo[c] : fileLock[f] = d

Cycle(D) == D # {} /\ \A c \in D : \E d \in D \ {c} : WaitsFor(c, d)

\* The server aborts one of the transactions that wait for each other.
Deadlock(c) ==
  /\ c \in Editors
  /\ \E D \in SUBSET Editors : /\ c \in D
                               /\ Cycle(D)
                               /\ \A E \in SUBSET D : Cycle(E) => E = D
  /\ Rollback(c)
  /\ Goto(c, "failed")
  /\ UNCHANGED <<nextSet, nextFile, scan, edit, dele, done>>

\* The process dies, or any statement of it fails.
Crash(c) ==
  /\ ~Ended(c)
  /\ c \notin Survivors
  /\ Rollback(c)
  /\ Goto(c, "failed")
  /\ UNCHANGED <<nextSet, nextFile, scan, edit, dele, done>>

Scan(c) == \/ LookUp(c) \/ ReadSet(c) \/ InsertSet(c) \/ InsertFile(c)
           \/ CommitScan(c) \/ SequenceAtEnd(c)
LockRows(c) == \E f \in FileIds : LockRow(c, f)
Tag(c) == Update(c) \/ LockRows(c) \/ CommitUpdate(c)
Delete(c) == \/ FetchExistingIds(c) \/ DeleteFiles(c) \/ LockRows(c)
             \/ EndDeleteFiles(c) \/ DeleteSets(c) \/ CommitDelete(c)

Next ==
  \/ \E c \in Scanners : Scan(c)
  \/ \E c \in Taggers : Tag(c)
  \/ \E c \in Deleters : Delete(c) \/ Answer(c)
  \/ \E c \in Clients : Deadlock(c) \/ Crash(c)

Spec == Init /\ [][Next]_vars

(* The server goes on with every statement it can go on with and finds     *)
(* deadlocks; processes go on until they crash; nobody has to answer.      *)
FairSpec ==
  /\ Spec
  /\ \A c \in Scanners : WF_vars(Scan(c))
  /\ \A c \in Taggers : WF_vars(Tag(c) \/ Deadlock(c))
  /\ \A c \in Deleters : WF_vars(Delete(c) \/ Deadlock(c))
=============================================================================
