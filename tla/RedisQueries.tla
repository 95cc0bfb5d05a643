----------------------------- MODULE RedisQueries -----------------------------
(***************************************************************************)
(* `dindexer tag` given globs, and `dindexer locate`, on the Redis         *)
(* backend: both walk the keys of all files with SCAN, or follow an index, *)
(* while scans and deletions of RedisBackend go on.  They are its taggers: *)
(* they connect as in RedisBackend and go their own ways from "start" on.  *)
(*                                                                         *)
(* SCAN returns every key that is there from its beginning to its end, and *)
(* may return any other key that is there at some time, and keys twice.    *)
(* An item is told by its hash, so a pattern is the set of hashes of the   *)
(* items whose paths the regular expressions match; none of them matches   *)
(* the empty path.  locate is given no --tags.                             *)
(***************************************************************************)
EXTENDS RedisBackend, SequencesExt

CONSTANTS
  Patterns,     \* what globs may match
  Inside,       \* for a local directory's hash, those of what is in it
  Prefetch      \* commands in a batch of locate, 500 in the code

ASSUME QueriesAssumption ==
  /\ Patterns \subseteq SUBSET Hashes
  /\ Inside \in [Hashes -> SUBSET Hashes]
  /\ Prefetch \in Nat \ {0}

VARIABLES
  cursor,  \* SCAN: files there at its start, those it must and may return
  glob,    \* locals of run_regex_based_script and delete_all_tags
  find     \* locals of locate_in_db and collect_matching_recursively

queryVars == <<vars, cursor, glob, find>>

QueriesInit ==
  /\ cursor = [c \in Taggers |-> [since |-> {}, must |-> {}, maybe |-> {}]]
  /\ glob = [c \in Taggers |-> [at |-> "idle", mode |-> "add", pattern |-> {},
               owner |-> InvalidGroupID, tags |-> {}, cur |-> 0, work |-> {}]]
  /\ find = [c \in Taggers |-> [at |-> "idle", pattern |-> {}, todo |-> {},
               root |-> NoHash, burst |-> <<>>, replies |-> <<>>, rows |-> {}]]

QInit == Init /\ QueriesInit

-----------------------------------------------------------------------------
(* SCAN of the keys of files; `maybe` bounds it to one surplus of each.    *)

WasWritten(f) ==
  \E c \in Scanners : f \in IdRange(scan[c].base, scan[c].written)

Present == {f \in FileIds : FileExists(f)}

OpenScan(c) ==
  cursor' = [cursor EXCEPT ![c] =
               [since |-> Present, must |-> Present,
                maybe |-> {f \in FileIds : FileExists(f) \/ ~WasWritten(f)}]]

Yield(c, f) ==
  \/ /\ f \in cursor[c].must
     /\ cursor' = [cursor EXCEPT ![c].must = @ \ {f}]
  \/ /\ f \in cursor[c].maybe /\ WasWritten(f)
     /\ cursor' = [cursor EXCEPT ![c].maybe = @ \ {f}]

ScanOver(c) == \A f \in cursor[c].must : ~FileExists(f)

\* Connected, and the user's request not read yet.
Unasked(c) == At(c, "start") /\ glob[c].at = "idle" /\ find[c].at = "idle"

-----------------------------------------------------------------------------
(* tag --globs.                                                            *)

StartGlob(c) ==
  /\ Unasked(c)
  /\ \E mode \in Modes, p \in Patterns, g \in Owners, ts \in SUBSET Tags \ {{}} :
       glob' = [glob EXCEPT ![c].at = "scan", ![c].mode = mode,
                            ![c].pattern = p, ![c].owner = g, ![c].tags = ts]
  /\ OpenScan(c)
  /\ UNCHANGED <<vars, find>>

NextKey(c) ==
  /\ glob[c].at = "scan"
  /\ \E f \in FileIds :
       Yield(c, f) /\ glob' = [glob EXCEPT ![c].at = "hget", ![c].cur = f]
  /\ UNCHANGED <<vars, find>>

\* Mutant: the path is not compared.
MatchesAll(c) == FileExists(glob[c].cur)

Matches(c) ==
  FileExists(glob[c].cur) /\ files[glob[c].cur].hash \in glob[c].pattern

\* run_regex_based_script: HGET path, and a batch if a regex finds it.
HGetPath(c) ==
  /\ glob[c].at = "hget" /\ glob[c].mode # "clear"
  /\ glob' = [glob EXCEPT ![c].at = "run",
                          ![c].work = IF Matches(c) THEN glob[c].tags ELSE {}]
  /\ UNCHANGED <<vars, cursor, find>>

GlobScript(c) == IF glob[c].mode = "add" THEN "tag_if_in_set"
                                         ELSE "dele_tag_if_in_set"

RunGlobScript(c) ==
  /\ glob[c].at = "run"
  /\ \E t \in glob[c].work :
       /\ glob' = [glob EXCEPT ![c].work = @ \ {t}]
       /\ \/ /\ GlobScript(c) \in scripts
             /\ IF glob[c].mode = "add"
                THEN TagIfInSet(t, glob[c].cur, glob[c].owner)
                ELSE DeleTagIfInSet(t, glob[c].cur, glob[c].owner)
             /\ UNCHANGED err
          \/ /\ GlobScript(c) \notin scripts
             /\ err' = [err EXCEPT ![c] = TRUE]
             /\ UNCHANGED <<files, tags>>
  /\ UNCHANGED <<indices, sets, hashes, levels, scripts, pc, scan, edit, dele>>
  /\ UNCHANGED <<cursor, find>>

\* Mutant: failed scripts are not noticed.
EndKeyUnchecked(c) ==
  /\ glob[c].at = "run" /\ glob[c].work = {}
  /\ glob' = [glob EXCEPT ![c].at = "scan"]
  /\ UNCHANGED <<vars, cursor, find>>

\* throw_if_failed after every file: the files before it stay edited.
EndKey(c) ==
  /\ glob[c].at = "run" /\ glob[c].work = {}
  /\ glob' = [glob EXCEPT ![c].at = IF err[c] THEN "ended" ELSE "scan"]
  /\ IF err[c] THEN Goto(c, "failed") ELSE UNCHANGED pc
  /\ UNCHANGED <<store, err, scan, edit, dele, cursor, find>>

(* delete_all_tags by regex: HMGET path tags group_id.  What is not there  *)
(* is dereferenced: the owner of a file that is gone, and, as the two arms *)
(* of tag.cpp:164 are swapped, the tags of a file that has none.  That may *)
(* stop the process or yield tags no file has.  Of a file that has tags it *)
(* takes none.                                                             *)
HMGetTags(c) ==
  /\ glob[c].at = "hget" /\ glob[c].mode = "clear"
  /\ LET f == glob[c].cur
         undefined == \/ ~FileExists(f)
                      \/ /\ glob[c].owner \in {InvalidGroupID, files[f].group}
                        /\ files[f].tags = {} IN
       \/ /\ glob' = [glob EXCEPT ![c].at = "scan"]
          /\ UNCHANGED pc
       \/ /\ undefined
          /\ glob' = [glob EXCEPT ![c].at = "ended"]
          /\ Goto(c, "failed")
  /\ UNCHANGED <<store, err, scan, edit, dele, cursor, find>>

\* delete_all_tags has collected no tag, and runs no script.
EndGlob(c) ==
  /\ glob[c].at = "scan" /\ ScanOver(c)
  /\ glob' = [glob EXCEPT ![c].at = "ended"]
  /\ Goto(c, "done")
  /\ UNCHANGED <<store, err, scan, edit, dele, cursor, find>>

-----------------------------------------------------------------------------
(* locate: the HMGETs of a batch are sent as they are queued, and their    *)
(* replies put beside the ids in the end.                                  *)

StartLocate(c) ==
  /\ Unasked(c)
  /\ \E p \in Patterns : find' = [find EXCEPT ![c].at = "scan", ![c].pattern = p]
  /\ OpenScan(c)
  /\ UNCHANGED <<vars, glob>>

QueueKey(c) ==
  /\ find[c].at = "scan" /\ Len(find[c].burst) < Prefetch
  /\ \E f \in FileIds :
       Yield(c, f) /\ find' = [find EXCEPT ![c].burst = Append(@, f)]
  /\ UNCHANGED <<vars, glob>>

\* The next HMGET path group_id tags of the batch.
HMGetFile(c) ==
  /\ find[c].at \in {"scan", "members"}
  /\ Len(find[c].replies) < Len(find[c].burst)
  /\ LET f == find[c].burst[Len(find[c].replies) + 1] IN
       find' = [find EXCEPT ![c].replies =
                  Append(@, [group |-> files[f].group, hash |-> files[f].hash])]
  /\ UNCHANGED <<vars, cursor, glob>>

Answered(c) == Len(find[c].replies) = Len(find[c].burst)

\* Mutant: replies and ids are put together in opposite orders.
RowsReversed(c) ==
  {[id |-> find[c].burst[Len(find[c].replies) + 1 - i],
    group |-> find[c].replies[i].group,
    hash |-> find[c].replies[i].hash] : i \in DOMAIN find[c].replies}

RowsOf(c) ==
  {[id |-> find[c].burst[i], group |-> find[c].replies[i].group,
    hash |-> find[c].replies[i].hash] : i \in DOMAIN find[c].replies}

\* The filter drops what is gone: its path reads as the empty string.
Filtered(c) == {r \in RowsOf(c) : r.hash \in find[c].pattern}

Flush(c) ==
  /\ find[c].at = "scan" /\ Len(find[c].replies) = Prefetch
  /\ find' = [find EXCEPT ![c].burst = <<>>, ![c].replies = <<>>,
                          ![c].rows = @ \cup Filtered(c)]
  /\ UNCHANGED <<vars, cursor, glob>>

\* Mutant: the last batch, not full, is dropped.
EndLocateFullOnly(c) ==
  /\ find[c].at = "scan" /\ ScanOver(c)
  /\ Len(find[c].burst) < Prefetch /\ Answered(c)
  /\ find' = [find EXCEPT ![c].at = "ended"]
  /\ Goto(c, "done")
  /\ UNCHANGED <<store, err, scan, edit, dele, cursor, glob>>

EndLocate(c) ==
  /\ find[c].at = "scan" /\ ScanOver(c)
  /\ Len(find[c].burst) < Prefetch /\ Answered(c)
  /\ find' = [find EXCEPT ![c].at = "ended", ![c].rows = @ \cup Filtered(c)]
  /\ Goto(c, "done")
  /\ UNCHANGED <<store, err, scan, edit, dele, cursor, glob>>

-----------------------------------------------------------------------------
(* locate --byhash: what a local directory holds is looked up if it is not *)
(* known itself.                                                           *)

StartByHash(c) ==
  /\ Unasked(c)
  /\ \E h \in Hashes :
       find' = [find EXCEPT ![c].at = "hash", ![c].root = h, ![c].todo = {h}]
  /\ cursor' = [cursor EXCEPT ![c].since = {f \in Present : f \in hashes[files[f].hash]}]
  /\ UNCHANGED <<vars, glob>>

\* SMEMBERS: the ids in any order.
SMembers(c) ==
  /\ find[c].at = "hash"
  /\ \E h \in find[c].todo : \E ids \in SetToSeqs(hashes[h]) :
       find' = [find EXCEPT ![c].at = "members", ![c].pattern = {h},
                  ![c].todo = @ \ {h}, ![c].replies = <<>>, ![c].burst = ids]
  /\ UNCHANGED <<vars, cursor, glob>>

\* Mutant: the search stops at the first hash that is found.
ToAskUntilFound(c) ==
  IF RowsOf(c) = {} THEN find[c].todo \cup UNION {Inside[h] : h \in find[c].pattern} ELSE {}

\* What is in a directory that was not found is asked for as well.
ToAsk(c) ==
  find[c].todo \cup
    IF RowsOf(c) = {} THEN UNION {Inside[h] : h \in find[c].pattern} ELSE {}

Gone(r) == r.group = InvalidGroupID

(* Every id is a result, the one of a file that is gone included: whether  *)
(* the empty owner is a number is up to lexical_cast.  More than one       *)
(* result stops a build that has assertions.                               *)
EndMembers(c) ==
  /\ find[c].at = "members" /\ Answered(c)
  /\ \/ /\ find' = [find EXCEPT ![c].at = "hash", ![c].rows = @ \cup RowsOf(c),
                                 ![c].todo = ToAsk(c)]
        /\ UNCHANGED pc
     \/ /\ \/ \E r \in RowsOf(c) : Gone(r)
           \/ Cardinality(RowsOf(c)) > 1
        /\ find' = [find EXCEPT ![c].at = "ended"]
        /\ Goto(c, "failed")
  /\ UNCHANGED <<store, err, scan, edit, dele, cursor, glob>>

EndByHash(c) ==
  /\ find[c].at = "hash" /\ find[c].todo = {}
  /\ find' = [find EXCEPT ![c].at = "ended"]
  /\ Goto(c, "done")
  /\ UNCHANGED <<store, err, scan, edit, dele, cursor, glob>>

-----------------------------------------------------------------------------
GlobStep(c) ==
  \/ StartGlob(c) \/ NextKey(c)
  \/ HGetPath(c) \/ RunGlobScript(c) \/ EndKey(c)
  \/ HMGetTags(c) \/ EndGlob(c)

LocateStep(c) ==
  \/ StartLocate(c) \/ QueueKey(c) \/ HMGetFile(c) \/ Flush(c) \/ EndLocate(c)
  \/ StartByHash(c) \/ SMembers(c) \/ EndMembers(c) \/ EndByHash(c)

BackendStep ==
  /\ \/ \E c \in Scanners : ScanStep(c)
     \/ \E c \in Taggers : ConnectStep(c)
     \/ \E c \in Deleters : DeleteStep(c)
     \/ Terminated
  /\ UNCHANGED <<cursor, glob, find>>

QNext ==
  \/ BackendStep
  \/ \E c \in Taggers : GlobStep(c) \/ LocateStep(c)

QSpec == QInit /\ [][QNext]_queryVars
=============================================================================
