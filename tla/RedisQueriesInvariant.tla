------------------------ MODULE RedisQueriesInvariant ------------------------
(***************************************************************************)
(* The inductive invariant behind what `dindexer tag` given globs and      *)
(* `dindexer locate` promise.  An id that a query has got hold of was      *)
(* written once: whatever becomes of its file, no other file takes the id, *)
(* so what was read of it is true as long as the file is there at all.     *)
(***************************************************************************)
EXTENDS RedisQueriesProperties, RedisInvariant

Written(f) == \E c \in Scanners : Wrote(c, f)

Connecting == {"connect", "load_tag", "load_dele", "load_hash"}
GlobActive == {"scan", "hget", "run"}
FindActive == {"scan", "hash", "members"}

Replies == [group : 0 .. MaxSets, hash : Hashes \cup {NoHash}]
Rows    == [id : FileIds, group : 0 .. MaxSets, hash : Hashes \cup {NoHash}]

CursorLocals == [since : SUBSET FileIds, must : SUBSET FileIds, maybe : SUBSET FileIds]

GlobLocals == [at      : GlobActive \cup {"idle", "ended"},
               mode    : Modes,
               pattern : SUBSET Hashes,
               owner   : 0 .. MaxSets,
               tags    : SUBSET Tags,
               cur     : 0 .. MaxFiles,
               work    : SUBSET Tags]

FindLocals == [at      : FindActive \cup {"idle", "ended"},
               pattern : SUBSET Hashes,
               todo    : SUBSET Hashes,
               root    : Hashes \cup {NoHash},
               burst   : Seq(FileIds),
               replies : Seq(Replies),
               rows    : SUBSET Rows]

QueriesTypeOK ==
  /\ cursor \in [Taggers -> CursorLocals]
  /\ glob \in [Taggers -> GlobLocals]
  /\ find \in [Taggers -> FindLocals]

\* What a scan sent it sent with an id.
WrittenAllocated == \A s \in Scanners : scan[s].written # 0 => Allocated(s)

\* A process runs one request, from its being connected to its end.
OneRequest(c) ==
  /\ pc[c] \in Connecting \cup {"start", "done", "failed"}
  /\ glob[c].at = "idle" \/ find[c].at = "idle"
  /\ glob[c].at \in GlobActive \/ find[c].at \in FindActive => pc[c] = "start"
  /\ glob[c].at = "ended" \/ find[c].at = "ended" => Ended(c)
  /\ glob[c].at = "idle" => glob[c].tags = {}
  /\ find[c].at = "idle" => find[c].root = NoHash /\ find[c].rows = {}
                            /\ find[c].burst = <<>> /\ find[c].replies = <<>>
  /\ find[c].at = "scan" => find[c].root = NoHash
  /\ find[c].at \in {"hash", "members"} => find[c].root # NoHash
  /\ glob[c].at = "idle" /\ find[c].at = "idle" => cursor[c].must = {}
  /\ err[c] => glob[c].at = "run" \/ pc[c] = "failed"

\* A deletion only takes tags, of the sets it was confirmed for.
DeletersClear ==
  \A d \in Deleters :
    /\ edit[d].mode = "clear"
    /\ pc[d] \in {"get_tags", "run_tags"} =>
         \E r \in dele[d].ranges : edit[d].owner = r.group

\* Every id a query has come by was written.
SeenWritten(c) ==
  /\ cursor[c].must \subseteq cursor[c].since
  /\ \A f \in cursor[c].since : Written(f)
  /\ glob[c].at \in {"hget", "run"} => Written(glob[c].cur)
  /\ \A i \in DOMAIN find[c].burst : Written(find[c].burst[i])
  /\ \A r \in find[c].rows : Written(r.id)

Agrees(f, g, h) == FileExists(f) => files[f].group = g /\ files[f].hash = h

\* The replies of a batch are about its first ids, and are true of them.
RepliesTrue(c) ==
  /\ find[c].at = "scan" => Len(find[c].burst) <= Prefetch
  /\ Len(find[c].replies) <= Len(find[c].burst)
  /\ \A i \in DOMAIN find[c].replies :
       Agrees(find[c].burst[i], find[c].replies[i].group, find[c].replies[i].hash)

\* The scripts still to run are about a file that was found to match.
WorkMatches(c) ==
  /\ glob[c].at = "run" => glob[c].mode # "clear"
  /\ glob[c].work # {} => glob[c].at = "run"
  /\ glob[c].work \subseteq glob[c].tags
  /\ glob[c].work # {} /\ FileExists(glob[c].cur) =>
       files[glob[c].cur].hash \in glob[c].pattern

\* What tag --globs is to reach, and when it need not any more.
Targets(c) ==
  {f \in cursor[c].since : /\ FileExists(f)
                           /\ files[f].hash \in glob[c].pattern
                           /\ files[f].group = glob[c].owner}

Reached(c, f, t) ==
  \/ t \in files[f].tags
  \/ Deleting(f)
  \/ \E d \in Taggers \ {c} : Acts(d, "dele", f, t)

\* A file to be reached is ahead of SCAN, is the current one, or was reached.
GlobProgress(c) ==
  glob[c].mode = "add" /\ glob[c].at # "idle" /\ ~err[c] /\ pc[c] # "failed" =>
    \A f \in Targets(c) :
      \/ glob[c].at # "ended" /\ f \in cursor[c].must
      \/ glob[c].at = "hget" /\ f = glob[c].cur
      \/ \A t \in glob[c].tags :
           \/ glob[c].at = "run" /\ f = glob[c].cur /\ t \in glob[c].work
           \/ Reached(c, f, t)

InBurst(c, f) == \E i \in DOMAIN find[c].burst : find[c].burst[i] = f

\* A file to be reported is ahead of SCAN, in the batch, or was reported.
WalkProgress(c) ==
  find[c].at # "idle" /\ find[c].root = NoHash =>
    \A f \in Matched(c) :
      \/ find[c].at = "scan" /\ (f \in cursor[c].must \/ InBurst(c, f))
      \/ Found(c, f)

\* The hashes that locate --byhash has yet to be answered.
Pending(c) ==
  find[c].todo \cup IF find[c].at = "members" THEN find[c].pattern ELSE {}

SinceOf(c, h) == {f \in cursor[c].since : FileExists(f) /\ files[f].hash = h}

Covered(c, h) == \A f \in SinceOf(c, h) : Found(c, f) \/ Deleting(f)

\* Each of these hashes is yet to be answered, or covered; if nothing was a
\* result for it, what is inside is among them.
Asking(c, asked) ==
  \A h \in asked :
    \/ h \in Pending(c)
    \/ Covered(c, h) /\ (NoResult(c, h) => Inside[h] \subseteq asked)

ByHashProgress(c) ==
  find[c].root # NoHash =>
    /\ \A f \in cursor[c].since :
         FileExists(f) => f \in hashes[files[f].hash] \/ Deleting(f)
    /\ pc[c] # "failed" =>
         \E asked \in SUBSET Hashes : find[c].root \in asked /\ Asking(c, asked)
    /\ find[c].at = "members" =>
         \A h \in find[c].pattern :
           /\ \A f \in SinceOf(c, h) : InBurst(c, f) \/ Deleting(f)
           /\ \A i \in DOMAIN find[c].burst : WrittenAs(find[c].burst[i], h)
    /\ find[c].at = "ended" /\ pc[c] # "failed" => find[c].todo = {}

(* The types, and for each query where it is, what it has come by, and how *)
(* far it has come with what was there when it began.                      *)
QueriesInv ==
  /\ QueriesTypeOK
  /\ WrittenAllocated
  /\ DeletersClear
  /\ LocatedRowsTrue
  /\ \A c \in Taggers :
       /\ OneRequest(c) /\ SeenWritten(c)
       /\ RepliesTrue(c) /\ WorkMatches(c)
       /\ GlobProgress(c) /\ WalkProgress(c) /\ ByHashProgress(c)
=============================================================================
