--------------------------- MODULE RedisInvariant ---------------------------
(***************************************************************************)
(* The inductive invariant behind the safety properties of the Redis       *)
(* backend.  Everything in the store is traced back to the scan that wrote *)
(* it: the ids a scan was given are its alone, so what another client      *)
(* finds under them can only come from that scan.                          *)
(***************************************************************************)
EXTENDS RedisProperties

\* Scan c was given its set id, its file ids.
Named(c)     == scan[c].group # InvalidGroupID
Allocated(c) == scan[c].base # 0

\* Scan c has written the record of file f.
Wrote(c, f) ==
  Allocated(c) /\ f \in IdRange(scan[c].base, scan[c].written)

\* r is the set that scan c writes.
Writes(c, r) ==
  /\ Allocated(c)
  /\ r = [group |-> scan[c].group, base |-> scan[c].base, count |-> DataSize(c)]

BeforeIncrSet ==
  { "connect", "load_tag", "load_dele", "load_hash",
    "srandmember", "hscan_file", "hscan_set", "incr_set" }

\* How far a scan has come.
ScanProgress ==
  \A c \in Scanners :
    /\ pc[c] = "hscan_file" => scan[c].hit # 0
    /\ pc[c] \in BeforeIncrSet => ~ Named(c)
    /\ pc[c] \in BeforeIncrSet \cup {"incr_files"} => ~ Allocated(c)
    /\ pc[c] \in BeforeIncrSet \cup {"incr_files", "hmset_set"} =>
         scan[c].written = 0
    /\ pc[c] = "incr_files" => Named(c)
    /\ pc[c] \in {"hmset_set", "hmset_file", "sadd_hash", "zadd_level"} =>
         Allocated(c)
    /\ pc[c] = "hmset_file" => scan[c].written < DataSize(c)
    /\ pc[c] \in {"sadd_hash", "zadd_level"} => scan[c].written > 0
    /\ scan[c].written <= DataSize(c)
    /\ Allocated(c) => Named(c)

\* The counters are past every id handed out.
IdsCounted ==
  \A c \in Scanners :
    /\ scan[c].group <= indices.set
    /\ Allocated(c) => scan[c].base + DataSize(c) - 1 <= indices.files

\* No id is handed out twice.
IdsDistinct ==
  \A c, d \in Scanners :
    c # d =>
      /\ Named(c) => scan[c].group # scan[d].group
      /\ Allocated(c) /\ Allocated(d) =>
           \/ scan[c].base + DataSize(c) <= scan[d].base
           \/ scan[d].base + DataSize(d) <= scan[c].base

\* A set's record is the one its scan sent.
SetsHaveWriters ==
  \A g \in SetIds :
    SetExists(g) =>
      \E c \in Scanners :
        /\ Writes(c, [group |-> g, base  |-> sets[g].base,
                                   count |-> sets[g].count])
        /\ pc[c] # "hmset_set"

\* A file's record is the one its scan sent; its tags are gone with it.
FilesHaveWriters ==
  \A f \in FileIds :
    IF FileExists(f)
      THEN \E c \in Scanners :
             /\ Wrote(c, f)
             /\ files[f].group = scan[c].group
             /\ files[f].hash = scan[c].disc[f - scan[c].base + 1]
      ELSE files[f].tags = {}

\* Only files that were written once are in the indexes.
TaggedFilesWritten ==
  \A t \in Tags : \A f \in tags[t] : \E c \in Scanners : Wrote(c, f)

HashedFilesWritten ==
  \A h \in Hashes : \A f \in hashes[h] :
    \E c \in Scanners : Wrote(c, f) /\ scan[c].disc[f - scan[c].base + 1] = h

\* A deletion works on sets that scans wrote.
RangesHaveWriters ==
  \A d \in Deleters :
    /\ dele[d].left \subseteq dele[d].ranges
    /\ dele[d].cur = NoRange \/ dele[d].cur \in dele[d].ranges
    /\ \A r \in dele[d].ranges :
         \E c \in Scanners : Writes(c, r) /\ pc[c] # "hmset_set"

BeforeConfirm ==
  { "connect", "load_tag", "load_dele", "load_hash", "start", "confirm" }

\* Somebody confirmed that the set of file f is to be deleted.
Deleting(f) ==
  \E d \in Deleters : /\ pc[d] \notin BeforeConfirm
                      /\ \E r \in dele[d].ranges : r.group = files[f].group

\* How far a deletion has come: the sets its second loop has left behind.
DeleteProgress ==
  \A d \in Deleters :
    LET past == dele[d].ranges \ dele[d].left IN
    /\ pc[d] \in BeforeConfirm => dele[d].left = {} /\ dele[d].cur = NoRange
    /\ pc[d] \in {"get_hashes", "run_hashes"} =>
         \A r \in past \ {dele[d].cur} : ~ SetExists(r.group)
    /\ pc[d] \in {"del_levels", "del_files"} =>
         \A r \in past : ~ SetExists(r.group)
    /\ pc[d] = "done" =>
         \A r \in dele[d].ranges : ~ SetExists(r.group)

IInv ==
  /\ TypeOK
  /\ ScanProgress
  /\ IdsCounted
  /\ IdsDistinct
  /\ SetsHaveWriters
  /\ FilesHaveWriters
  /\ TaggedFilesWritten
  /\ HashedFilesWritten
  /\ RangesHaveWriters
  /\ DeleteProgress
  /\ TagIndexExact
=============================================================================
