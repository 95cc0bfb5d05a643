---------------------------- MODULE RedisProofs -----------------------------
(***************************************************************************)
(* What holds of the Redis backend for any number of processes, sets,      *)
(* files, hashes and tags.  First, that the invariant IInv holds initially *)
(* and that every step of a scan, of a tag process and of a deletion keeps *)
(* it: one lemma per action, named after it, after the facts that all of   *)
(* them use and the frames (what a step keeps of IInv by leaving part of   *)
(* the state alone, or by only removing from it).  Then the properties     *)
(* that follow.                                                            *)
(***************************************************************************)
EXTENDS RedisInvariant, TLAPS

USE StoreAssumption, ClientAssumption

\* A scan has items, and the items have hashes.
LEMMA DiscFacts ==
  ASSUME TypeOK, NEW c \in Scanners
  PROVE  /\ scan[c].disc \in Seq(Hashes)
         /\ DataSize(c) \in Nat \ {0}
         /\ \A i \in 1 .. DataSize(c) : scan[c].disc[i] \in Hashes
<1>1. scan[c].disc \in Discs
  BY DEF TypeOK, ScanLocals
<1>2. scan[c].disc \in Seq(Hashes) /\ scan[c].disc # <<>>
  BY <1>1
<1>3. QED
  BY <1>2 DEF DataSize

\* The numbers in the locals of a scan.
LEMMA ScanNats ==
  ASSUME TypeOK, NEW s \in Scanners
  PROVE  /\ scan[s].hit \in Nat
         /\ scan[s].owner \in Nat
         /\ scan[s].group \in Nat
         /\ scan[s].base \in Nat
         /\ scan[s].written \in Nat
<1>1. scan[s] \in ScanLocals
  BY DEF TypeOK
<1>2. QED
  BY <1>1 DEF ScanLocals

\* chunked_run queues DELs of keys of files: ids that are natural numbers.
LEMMA ChunkedRunType ==
  ASSUME NEW from \in Nat, NEW count \in Nat
  PROVE  ChunkedRun(from, count) \in Seq(SUBSET Nat)
<1> DEFINE start == TailStart(from, count)
           full == [i \in 1 .. count \div Chunk |->
                      IdRange((i - 1) * Chunk + from, Chunk)]
           tail == [i \in 1 .. from + count - start |-> {start + i - 1}]
<1>1. count \div Chunk \in Nat
  OBVIOUS
<1>2. (from + count) \div Chunk \in Nat
  OBVIOUS
<1>3. start \in Nat /\ start <= from + count
  BY <1>2 DEF TailStart
<1>4. full \in Seq(SUBSET Nat)
  <2>1. ASSUME NEW i \in 1 .. count \div Chunk
        PROVE  IdRange((i - 1) * Chunk + from, Chunk) \in SUBSET Nat
    <3>1. (i - 1) * Chunk \in Nat
      BY <1>1
    <3>2. QED
      BY <3>1 DEF IdRange
  <2>2. QED
    BY <1>1, <2>1
<1>5. tail \in Seq(SUBSET Nat)
  BY <1>3
<1>6. QED
  BY <1>4, <1>5 DEF ChunkedRun

\* The invariant holds before any process has done anything.
LEMMA InitOK == Init => IInv
<1> SUFFICES ASSUME Init PROVE IInv
  OBVIOUS
<1> USE DEF Init, StoreInit, NoFile, NoSet, NoRange, InvalidGroupID,
            FileExists, SetExists
<1>1. PICK disc \in [Scanners -> Discs] :
        scan = [c \in Scanners |->
                 [disc |-> disc[c], hit |-> 0, owner |-> InvalidGroupID,
                  group |-> InvalidGroupID, base |-> 0, written |-> 0]]
  OBVIOUS
<1>2. TypeOK
  <2>1. StoreTypeOK
    BY DEF StoreTypeOK, SetIds, FileIds
  <2>2. pc \in [Clients -> Labels] /\ err \in [Clients -> BOOLEAN]
    BY DEF Labels
  <2>3. scan \in [Scanners -> ScanLocals]
    BY <1>1 DEF ScanLocals
  <2>4. edit \in [Editors -> EditLocals]
    BY DEF EditLocals, Modes
  <2>5. dele \in [Deleters -> DeleLocals]
    BY DEF DeleLocals
  <2>6. QED
    BY <2>1, <2>2, <2>3, <2>4, <2>5 DEF TypeOK
<1>3. \A c \in Scanners : DataSize(c) \in Nat
  BY <1>2, DiscFacts
<1>4. ScanProgress
  BY <1>1, <1>3 DEF ScanProgress, Named, Allocated, BeforeIncrSet, Clients
<1>5. IdsCounted /\ IdsDistinct
  BY <1>1 DEF IdsCounted, IdsDistinct, Named, Allocated
<1>6. SetsHaveWriters /\ FilesHaveWriters
  BY DEF SetsHaveWriters, FilesHaveWriters, SetIds, FileIds
<1>7. TaggedFilesWritten /\ HashedFilesWritten /\ TagIndexExact
  BY DEF TaggedFilesWritten, HashedFilesWritten, TagIndexExact
<1>8. RangesHaveWriters /\ DeleteProgress
  BY DEF RangesHaveWriters, DeleteProgress, Clients, Editors
<1>9. QED
  BY <1>2, <1>4, <1>5, <1>6, <1>7, <1>8 DEF IInv

-----------------------------------------------------------------------------
(* Frames.  Scans only move on, which keeps every witness of IInv valid.    *)

Onward ==
  \A c \in Scanners :
    /\ scan'[c].disc = scan[c].disc
    /\ Allocated(c) => /\ scan'[c].group = scan[c].group
                       /\ scan'[c].base = scan[c].base
                       /\ pc[c] # "hmset_set" => pc'[c] # "hmset_set"
    /\ scan[c].written <= scan'[c].written

SameScans ==
  /\ UNCHANGED <<indices, scan>>
  /\ \A c \in Scanners : pc'[c] = pc[c]

\* A file or a set that a scan wrote stays written by it, with the same
\* record: the ids and the items of a scan do not change any more.
LEMMA OnwardWriters ==
  ASSUME IInv, TypeOK', Onward, NEW c \in Scanners
  PROVE  /\ \A f \in FileIds : Wrote(c, f) =>
              /\ Wrote(c, f)'
              /\ scan'[c].group = scan[c].group
              /\ scan'[c].disc[f - scan'[c].base + 1]
                   = scan[c].disc[f - scan[c].base + 1]
         /\ \A r : Writes(c, r) /\ pc[c] # "hmset_set" =>
              Writes(c, r)' /\ pc'[c] # "hmset_set"
<1>1. scan[c].base \in Nat /\ scan[c].written \in Nat
  BY ScanNats DEF IInv
<1>2. scan'[c].base \in Nat /\ scan'[c].written \in Nat
  <2>1. scan'[c] \in ScanLocals
    BY DEF TypeOK
  <2>2. QED
    BY <2>1 DEF ScanLocals
<1>3. /\ scan'[c].disc = scan[c].disc
      /\ DataSize(c)' = DataSize(c)
      /\ scan[c].written <= scan'[c].written
      /\ Allocated(c) => /\ Allocated(c)'
                         /\ scan'[c].group = scan[c].group
                         /\ scan'[c].base = scan[c].base
                         /\ pc[c] # "hmset_set" => pc'[c] # "hmset_set"
  BY DEF Onward, Allocated, DataSize
<1>4. ASSUME NEW f \in FileIds, Wrote(c, f)
      PROVE  /\ Wrote(c, f)'
             /\ scan'[c].group = scan[c].group
             /\ scan'[c].disc[f - scan'[c].base + 1]
                  = scan[c].disc[f - scan[c].base + 1]
  <2>1. Allocated(c)
    BY <1>4 DEF Wrote
  <2>2. /\ Allocated(c)'
        /\ scan'[c].group = scan[c].group
        /\ scan'[c].base = scan[c].base
        /\ scan'[c].disc = scan[c].disc
    BY <1>3, <2>1
  <2>3. f \in IdRange(scan[c].base, scan[c].written)
    BY <1>4 DEF Wrote
  <2>4. \A b, v, w \in Nat :
          v <= w /\ f \in b .. b + v - 1 => f \in b .. b + w - 1
    OBVIOUS
  <2>5. f \in IdRange(scan[c].base, scan'[c].written)
    BY <1>1, <1>2, <1>3, <2>3, <2>4 DEF IdRange
  <2>6. Wrote(c, f)'
    BY <2>2, <2>5 DEF Wrote
  <2>7. QED
    BY <2>2, <2>6
<1>5. ASSUME NEW r, Writes(c, r), pc[c] # "hmset_set"
      PROVE  Writes(c, r)' /\ pc'[c] # "hmset_set"
  <2>1. /\ Allocated(c)
        /\ r = [group |-> scan[c].group, base  |-> scan[c].base,
                                         count |-> DataSize(c)]
    BY <1>5 DEF Writes
  <2>2. /\ Allocated(c)'
        /\ scan'[c].group = scan[c].group
        /\ scan'[c].base = scan[c].base
        /\ DataSize(c)' = DataSize(c)
        /\ pc'[c] # "hmset_set"
    BY <1>3, <1>5, <2>1
  <2>3. QED
    BY <2>1, <2>2 DEF Writes
<1>6. QED
  BY <1>4, <1>5

\* A step that moves no scan keeps what IInv says of the scans alone.
LEMMA SameScansOK ==
  ASSUME IInv, SameScans
  PROVE  Onward /\ ScanProgress' /\ IdsCounted' /\ IdsDistinct'
<1>1. \A c \in Scanners : scan[c].written \in Nat
  BY DEF IInv, TypeOK, ScanLocals
<1>2. Onward
  BY <1>1 DEF SameScans, Onward
<1>3. ScanProgress'
  BY DEF IInv, SameScans, ScanProgress, Named, Allocated, DataSize
<1>4. IdsCounted' /\ IdsDistinct'
  BY DEF IInv, SameScans, IdsCounted, IdsDistinct, Named, Allocated, DataSize
<1>5. QED
  BY <1>2, <1>3, <1>4

\* Deleting records of sets keeps the writers of the others.
LEMMA SetsFrame ==
  ASSUME IInv, TypeOK', Onward,
         \A g \in SetIds : sets'[g] = sets[g] \/ sets'[g] = NoSet
  PROVE  SetsHaveWriters'
<1> SUFFICES ASSUME NEW g \in SetIds, SetExists(g)'
             PROVE  \E c \in Scanners :
                      /\ Writes(c, [group |-> g, base  |-> sets[g].base,
                                                 count |-> sets[g].count])'
                      /\ pc'[c] # "hmset_set"
  BY DEF SetsHaveWriters
<1>1. sets'[g] = sets[g] /\ SetExists(g)
  BY DEF SetExists, NoSet
<1>2. PICK c \in Scanners :
        /\ Writes(c, [group |-> g, base  |-> sets[g].base,
                                   count |-> sets[g].count])
        /\ pc[c] # "hmset_set"
  BY <1>1 DEF IInv, SetsHaveWriters
<1>3. QED
  BY <1>1, <1>2, OnwardWriters

\* Deleting records of files, or editing their tags, keeps their writers.
LEMMA FilesFrame ==
  ASSUME IInv, TypeOK', Onward,
         \A f \in FileIds :
           \/ files'[f] = NoFile
           \/ files'[f] = files[f]
           \/ /\ FileExists(f)
              /\ files'[f].group = files[f].group
              /\ files'[f].hash = files[f].hash
  PROVE  FilesHaveWriters'
<1> SUFFICES ASSUME NEW f \in FileIds
             PROVE  IF FileExists(f)'
                      THEN \E c \in Scanners :
                             /\ Wrote(c, f)'
                             /\ files'[f].group = scan'[c].group
                             /\ files'[f].hash
                                  = scan'[c].disc[f - scan'[c].base + 1]
                      ELSE files'[f].tags = {}
  BY DEF FilesHaveWriters
<1>1. CASE files'[f] = NoFile
  BY <1>1 DEF FileExists, NoFile
<1>2. CASE files'[f] # NoFile /\ ~ FileExists(f)
  BY <1>2 DEF FileExists, IInv, FilesHaveWriters
<1>3. CASE files'[f] # NoFile /\ FileExists(f)
  <2>1. PICK c \in Scanners :
          /\ Wrote(c, f)
          /\ files[f].group = scan[c].group
          /\ files[f].hash = scan[c].disc[f - scan[c].base + 1]
    BY <1>3 DEF IInv, FilesHaveWriters
  <2>2. /\ Wrote(c, f)'
        /\ files'[f].group = scan'[c].group
        /\ files'[f].hash = scan'[c].disc[f - scan'[c].base + 1]
    BY <1>3, <2>1, OnwardWriters
  <2>3. FileExists(f)'
    BY <1>3 DEF FileExists
  <2>4. QED
    BY <2>2, <2>3
<1>4. QED
  BY <1>1, <1>2, <1>3

\* The files in the tag keys stay written when the tag keys do not change.
LEMMA TagsFrame ==
  ASSUME IInv, TypeOK', Onward, UNCHANGED tags
  PROVE  TaggedFilesWritten'
<1> SUFFICES ASSUME NEW t \in Tags, NEW f \in tags[t]
             PROVE  \E c \in Scanners : Wrote(c, f)'
  BY DEF TaggedFilesWritten
<1>1. f \in FileIds
  BY DEF IInv, TypeOK, StoreTypeOK
<1>2. PICK c \in Scanners : Wrote(c, f)
  BY DEF IInv, TaggedFilesWritten
<1>3. QED
  BY <1>1, <1>2, OnwardWriters

\* The files in the hash keys stay written when the hash keys lose members.
LEMMA HashesFrame ==
  ASSUME IInv, TypeOK', Onward,
         \A h \in Hashes : hashes'[h] \subseteq hashes[h]
  PROVE  HashedFilesWritten'
<1> SUFFICES ASSUME NEW h \in Hashes, NEW f \in hashes'[h]
             PROVE  \E c \in Scanners :
                      /\ Wrote(c, f)'
                      /\ scan'[c].disc[f - scan'[c].base + 1] = h
  BY DEF HashedFilesWritten
<1>1. f \in FileIds /\ f \in hashes[h]
  BY DEF IInv, TypeOK, StoreTypeOK
<1>2. PICK c \in Scanners :
        Wrote(c, f) /\ scan[c].disc[f - scan[c].base + 1] = h
  BY <1>1 DEF IInv, HashedFilesWritten
<1>3. QED
  BY <1>1, <1>2, OnwardWriters

\* The sets deletions work on stay written while no deletion moves.
LEMMA RangesFrame ==
  ASSUME IInv, TypeOK', Onward, UNCHANGED dele
  PROVE  RangesHaveWriters'
<1>1. ASSUME NEW d \in Deleters, NEW r \in dele[d].ranges
      PROVE  \E c \in Scanners : Writes(c, r)' /\ pc'[c] # "hmset_set"
  <2>1. PICK c \in Scanners : Writes(c, r) /\ pc[c] # "hmset_set"
    BY DEF IInv, RangesHaveWriters
  <2>2. QED
    BY <2>1, OnwardWriters
<1>2. QED
  BY <1>1 DEF IInv, RangesHaveWriters

\* Where no deletion moves, but to the first loop or to its failure, sets that
\* were deleted stay so.
LEMMA DeleteFrame ==
  ASSUME IInv, UNCHANGED dele,
         \A d \in Deleters :
           \/ pc'[d] = pc[d]
           \/ pc'[d] \in {"get_tags", "run_tags", "failed"},
         \A g \in SetIds : sets'[g] = sets[g] \/ sets'[g] = NoSet
  PROVE  DeleteProgress'
<1>1. \A d \in Deleters : \A r \in dele[d].ranges : r.group \in SetIds
  BY DEF IInv, TypeOK, DeleLocals, IDRange
<1>2. \A g \in SetIds : ~ SetExists(g) => ~ SetExists(g)'
  BY DEF SetExists, NoSet
<1>3. QED
  BY <1>1, <1>2 DEF IInv, DeleteProgress, BeforeConfirm

-----------------------------------------------------------------------------
(* Steps of every process: the connection.                                  *)

\* connect and the loading of the scripts keep IInv.
LEMMA ConnectOK ==
  ASSUME IInv, NEW c \in Clients, ConnectStep(c)
  PROVE  IInv'
<1>1. /\ UNCHANGED <<indices, sets, files, hashes, levels, tags>>
      /\ UNCHANGED <<err, scan, edit, dele>>
      /\ scripts' \in SUBSET ScriptNames
      /\ pc[c] \in {"connect", "load_tag", "load_dele", "load_hash"}
      /\ pc' = [pc EXCEPT ![c] = pc'[c]]
      /\ pc'[c] \in BeforeIncrSet \cup {"start"}
      /\ c \in Scanners => pc'[c] \in BeforeIncrSet \ {"hscan_file"}
  BY DEF ConnectStep, Connect, LoadScripts, LoadScript, At, Goto, IInv,
         TypeOK, StoreTypeOK, ScriptNames, BeforeIncrSet
<1>2. TypeOK'
  BY <1>1 DEF IInv, TypeOK, StoreTypeOK, Labels, BeforeIncrSet, Clients
<1>3. ScanProgress'
  BY <1>1 DEF IInv, TypeOK, ScanProgress, Named, Allocated, DataSize,
              BeforeIncrSet, Clients
<1>4. IdsCounted' /\ IdsDistinct'
  BY <1>1 DEF IInv, IdsCounted, IdsDistinct, Named, Allocated, DataSize
<1>5. Onward
  <2>1. \A s \in Scanners : scan[s].written \in Nat
    BY DEF IInv, TypeOK, ScanLocals
  <2>2. QED
    BY <1>1, <2>1 DEF Onward, IInv, TypeOK, Clients, BeforeIncrSet
<1>6. SetsHaveWriters' /\ FilesHaveWriters' /\ TaggedFilesWritten'
        /\ HashedFilesWritten' /\ RangesHaveWriters'
  BY <1>1, <1>2, <1>5, SetsFrame, FilesFrame, TagsFrame, HashesFrame,
     RangesFrame
<1>7. DeleteProgress'
  BY <1>1 DEF IInv, TypeOK, DeleteProgress, SetExists, BeforeIncrSet,
              BeforeConfirm, Clients,
              Editors
<1>8. TagIndexExact'
  BY <1>1 DEF IInv, TagIndexExact, FileExists
<1>9. QED
  BY <1>2, <1>3, <1>4, <1>6, <1>7, <1>8 DEF IInv

-----------------------------------------------------------------------------
(* Steps of a scan.                                                         *)

\* A scan touches neither tags nor the locals of deletions.
LEMMA ScanFrame ==
  ASSUME IInv, NEW c \in Scanners, UNCHANGED <<edit, dele, sets>>,
         pc' = [pc EXCEPT ![c] = pc'[c]]
  PROVE  DeleteProgress'
<1>1. \A d \in Deleters : pc'[d] = pc[d]
  BY DEF IInv, TypeOK, Clients, Editors
<1>2. QED
  BY <1>1, DeleteFrame

\* HINCRBY indices.set keeps IInv: the new set id is past all others.
LEMMA IncrSetOK ==
  ASSUME IInv, NEW c \in Scanners, IncrSet(c)
  PROVE  IInv'
<1> USE DEF IncrSet, At, Goto
<1>1. /\ scan \in [Scanners -> ScanLocals]
      /\ indices \in [set : 0 .. MaxSets, files : 0 .. MaxFiles]
      /\ pc \in [Clients -> Labels]
      /\ c \in Clients
  BY DEF IInv, TypeOK, StoreTypeOK, Clients
<1>2. TypeOK'
  <2>1. indices.set + 1 \in 0 .. MaxSets
    BY <1>1
  <2>2. scan' \in [Scanners -> ScanLocals]
    <3>1. [scan[c] EXCEPT !.group = indices.set + 1] \in ScanLocals
      BY <1>1, <2>1 DEF ScanLocals
    <3>2. scan' = [scan EXCEPT ![c] =
                     [scan[c] EXCEPT !.group = indices.set + 1]]
      BY <1>1
    <3>3. QED
      BY <1>1, <3>1, <3>2
  <2>3. indices' \in [set : 0 .. MaxSets, files : 0 .. MaxFiles]
    BY <1>1, <2>1
  <2>4. pc' \in [Clients -> Labels]
    BY <1>1 DEF Labels
  <2>5. QED
    BY <2>2, <2>3, <2>4 DEF IInv, TypeOK, StoreTypeOK
<1>3. /\ \A s \in Scanners : /\ scan'[s].disc = scan[s].disc
                             /\ scan'[s].hit = scan[s].hit
                             /\ scan'[s].base = scan[s].base
                             /\ scan'[s].written = scan[s].written
                             /\ scan[s].written \in Nat
                             /\ scan[s].group \in Nat
                             /\ s # c => scan'[s].group = scan[s].group
      /\ scan'[c].group = indices.set + 1
      /\ indices.set \in Nat /\ indices'.set = indices.set + 1
      /\ indices'.files = indices.files
      /\ ~ Allocated(c) /\ scan[c].written = 0
  <2>1. \A s \in Scanners : scan[s].written \in Nat /\ scan[s].group \in Nat
    BY ScanNats DEF IInv
  <2>2. \A s \in Scanners : /\ scan'[s].disc = scan[s].disc
                            /\ scan'[s].hit = scan[s].hit
                            /\ scan'[s].base = scan[s].base
                            /\ scan'[s].written = scan[s].written
                            /\ s # c => scan'[s].group = scan[s].group
    BY <1>1 DEF ScanLocals
  <2>3. /\ scan'[c].group = indices.set + 1
        /\ indices.set \in Nat /\ indices'.set = indices.set + 1
        /\ indices'.files = indices.files
    BY <1>1 DEF ScanLocals
  <2>4. ~ Allocated(c) /\ scan[c].written = 0
    BY DEF IInv, ScanProgress, BeforeIncrSet
  <2>5. QED
    BY <2>1, <2>2, <2>3, <2>4
<1>4. ScanProgress'
  <2>1. \A s \in Scanners : /\ DataSize(s)' = DataSize(s)
                            /\ Allocated(s)' = Allocated(s)
                            /\ s # c => Named(s)' = Named(s)
                            /\ s # c => pc'[s] = pc[s]
    BY <1>1, <1>3 DEF DataSize, Allocated, Named, Clients
  <2>2. Named(c)' /\ pc'[c] = "incr_files" /\ 0 <= DataSize(c)
    BY <1>1, <1>3, DiscFacts DEF IInv, Named, InvalidGroupID
  <2>3. QED
    BY <1>3, <2>1, <2>2 DEF IInv, ScanProgress, BeforeIncrSet
<1>5. IdsCounted'
  BY <1>3 DEF IInv, IdsCounted, Allocated, DataSize
<1>6. IdsDistinct'
  BY <1>3 DEF IInv, IdsCounted, IdsDistinct, Named, Allocated, DataSize,
              InvalidGroupID
<1>7. Onward
  BY <1>1, <1>3 DEF Onward, Allocated, Clients
<1>8. SetsHaveWriters' /\ FilesHaveWriters' /\ TaggedFilesWritten'
        /\ HashedFilesWritten' /\ RangesHaveWriters' /\ DeleteProgress'
  BY <1>1, <1>2, <1>7, SetsFrame, FilesFrame, TagsFrame, HashesFrame,
     RangesFrame, ScanFrame
<1>9. TagIndexExact'
  BY DEF IInv, TagIndexExact, FileExists
<1>10. QED
  BY <1>2, <1>4, <1>5, <1>6, <1>8, <1>9 DEF IInv

\* HINCRBY indices.files keeps IInv: the new file ids are past all others.
LEMMA IncrFilesOK ==
  ASSUME IInv, NEW c \in Scanners, IncrFiles(c)
  PROVE  IInv'
<1> DEFINE file_id == indices.files + DataSize(c)
<1>1. /\ scan \in [Scanners -> ScanLocals]
      /\ indices \in [set : 0 .. MaxSets, files : 0 .. MaxFiles]
      /\ pc \in [Clients -> Labels]
      /\ c \in Clients
      /\ \A s \in Scanners : DataSize(s) \in Nat \ {0}
  BY DiscFacts DEF IInv, TypeOK, StoreTypeOK, Clients
<1>2. /\ pc[c] = "incr_files"
      /\ file_id <= MaxFiles
      /\ indices' = [indices EXCEPT !.files = file_id]
      /\ scan' = [scan EXCEPT ![c].base = file_id - DataSize(c) + 1]
      /\ pc' = [pc EXCEPT ![c] = "hmset_set"]
      /\ UNCHANGED <<sets, files, hashes, levels, tags, scripts>>
      /\ UNCHANGED <<err, edit, dele>>
  BY DEF IncrFiles, At, Goto
<1>3. /\ indices.files \in Nat
      /\ file_id \in 0 .. MaxFiles
      /\ file_id - DataSize(c) + 1 = indices.files + 1
      /\ indices.files + 1 \in 0 .. MaxFiles
  BY <1>1, <1>2
<1>4. scan' = [scan EXCEPT ![c].base = indices.files + 1]
  BY <1>2, <1>3, Zenon
<1> HIDE DEF file_id
<1>5. TypeOK'
  <2>1. [scan[c] EXCEPT !.base = indices.files + 1] \in ScanLocals
    BY <1>1, <1>3 DEF ScanLocals
  <2>2. scan' = [scan EXCEPT ![c] = [scan[c] EXCEPT !.base = indices.files + 1]]
    BY <1>1, <1>4
  <2>3. scan' \in [Scanners -> ScanLocals]
    BY <1>1, <2>1, <2>2
  <2>4. indices' \in [set : 0 .. MaxSets, files : 0 .. MaxFiles]
    BY <1>1, <1>2, <1>3
  <2>5. pc' \in [Clients -> Labels]
    BY <1>1, <1>2 DEF Labels
  <2>6. QED
    BY <1>2, <2>3, <2>4, <2>5 DEF IInv, TypeOK, StoreTypeOK
<1>6. /\ \A s \in Scanners : /\ scan[s].written \in Nat
                             /\ scan[s].group \in Nat
                             /\ scan[s].base \in Nat
                             /\ DataSize(s)' = DataSize(s)
                             /\ scan'[s].disc = scan[s].disc
                             /\ scan'[s].group = scan[s].group
                             /\ scan'[s].written = scan[s].written
                             /\ s # c => scan'[s].base = scan[s].base
      /\ scan'[c].base = indices.files + 1
  <2>1. \A s \in Scanners : /\ scan[s].written \in Nat
                            /\ scan[s].group \in Nat
                            /\ scan[s].base \in Nat
    BY ScanNats DEF IInv
  <2>2. \A s \in Scanners : /\ scan'[s].disc = scan[s].disc
                            /\ scan'[s].group = scan[s].group
                            /\ scan'[s].written = scan[s].written
                            /\ s # c => scan'[s].base = scan[s].base
    BY <1>1, <1>4 DEF ScanLocals
  <2>3. scan'[c].base = indices.files + 1
    BY <1>1, <1>4 DEF ScanLocals
  <2>4. QED
    BY <2>1, <2>2, <2>3 DEF DataSize
<1>7. /\ indices'.files = indices.files + DataSize(c)
      /\ indices'.set = indices.set
  BY <1>1, <1>2 DEF file_id
<1>8. Named(c) /\ ~ Allocated(c) /\ scan[c].written = 0
  BY <1>2 DEF IInv, ScanProgress
<1>9. ScanProgress'
  BY <1>1, <1>2, <1>3, <1>6, <1>8
  DEF IInv, ScanProgress, Named, Allocated, BeforeIncrSet, Clients
<1>10. IdsCounted'
  <2>1. ASSUME NEW s \in Scanners
        PROVE  /\ scan'[s].group <= indices'.set
               /\ Allocated(s)' =>
                    scan'[s].base + DataSize(s)' - 1 <= indices'.files
    <3>1. CASE s = c
      <4>1. scan[c].group <= indices.set
        BY DEF IInv, IdsCounted
      <4>2. QED
        BY <3>1, <4>1, <1>1, <1>3, <1>6, <1>7
    <3>2. CASE s # c
      <4>1. Allocated(s)' = Allocated(s)
        BY <3>2, <1>6 DEF Allocated
      <4>2. /\ scan[s].group <= indices.set
            /\ Allocated(s) => scan[s].base + DataSize(s) - 1 <= indices.files
        BY DEF IInv, IdsCounted
      <4>3. /\ scan'[s].group = scan[s].group
            /\ scan'[s].base = scan[s].base
            /\ DataSize(s)' = DataSize(s)
            /\ scan[s].base \in Nat
        BY <3>2, <1>6
      <4>4. DataSize(s) \in Nat /\ DataSize(c) \in Nat
        BY <1>1
      <4>5. QED
        BY <4>1, <4>2, <4>3, <4>4, <1>3, <1>7
    <3>3. QED
      BY <3>1, <3>2
  <2>2. QED
    BY <2>1 DEF IdsCounted
<1>11. IdsDistinct'
  <2>1. \A s \in Scanners \ {c} :
          Allocated(s) => scan[s].base + DataSize(s) <= indices.files + 1
    BY <1>1, <1>3, <1>6 DEF IInv, IdsCounted
  <2>2. \A s \in Scanners : /\ Named(s)' = Named(s)
                            /\ s # c => Allocated(s)' = Allocated(s)
    BY <1>6 DEF Named, Allocated
  <2>3. \A s, d \in Scanners :
          /\ s # d => (Named(s) => scan[s].group # scan[d].group)
          /\ s # d /\ Allocated(s) /\ Allocated(d) =>
               \/ scan[s].base + DataSize(s) <= scan[d].base
               \/ scan[d].base + DataSize(d) <= scan[s].base
    BY DEF IInv, IdsDistinct
  <2>4. ASSUME NEW s \in Scanners, NEW d \in Scanners, s # d,
               Allocated(s)', Allocated(d)'
        PROVE  \/ scan'[s].base + DataSize(s)' <= scan'[d].base
               \/ scan'[d].base + DataSize(d)' <= scan'[s].base
    <3>1. CASE s = c
      BY <3>1, <2>1, <2>2, <2>4, <1>6
    <3>2. CASE d = c
      BY <3>2, <2>1, <2>2, <2>4, <1>6
    <3>3. CASE s # c /\ d # c
      BY <3>3, <2>2, <2>3, <2>4, <1>6
    <3>4. QED
      BY <3>1, <3>2, <3>3
  <2>5. QED
    BY <2>2, <2>3, <2>4, <1>6 DEF IdsDistinct
<1>12. Onward
  BY <1>1, <1>2, <1>6, <1>8 DEF Onward, Allocated, Clients
<1>13. SetsHaveWriters' /\ FilesHaveWriters' /\ TaggedFilesWritten'
        /\ HashedFilesWritten' /\ RangesHaveWriters' /\ DeleteProgress'
  BY <1>1, <1>2, <1>5, <1>12, SetsFrame, FilesFrame, TagsFrame, HashesFrame,
     RangesFrame, ScanFrame
<1>14. TagIndexExact'
  BY <1>2 DEF IInv, TagIndexExact, FileExists
<1>15. QED
  BY <1>5, <1>9, <1>10, <1>11, <1>13, <1>14 DEF IInv

\* The search leaves the store and the ids of the scan alone.
LEMMA SearchOK ==
  ASSUME IInv, NEW c \in Scanners,
         SRandMember(c) \/ HScanFile(c) \/ HScanSet(c)
  PROVE  IInv'
<1>1. /\ UNCHANGED <<store, err, edit, dele>>
      /\ pc[c] \in {"srandmember", "hscan_file", "hscan_set"}
      /\ pc'[c] \in {"hscan_file", "hscan_set", "incr_set", "done"}
      /\ pc' = [pc EXCEPT ![c] = pc'[c]]
      /\ \/ scan' = scan /\ pc'[c] # "hscan_file"
         \/ \E f \in FileIds : scan' = [scan EXCEPT ![c].hit = f]
         \/ /\ \E g \in 0 .. MaxSets : scan' = [scan EXCEPT ![c].owner = g]
            /\ pc'[c] # "hscan_file"
  <2>1. pc \in [Clients -> Labels] /\ c \in Clients
    BY DEF IInv, TypeOK, Clients
  <2>2. CASE SRandMember(c)
    <3>1. scan[c].disc \in Seq(Hashes) /\ scan[c].disc # <<>>
      BY DiscFacts DEF IInv, DataSize
    <3>2. Head(scan[c].disc) \in Hashes
      BY <3>1
    <3>3. hashes[Head(scan[c].disc)] \subseteq FileIds
      BY <3>2 DEF IInv, TypeOK, StoreTypeOK
    <3>4. QED
      BY <2>1, <2>2, <3>3 DEF SRandMember, At, Goto
  <2>3. CASE HScanFile(c)
    <3>1. scan[c].hit \in FileIds
      <4>1. scan[c].hit \in 0 .. MaxFiles
        BY DEF IInv, TypeOK, ScanLocals
      <4>2. scan[c].hit # 0
        BY <2>3 DEF HScanFile, At, IInv, ScanProgress
      <4>3. QED
        BY <4>1, <4>2 DEF FileIds
    <3>2. files[scan[c].hit].group \in 0 .. MaxSets
      BY <3>1 DEF IInv, TypeOK, StoreTypeOK
    <3>3. QED
      BY <2>1, <2>3, <3>2 DEF HScanFile, At, Goto
  <2>4. CASE HScanSet(c)
    BY <2>1, <2>4 DEF HScanSet, At, Goto
  <2>5. QED
    BY <2>2, <2>3, <2>4
<1> DEFINE Kept(s) == /\ scan'[s].disc = scan[s].disc
                      /\ scan'[s].group = scan[s].group
                      /\ scan'[s].base = scan[s].base
                      /\ scan'[s].written = scan[s].written
<1>2. /\ scan' \in [Scanners -> ScanLocals]
      /\ \A s \in Scanners : Kept(s)
      /\ pc'[c] = "hscan_file" => scan'[c].hit # 0
      /\ \A s \in Scanners \ {c} : scan'[s] = scan[s]
  <2>1. scan \in [Scanners -> ScanLocals]
    BY DEF IInv, TypeOK
  <2>2. CASE scan' = scan /\ pc'[c] # "hscan_file"
    BY <2>1, <2>2
  <2>3. ASSUME NEW f \in FileIds, scan' = [scan EXCEPT ![c].hit = f]
        PROVE  <1>2
    <3>1. f \in 0 .. MaxFiles /\ f # 0
      BY DEF FileIds
    <3>2. scan' \in [Scanners -> ScanLocals]
      BY <2>1, <2>3, <3>1 DEF ScanLocals
    <3>3. (\A s \in Scanners : Kept(s)) /\ scan'[c].hit = f
      BY <2>1, <2>3 DEF ScanLocals
    <3>4. \A s \in Scanners \ {c} : scan'[s] = scan[s]
      BY <2>1, <2>3
    <3>5. QED
      BY <3>1, <3>2, <3>3, <3>4
  <2>4. ASSUME NEW g \in 0 .. MaxSets, scan' = [scan EXCEPT ![c].owner = g],
               pc'[c] # "hscan_file"
        PROVE  <1>2
    <3>1. scan' \in [Scanners -> ScanLocals]
      BY <2>1, <2>4 DEF ScanLocals
    <3>2. \A s \in Scanners : Kept(s)
      BY <2>1, <2>4 DEF ScanLocals
    <3>3. \A s \in Scanners \ {c} : scan'[s] = scan[s]
      BY <2>1, <2>4
    <3>4. QED
      BY <2>4, <3>1, <3>2, <3>3
  <2>5. QED
    BY <1>1, <2>2, <2>3, <2>4
<1>2a. \A s \in Scanners : DataSize(s)' = DataSize(s)
  BY <1>2 DEF DataSize
<1>3. TypeOK'
  <2>1. pc' \in [Clients -> Labels]
    BY <1>1 DEF IInv, TypeOK, Labels
  <2>2. QED
    BY <1>1, <1>2, <2>1 DEF IInv, TypeOK, StoreTypeOK, store
<1>4. ScanProgress'
  <2>1. \A s \in Scanners : s # c => pc'[s] = pc[s]
    BY <1>1 DEF IInv, TypeOK, Clients
  <2>2. pc[c] \in BeforeIncrSet =>
          ~ Named(c)' /\ ~ Allocated(c)' /\ scan'[c].written = 0
    BY <1>2 DEF IInv, ScanProgress, Named, Allocated
  <2>3. pc'[c] \in {"hscan_file", "hscan_set", "incr_set", "done"}
    BY <1>1
  <2>4. pc[c] \in BeforeIncrSet
    BY <1>1 DEF BeforeIncrSet
  <2>5. \A s \in Scanners \ {c} : /\ Named(s)' = Named(s)
                                  /\ Allocated(s)' = Allocated(s)
    BY <1>2 DEF Named, Allocated
  <2>6. DataSize(c) \in Nat
    BY DiscFacts DEF IInv
  <2>7. QED
    BY <1>2, <1>2a, <2>1, <2>2, <2>3, <2>4, <2>5, <2>6
    DEF IInv, ScanProgress
<1>5. IdsCounted' /\ IdsDistinct'
  <2>1. indices' = indices
    BY <1>1 DEF store
  <2>2. QED
    BY <1>2, <1>2a, <2>1 DEF IInv, IdsCounted, IdsDistinct, Named, Allocated
<1>6. Onward
  <2>1. \A s \in Scanners : scan[s].written \in Nat
    BY ScanNats DEF IInv
  <2>2. \A s \in Scanners : pc[s] # "hmset_set" => pc'[s] # "hmset_set"
    BY <1>1 DEF IInv, TypeOK, Clients
  <2>3. QED
    BY <1>2, <2>1, <2>2 DEF Onward
<1>7. SetsHaveWriters' /\ FilesHaveWriters' /\ TaggedFilesWritten'
        /\ HashedFilesWritten' /\ RangesHaveWriters' /\ DeleteProgress'
  BY <1>1, <1>3, <1>6, SetsFrame, FilesFrame, TagsFrame, HashesFrame,
     RangesFrame, ScanFrame DEF store
<1>8. TagIndexExact'
  BY <1>1 DEF IInv, TagIndexExact, FileExists, store
<1>9. QED
  BY <1>3, <1>4, <1>5, <1>7, <1>8 DEF IInv

\* A scan that writes moves on inside its own ids.
LEMMA WriteProgress ==
  ASSUME IInv, NEW c \in Scanners, UNCHANGED indices,
         pc[c] \in {"hmset_set", "hmset_file", "sadd_hash", "zadd_level"},
         pc' = [pc EXCEPT ![c] = pc'[c]],
         \/ UNCHANGED scan
         \/ /\ pc[c] = "hmset_file"
            /\ pc'[c] = "sadd_hash"
            /\ scan' = [scan EXCEPT ![c].written = scan[c].written + 1],
         pc'[c] \in {"hmset_file", "sadd_hash", "zadd_level", "done"},
         pc'[c] = "hmset_file" => scan[c].written < DataSize(c),
         pc'[c] = "zadd_level" => scan[c].written > 0,
         pc'[c] = "sadd_hash" => pc[c] = "hmset_file" /\ scan' # scan
  PROVE  Onward /\ ScanProgress' /\ IdsCounted' /\ IdsDistinct'
<1>1. /\ Allocated(c) /\ Named(c)
      /\ pc[c] = "hmset_file" => scan[c].written < DataSize(c)
      /\ scan[c].written <= DataSize(c)
      /\ DataSize(c) \in Nat
      /\ \A s \in Scanners : scan[s].written \in Nat
  BY DiscFacts, ScanNats DEF IInv, ScanProgress
<1>2. /\ \A s \in Scanners : /\ scan'[s].disc = scan[s].disc
                             /\ scan'[s].group = scan[s].group
                             /\ scan'[s].base = scan[s].base
                             /\ s # c => scan'[s].written = scan[s].written
                             /\ s # c => scan'[s].hit = scan[s].hit
      /\ \/ scan'[c].written = scan[c].written
         \/ /\ scan'[c].written = scan[c].written + 1
            /\ pc[c] = "hmset_file"
      /\ pc'[c] = "sadd_hash" => scan'[c].written = scan[c].written + 1
  <2>1. scan \in [Scanners -> ScanLocals]
    BY DEF IInv, TypeOK
  <2>2. CASE UNCHANGED scan
    BY <2>2
  <2>3. CASE /\ scan' = [scan EXCEPT ![c].written = scan[c].written + 1]
             /\ pc[c] = "hmset_file"
    BY <2>1, <2>3 DEF ScanLocals
  <2>4. QED
    BY <2>2, <2>3
<1>3. \A s \in Scanners : /\ DataSize(s)' = DataSize(s)
                          /\ Named(s)' = Named(s)
                          /\ Allocated(s)' = Allocated(s)
  BY <1>2 DEF DataSize, Named, Allocated
<1>4. \A s \in Scanners \ {c} : pc'[s] = pc[s]
  BY DEF IInv, TypeOK, Clients
<1>5. ScanProgress'
  <2>1. ASSUME NEW s \in Scanners, s # c
        PROVE  /\ scan'[s].written = scan[s].written
               /\ scan'[s].hit = scan[s].hit
               /\ pc'[s] = pc[s]
               /\ DataSize(s)' = DataSize(s)
               /\ Named(s)' = Named(s)
               /\ Allocated(s)' = Allocated(s)
    BY <2>1, <1>2, <1>3, <1>4
  <2>2. /\ Named(c)' /\ Allocated(c)'
        /\ pc'[c] = "hmset_file" => scan'[c].written < DataSize(c)'
        /\ pc'[c] \in {"sadd_hash", "zadd_level"} => scan'[c].written > 0
        /\ scan'[c].written <= DataSize(c)'
    BY <1>1, <1>2, <1>3
  <2>3. pc'[c] \notin BeforeIncrSet \cup {"incr_files", "hmset_set"}
    BY DEF BeforeIncrSet
  <2>4. QED
    BY <2>1, <2>2, <2>3 DEF IInv, ScanProgress, BeforeIncrSet
<1>6. IdsCounted' /\ IdsDistinct'
  BY <1>2, <1>3 DEF IInv, IdsCounted, IdsDistinct
<1>7. Onward
  BY <1>1, <1>2, <1>4 DEF Onward
<1>8. QED
  BY <1>5, <1>6, <1>7

\* The record of a set keeps IInv: its scan is the only one with that id.
LEMMA HMSetSetOK ==
  ASSUME IInv, NEW c \in Scanners, HMSetSet(c)
  PROVE  IInv'
<1> DEFINE g == scan[c].group
           new == [base |-> scan[c].base, count |-> DataSize(c)]
<1>1. /\ pc[c] = "hmset_set"
      /\ sets' = [sets EXCEPT ![g] = new]
      /\ pc' = [pc EXCEPT ![c] = "hmset_file"]
      /\ UNCHANGED <<indices, files, hashes, levels, tags, scripts>>
      /\ UNCHANGED <<err, scan, edit, dele>>
  BY DEF HMSetSet, At, Goto
<1>2. /\ pc \in [Clients -> Labels] /\ c \in Clients
      /\ sets \in [SetIds -> [base : 0 .. MaxFiles, count : 0 .. MaxFiles]]
      /\ DataSize(c) \in Nat \ {0}
  BY DiscFacts DEF IInv, TypeOK, StoreTypeOK, Clients
<1>3. /\ g \in SetIds
      /\ scan[c].base \in 1 .. MaxFiles
      /\ DataSize(c) \in 0 .. MaxFiles
      /\ Allocated(c)
      /\ scan[c].written = 0
  <2>1. scan[c].group \in 0 .. MaxSets /\ scan[c].base \in 0 .. MaxFiles
    BY DEF IInv, TypeOK, ScanLocals
  <2>2. Allocated(c) /\ Named(c) /\ scan[c].written = 0
    BY <1>1 DEF IInv, ScanProgress
  <2>3. scan[c].base + DataSize(c) - 1 <= indices.files
    BY <2>2 DEF IInv, IdsCounted
  <2>4. indices.files \in 0 .. MaxFiles
    BY DEF IInv, TypeOK, StoreTypeOK
  <2>5. QED
    BY <2>1, <2>2, <2>3, <2>4, <1>2
    DEF SetIds, Named, Allocated, InvalidGroupID
<1>4. TypeOK'
  <2>1. sets' \in [SetIds -> [base : 0 .. MaxFiles, count : 0 .. MaxFiles]]
    BY <1>1, <1>2, <1>3
  <2>2. pc' \in [Clients -> Labels]
    BY <1>1, <1>2 DEF Labels
  <2>3. QED
    BY <1>1, <2>1, <2>2 DEF IInv, TypeOK, StoreTypeOK
<1>5. pc'[c] = "hmset_file" /\ \A s \in Clients \ {c} : pc'[s] = pc[s]
  BY <1>1, <1>2
<1>6. Onward /\ ScanProgress' /\ IdsCounted' /\ IdsDistinct'
  <2>1. scan[c].written < DataSize(c)
    BY <1>2, <1>3
  <2>2. QED
    BY <1>1, <1>5, <2>1, WriteProgress
<1>7. /\ sets'[g] = new
      /\ \A k \in SetIds \ {g} : sets'[k] = sets[k]
  BY <1>1, <1>2, <1>3
<1>8. SetsHaveWriters'
  <2>1. ASSUME NEW k \in SetIds, SetExists(k)'
        PROVE  \E s \in Scanners :
                 /\ Writes(s, [group |-> k, base  |-> sets[k].base,
                                            count |-> sets[k].count])'
                 /\ pc'[s] # "hmset_set"
    <3>1. CASE k = g
      <4>1. DataSize(c)' = DataSize(c) /\ Allocated(c)'
        BY <1>1, <1>3 DEF DataSize, Allocated
      <4>2. [group |-> k, base |-> sets'[k].base, count |-> sets'[k].count]
              = [group |-> scan'[c].group, base |-> scan'[c].base,
                 count |-> DataSize(c)']
        BY <1>1, <1>7, <3>1, <4>1
      <4>3. QED
        BY <1>5, <4>1, <4>2 DEF Writes
    <3>2. CASE k # g
      <4>1. sets'[k] = sets[k] /\ SetExists(k)
        BY <1>7, <2>1, <3>2 DEF SetExists
      <4>2. PICK s \in Scanners :
              /\ Writes(s, [group |-> k, base  |-> sets[k].base,
                                         count |-> sets[k].count])
              /\ pc[s] # "hmset_set"
        BY <4>1 DEF IInv, SetsHaveWriters
      <4>3. QED
        BY <1>4, <1>6, <4>1, <4>2, OnwardWriters
    <3>3. QED
      BY <3>1, <3>2
  <2>2. QED
    BY <2>1 DEF SetsHaveWriters
<1>9. FilesHaveWriters' /\ TaggedFilesWritten' /\ HashedFilesWritten'
        /\ RangesHaveWriters'
  BY <1>1, <1>4, <1>6, FilesFrame, TagsFrame, HashesFrame, RangesFrame
<1>10. DeleteProgress'
  <2>1. ASSUME NEW d \in Deleters, NEW r \in dele[d].ranges
        PROVE  r.group \in SetIds \ {g}
    <3>1. r.group \in SetIds
      BY DEF IInv, TypeOK, DeleLocals, IDRange
    <3>2. PICK s \in Scanners : Writes(s, r) /\ pc[s] # "hmset_set"
      BY DEF IInv, RangesHaveWriters
    <3>3. s # c /\ r.group = scan[s].group
      BY <1>1, <3>2 DEF Writes
    <3>4. Named(c)
      BY <1>3 DEF IInv, ScanProgress
    <3>5. QED
      BY <3>1, <3>3, <3>4 DEF IInv, IdsDistinct
  <2>2. \A d \in Deleters : \A r \in dele[d].ranges :
          SetExists(r.group)' = SetExists(r.group)
    BY <1>7, <2>1 DEF SetExists
  <2>3. \A d \in Deleters : pc'[d] = pc[d]
    BY <1>5 DEF Clients, Editors
  <2>4. QED
    BY <1>1, <2>2, <2>3 DEF IInv, DeleteProgress
<1>11. TagIndexExact'
  BY <1>1 DEF IInv, TagIndexExact, FileExists
<1>12. QED
  BY <1>4, <1>6, <1>8, <1>9, <1>10, <1>11 DEF IInv

\* No scan has written the file that scan c writes next: its ids are its own.
LEMMA NextFileFresh ==
  ASSUME IInv, NEW c \in Scanners, pc[c] = "hmset_file"
  PROVE  LET f == scan[c].base + scan[c].written IN
         /\ f \in FileIds
         /\ \A s \in Scanners : ~ Wrote(s, f)
         /\ ~ FileExists(f)
         /\ files[f].tags = {}
         /\ \A t \in Tags : f \notin tags[t]
<1> DEFINE f == scan[c].base + scan[c].written
<1>1. /\ \A s \in Scanners : /\ scan[s].base \in Nat
                             /\ scan[s].written \in Nat
                             /\ DataSize(s) \in Nat
                             /\ scan[s].written <= DataSize(s)
      /\ Allocated(c)
      /\ scan[c].written < DataSize(c)
  BY ScanNats, DiscFacts DEF IInv, ScanProgress
<1>2. f \in FileIds
  <2>1. scan[c].base + DataSize(c) - 1 <= indices.files
    BY <1>1 DEF IInv, IdsCounted
  <2>2. indices.files \in 0 .. MaxFiles
    BY DEF IInv, TypeOK, StoreTypeOK
  <2>3. scan[c].base # 0
    BY <1>1 DEF Allocated
  <2>4. QED
    BY <1>1, <2>1, <2>2, <2>3 DEF FileIds
<1>3. ASSUME NEW s \in Scanners, Wrote(s, f)
      PROVE  FALSE
  <2>1. /\ Allocated(s)
        /\ scan[s].base <= f
        /\ f < scan[s].base + scan[s].written
    BY <1>1, <1>3 DEF Wrote, IdRange
  <2>2. s # c
    BY <1>1, <2>1
  <2>3. \/ scan[c].base + DataSize(c) <= scan[s].base
        \/ scan[s].base + DataSize(s) <= scan[c].base
    BY <1>1, <2>1, <2>2 DEF IInv, IdsDistinct
  <2>4. QED
    BY <1>1, <2>1, <2>3
<1>4. ~ FileExists(f) /\ files[f].tags = {}
  BY <1>2, <1>3 DEF IInv, FilesHaveWriters
<1>5. \A t \in Tags : f \notin tags[t]
  BY <1>3 DEF IInv, TaggedFilesWritten
<1>6. QED
  BY <1>2, <1>3, <1>4, <1>5

\* The record of a file keeps IInv: the file was never written before.
LEMMA WriteFileOK ==
  ASSUME IInv, NEW c \in Scanners, WriteFile(c)
  PROVE  IInv'
<1>0. PICK f : f = scan[c].base + scan[c].written
  OBVIOUS
<1> DEFINE h == scan[c].disc[scan[c].written + 1]
           new == [group |-> scan[c].group, hash |-> h, tags |-> files[f].tags]
<1>1. /\ pc[c] = "hmset_file"
      /\ files' = [files EXCEPT ![f] = new]
      /\ scan' = [scan EXCEPT ![c].written = scan[c].written + 1]
      /\ pc' = [pc EXCEPT ![c] = "sadd_hash"]
      /\ UNCHANGED <<indices, sets, hashes, levels, tags, scripts>>
      /\ UNCHANGED <<err, edit, dele>>
  BY <1>0 DEF WriteFile, HMSetFile, At, Goto
<1>2. /\ f \in FileIds
      /\ ~ FileExists(f)
      /\ files[f].tags = {}
      /\ \A t \in Tags : f \notin tags[t]
  BY <1>0, <1>1, NextFileFresh
<1>3. /\ pc \in [Clients -> Labels] /\ c \in Clients
      /\ files \in [FileIds -> [group : 0 .. MaxSets,
                                hash  : Hashes \cup {NoHash},
                                tags  : SUBSET Tags]]
      /\ scan \in [Scanners -> ScanLocals]
  BY DEF IInv, TypeOK, StoreTypeOK, Clients
<1>4. /\ scan[c].group \in 1 .. MaxSets
      /\ h \in Hashes
      /\ scan[c].base \in Nat
      /\ scan[c].written \in Nat
      /\ scan[c].written + 1 \in 0 .. MaxFiles
      /\ Allocated(c)
  <2>1. /\ Allocated(c) /\ Named(c)
        /\ scan[c].written < DataSize(c)
    BY <1>1 DEF IInv, ScanProgress
  <2>2. scan[c].group \in 0 .. MaxSets /\ scan[c].base \in Nat
          /\ scan[c].written \in Nat
    BY <1>3 DEF ScanLocals
  <2>3. f \in 1 .. MaxFiles /\ scan[c].base # 0
    BY <1>0, <1>2, <2>1 DEF FileIds, Allocated
  <2>4. h \in Hashes
    BY <2>1, <2>2, DiscFacts DEF IInv
  <2>5. QED
    BY <1>0, <2>1, <2>2, <2>3, <2>4 DEF Named, InvalidGroupID
<1>5. TypeOK'
  <2>1. files' \in [FileIds -> [group : 0 .. MaxSets,
                                hash  : Hashes \cup {NoHash},
                                tags  : SUBSET Tags]]
    BY <1>1, <1>2, <1>3, <1>4
  <2>2. scan' \in [Scanners -> ScanLocals]
    BY <1>1, <1>3, <1>4 DEF ScanLocals
  <2>3. pc' \in [Clients -> Labels]
    BY <1>1, <1>3 DEF Labels
  <2>4. QED
    BY <1>1, <2>1, <2>2, <2>3 DEF IInv, TypeOK, StoreTypeOK
<1>6. /\ pc'[c] = "sadd_hash"
      /\ pc' = [pc EXCEPT ![c] = pc'[c]]
      /\ \A s \in Clients \ {c} : pc'[s] = pc[s]
  BY <1>1, <1>3
<1>7. /\ scan'[c].disc = scan[c].disc
      /\ scan'[c].group = scan[c].group
      /\ scan'[c].base = scan[c].base
      /\ scan'[c].written = scan[c].written + 1
  BY <1>1, <1>3 DEF ScanLocals
<1>8. Onward /\ ScanProgress' /\ IdsCounted' /\ IdsDistinct'
  <2>1. scan' # scan
    BY <1>4, <1>7
  <2>2. QED
    BY <1>1, <1>6, <2>1, WriteProgress
<1>9. /\ files'[f] = new
      /\ \A k \in FileIds \ {f} : files'[k] = files[k]
      /\ FileExists(f)'
  BY <1>1, <1>2, <1>3, <1>4 DEF FileExists, InvalidGroupID
<1>10. FilesHaveWriters'
  <2>1. /\ Wrote(c, f)'
        /\ files'[f].group = scan'[c].group
        /\ files'[f].hash = scan'[c].disc[f - scan'[c].base + 1]
    <3>1. Wrote(c, f)'
      BY <1>0, <1>4, <1>7 DEF Wrote, Allocated, IdRange
    <3>2. f - scan'[c].base + 1 = scan[c].written + 1
      BY <1>0, <1>4, <1>7
    <3>3. QED
      BY <1>7, <1>9, <3>1, <3>2
  <2>2. ASSUME NEW k \in FileIds, k # f, FileExists(k)'
        PROVE  \E s \in Scanners :
                 /\ Wrote(s, k)'
                 /\ files'[k].group = scan'[s].group
                 /\ files'[k].hash = scan'[s].disc[k - scan'[s].base + 1]
    <3>1. files'[k] = files[k] /\ FileExists(k)
      BY <1>9, <2>2 DEF FileExists
    <3>2. PICK s \in Scanners :
            /\ Wrote(s, k)
            /\ files[k].group = scan[s].group
            /\ files[k].hash = scan[s].disc[k - scan[s].base + 1]
      BY <3>1 DEF IInv, FilesHaveWriters
    <3>3. QED
      BY <1>5, <1>8, <3>1, <3>2, OnwardWriters
  <2>3. ASSUME NEW k \in FileIds, ~ FileExists(k)'
        PROVE  files'[k].tags = {}
    BY <1>9, <2>3 DEF FileExists, IInv, FilesHaveWriters
  <2>4. QED
    BY <1>9, <2>1, <2>2, <2>3 DEF FilesHaveWriters
<1>11. SetsHaveWriters' /\ TaggedFilesWritten' /\ HashedFilesWritten'
         /\ RangesHaveWriters' /\ DeleteProgress'
  BY <1>1, <1>5, <1>6, <1>8, SetsFrame, TagsFrame, HashesFrame, RangesFrame,
     ScanFrame
<1>12. TagIndexExact'
  BY <1>1, <1>2, <1>9 DEF IInv, TagIndexExact, FileExists
<1>13. QED
  BY <1>5, <1>8, <1>10, <1>11, <1>12 DEF IInv

\* The file just written is one of the ids handed out.
LEMMA LastWrittenOK ==
  ASSUME IInv, NEW c \in Scanners, Allocated(c), scan[c].written > 0
  PROVE  LastWritten(c) \in FileIds
<1>1. /\ scan[c].base \in Nat /\ scan[c].written \in Nat
      /\ DataSize(c) \in Nat
  BY ScanNats, DiscFacts DEF IInv
<1>2. /\ scan[c].base # 0
      /\ scan[c].written <= DataSize(c)
      /\ scan[c].base + DataSize(c) - 1 <= indices.files
  BY DEF IInv, ScanProgress, IdsCounted, Allocated
<1>3. indices.files \in 0 .. MaxFiles
  BY DEF IInv, TypeOK, StoreTypeOK
<1>4. indices.files \in Nat /\ indices.files <= MaxFiles
  BY <1>3
<1>5. \A b, w, n, i \in Nat :
        b # 0 /\ w > 0 /\ w <= n /\ b + n - 1 <= i /\ i <= MaxFiles =>
          b + w - 1 \in 1 .. MaxFiles
  OBVIOUS
<1>6. QED
  BY <1>1, <1>2, <1>4, <1>5 DEF LastWritten, FileIds

\* SADD of the file just written, under its own hash, keeps IInv.
LEMMA SAddHashOK ==
  ASSUME IInv, NEW c \in Scanners, SAddHash(c)
  PROVE  IInv'
<1>0. PICK f : f = LastWritten(c)
  OBVIOUS
<1> DEFINE h == scan[c].disc[scan[c].written]
<1>1. /\ pc[c] = "sadd_hash"
      /\ hashes' = [hashes EXCEPT ![h] = @ \cup {f}]
      /\ pc' = [pc EXCEPT ![c] = "zadd_level"]
      /\ UNCHANGED <<indices, sets, files, levels, tags, scripts>>
      /\ UNCHANGED <<err, scan, edit, dele>>
  BY <1>0 DEF SAddHash, At, Goto
<1>2. /\ pc \in [Clients -> Labels] /\ c \in Clients
      /\ hashes \in [Hashes -> SUBSET FileIds]
      /\ scan[c].base \in Nat /\ scan[c].written \in Nat
      /\ Allocated(c)
      /\ scan[c].written > 0 /\ scan[c].written <= DataSize(c)
      /\ DataSize(c) \in Nat
  BY <1>1, ScanNats, DiscFacts
  DEF IInv, TypeOK, StoreTypeOK, Clients, ScanProgress
<1>3. h \in Hashes /\ f \in FileIds
  <2>1. f \in FileIds
    BY <1>0, <1>2, LastWrittenOK
  <2>2. h \in Hashes
    BY <1>2, DiscFacts DEF IInv
  <2>3. QED
    BY <2>1, <2>2
<1>4. /\ pc'[c] = "zadd_level"
      /\ pc' = [pc EXCEPT ![c] = pc'[c]]
  BY <1>1, <1>2
<1>5. TypeOK'
  <2>1. hashes' \in [Hashes -> SUBSET FileIds]
    BY <1>1, <1>2, <1>3
  <2>2. pc' \in [Clients -> Labels]
    BY <1>1, <1>2 DEF Labels
  <2>3. QED
    BY <1>1, <2>1, <2>2 DEF IInv, TypeOK, StoreTypeOK
<1>6. Onward /\ ScanProgress' /\ IdsCounted' /\ IdsDistinct'
  BY <1>1, <1>2, <1>4, WriteProgress
<1>7. HashedFilesWritten'
  <2>1. ASSUME NEW k \in Hashes, NEW x \in hashes'[k]
        PROVE  \E s \in Scanners :
                 /\ Wrote(s, x)'
                 /\ scan'[s].disc[x - scan'[s].base + 1] = k
    <3>1. CASE x \in hashes[k]
      <4>1. x \in FileIds
        BY <1>2, <3>1
      <4>2. PICK s \in Scanners :
              Wrote(s, x) /\ scan[s].disc[x - scan[s].base + 1] = k
        BY <3>1 DEF IInv, HashedFilesWritten
      <4>3. QED
        BY <1>5, <1>6, <4>1, <4>2, OnwardWriters
    <3>2. CASE x \notin hashes[k]
      <4>1. k = h /\ x = f
        BY <1>1, <1>2, <1>3, <2>1, <3>2
      <4>2. Wrote(c, f) /\ f - scan[c].base + 1 = scan[c].written
        BY <1>0, <1>2 DEF Wrote, LastWritten, IdRange
      <4>3. Wrote(c, f)' /\ f - scan'[c].base + 1 = scan'[c].written
        BY <1>1, <4>2 DEF Wrote, Allocated
      <4>4. QED
        BY <1>1, <4>1, <4>3
    <3>3. QED
      BY <3>1, <3>2
  <2>2. QED
    BY <2>1 DEF HashedFilesWritten
<1>8. SetsHaveWriters' /\ FilesHaveWriters' /\ TaggedFilesWritten'
        /\ RangesHaveWriters' /\ DeleteProgress'
  BY <1>1, <1>4, <1>5, <1>6, SetsFrame, FilesFrame, TagsFrame, RangesFrame,
     ScanFrame
<1>9. TagIndexExact'
  BY <1>1 DEF IInv, TagIndexExact, FileExists
<1>10. QED
  BY <1>5, <1>6, <1>7, <1>8, <1>9 DEF IInv

\* ZADD of the file just written keeps IInv.
LEMMA ZAddLevelOK ==
  ASSUME IInv, NEW c \in Scanners, ZAddLevel(c)
  PROVE  IInv'
<1> DEFINE g == scan[c].group
<1>1. /\ pc[c] = "zadd_level"
      /\ levels' = [levels EXCEPT ![g] = @ \cup {LastWritten(c)}]
      /\ pc' = [pc EXCEPT ![c] = IF scan[c].written = DataSize(c)
                                   THEN "done" ELSE "hmset_file"]
      /\ UNCHANGED <<indices, sets, files, hashes, tags, scripts>>
      /\ UNCHANGED <<err, scan, edit, dele>>
  BY DEF ZAddLevel, At, Goto
<1>2. /\ pc \in [Clients -> Labels] /\ c \in Clients
      /\ levels \in [SetIds -> SUBSET FileIds]
      /\ scan[c].base \in Nat /\ scan[c].written \in Nat
      /\ Allocated(c) /\ Named(c)
      /\ scan[c].written > 0 /\ scan[c].written <= DataSize(c)
      /\ DataSize(c) \in Nat
  BY <1>1, ScanNats, DiscFacts
  DEF IInv, TypeOK, StoreTypeOK, Clients, ScanProgress
<1>3. g \in SetIds /\ LastWritten(c) \in FileIds
  <2>1. g \in 0 .. MaxSets
    BY DEF IInv, TypeOK, ScanLocals
  <2>2. g \in SetIds
    BY <1>2, <2>1 DEF SetIds, Named, InvalidGroupID
  <2>3. QED
    BY <1>2, <2>2, LastWrittenOK
<1>4. /\ pc'[c] \in {"done", "hmset_file"}
      /\ pc' = [pc EXCEPT ![c] = pc'[c]]
      /\ pc'[c] = "hmset_file" => scan[c].written < DataSize(c)
  BY <1>1, <1>2
<1>5. TypeOK'
  <2>1. levels' \in [SetIds -> SUBSET FileIds]
    BY <1>1, <1>2, <1>3
  <2>2. pc' \in [Clients -> Labels]
    BY <1>2, <1>4 DEF Labels
  <2>3. QED
    BY <1>1, <2>1, <2>2 DEF IInv, TypeOK, StoreTypeOK
<1>6. Onward /\ ScanProgress' /\ IdsCounted' /\ IdsDistinct'
  BY <1>1, <1>2, <1>4, WriteProgress
<1>7. SetsHaveWriters' /\ FilesHaveWriters' /\ TaggedFilesWritten'
        /\ HashedFilesWritten' /\ RangesHaveWriters' /\ DeleteProgress'
  BY <1>1, <1>4, <1>5, <1>6, SetsFrame, FilesFrame, TagsFrame, HashesFrame,
     RangesFrame, ScanFrame
<1>8. TagIndexExact'
  BY <1>1 DEF IInv, TagIndexExact, FileExists
<1>9. QED
  BY <1>5, <1>6, <1>7, <1>8 DEF IInv

-----------------------------------------------------------------------------
(* Steps of an editor: a tag process, or a deletion clearing tags.          *)

\* An editor moves no scan.
LEMMA EditorStep ==
  ASSUME IInv, NEW c \in Editors, UNCHANGED <<indices, scan>>,
         pc' = [pc EXCEPT ![c] = pc'[c]]
  PROVE  Onward /\ ScanProgress' /\ IdsCounted' /\ IdsDistinct'
<1>1. \A s \in Scanners : pc'[s] = pc[s]
  BY DEF IInv, TypeOK, Editors, Clients
<1>2. QED
  BY <1>1, SameScansOK DEF SameScans

\* A step of an editor that leaves the store alone, or changes tags only.
LEMMA EditorFrame ==
  ASSUME IInv, TypeOK', NEW c \in Editors,
         UNCHANGED <<indices, sets, hashes, scan, dele>>,
         pc' = [pc EXCEPT ![c] = pc'[c]],
         pc'[c] \in {"get_tags", "run_tags", "failed"} \/ c \in Taggers,
         \A f \in FileIds :
           \/ files'[f] = files[f]
           \/ /\ FileExists(f)
              /\ files'[f].group = files[f].group
              /\ files'[f].hash = files[f].hash,
         TaggedFilesWritten' \/ UNCHANGED tags,
         TagIndexExact'
  PROVE  IInv'
<1>1. Onward /\ ScanProgress' /\ IdsCounted' /\ IdsDistinct'
  BY EditorStep
<1>2. SetsHaveWriters' /\ FilesHaveWriters' /\ TaggedFilesWritten'
        /\ HashedFilesWritten' /\ RangesHaveWriters'
  BY <1>1, SetsFrame, FilesFrame, TagsFrame, HashesFrame, RangesFrame
<1>3. \A d \in Deleters : \/ pc'[d] = pc[d]
                          \/ pc'[d] \in {"get_tags", "run_tags", "failed"}
  BY DEF IInv, TypeOK, Editors, Clients
<1>4. DeleteProgress'
  BY <1>3, DeleteFrame
<1>5. QED
  BY <1>1, <1>2, <1>4 DEF IInv

\* The start of a tag process keeps IInv.
LEMMA StartTagOK ==
  ASSUME IInv, NEW c \in Taggers, StartTag(c)
  PROVE  IInv'
<1>1. /\ UNCHANGED <<indices, sets, files, hashes, levels, tags, scripts>>
      /\ UNCHANGED <<err, scan, dele>>
      /\ \E l \in {"run_tags", "get_tags"} : pc' = [pc EXCEPT ![c] = l]
      /\ \E e \in EditLocals : edit' = [edit EXCEPT ![c] = e]
  <2>1. PICK ids \in SUBSET FileIds \ {{}}, g \in Owners :
          \/ /\ \E m \in {"add", "dele"}, ts \in SUBSET Tags \ {{}} :
                  edit' = [edit EXCEPT ![c] =
                             [mode |-> m, owner |-> g, target |-> ids,
                              reads |-> {}, seen |-> ts, work |-> ids \X ts]]
             /\ pc' = [pc EXCEPT ![c] = "run_tags"]
          \/ /\ edit' = [edit EXCEPT ![c] =
                           [mode |-> "clear", owner |-> g, target |-> ids,
                            reads |-> ids, seen |-> {}, work |-> {}]]
             /\ pc' = [pc EXCEPT ![c] = "get_tags"]
    BY DEF StartTag, Goto
  <2>2. g \in 0 .. MaxSets
    OBVIOUS
  <2>3. [mode |-> "clear", owner |-> g, target |-> ids, reads |-> ids,
         seen |-> {}, work |-> {}] \in EditLocals
    BY <2>2 DEF EditLocals, Modes
  <2>4. ASSUME NEW m \in {"add", "dele"}, NEW ts \in SUBSET Tags \ {{}}
        PROVE  [mode |-> m, owner |-> g, target |-> ids, reads |-> {},
                seen |-> ts, work |-> ids \X ts] \in EditLocals
    <3>1. ids \X ts \in SUBSET (FileIds \X Tags)
      OBVIOUS
    <3>2. QED
      BY <2>2, <3>1 DEF EditLocals, Modes
  <2>5. \E e \in EditLocals : edit' = [edit EXCEPT ![c] = e]
    BY <2>1, <2>3, <2>4
  <2>6. \E l \in {"run_tags", "get_tags"} : pc' = [pc EXCEPT ![c] = l]
    BY <2>1
  <2>7. QED
    BY <2>5, <2>6 DEF StartTag, store
<1>2. c \in Clients /\ c \in Editors
  BY DEF Clients, Editors
<1>3. TypeOK'
  BY <1>1, <1>2 DEF IInv, TypeOK, StoreTypeOK, Labels
<1>4. pc' = [pc EXCEPT ![c] = pc'[c]]
  BY <1>1, <1>2 DEF IInv, TypeOK
<1>5. TagIndexExact'
  BY <1>1 DEF IInv, TagIndexExact, FileExists
<1>6. QED
  BY <1>1, <1>2, <1>3, <1>4, <1>5, EditorFrame

\* HGET of the tags of a file keeps IInv.
LEMMA GetTagsOK ==
  ASSUME IInv, NEW c \in Editors, GetTags(c)
  PROVE  IInv'
<1>1. /\ UNCHANGED <<indices, sets, files, hashes, levels, tags, scripts>>
      /\ UNCHANGED <<err, scan, dele>>
  BY DEF GetTags, store
<1>2. PICK f \in edit[c].reads :
        LET seen == edit[c].seen \cup files[f].tags
            rest == edit[c].reads \ {f}
        IN  /\ edit' = [edit EXCEPT ![c].reads = rest,
                                    ![c].seen = seen,
                                    ![c].work = IF rest = {}
                                                  THEN edit[c].target \X seen
                                                  ELSE @]
            /\ pc' = [pc EXCEPT ![c] = IF rest = {} THEN "run_tags"
                                                    ELSE "get_tags"]
  BY DEF GetTags, Goto
<1>3. /\ pc \in [Clients -> Labels]
      /\ edit \in [Editors -> EditLocals]
      /\ edit[c].reads \subseteq FileIds
      /\ edit[c].target \subseteq FileIds
      /\ edit[c].seen \subseteq Tags
      /\ edit[c].work \subseteq FileIds \X Tags
      /\ c \in Clients
  BY DEF IInv, TypeOK, EditLocals, Clients
<1>4. files[f].tags \subseteq Tags
  BY <1>3 DEF IInv, TypeOK, StoreTypeOK
<1>5. edit' \in [Editors -> EditLocals]
  <2> DEFINE seen == edit[c].seen \cup files[f].tags
             rest == edit[c].reads \ {f}
             work == IF rest = {} THEN edit[c].target \X seen ELSE edit[c].work
  <2>1. /\ seen \in SUBSET Tags
        /\ rest \in SUBSET FileIds
        /\ work \in SUBSET (FileIds \X Tags)
    BY <1>3, <1>4
  <2>2. edit' = [edit EXCEPT ![c] = [edit[c] EXCEPT !.reads = rest,
                                                    !.seen = seen,
                                                    !.work = work]]
    BY <1>2, <1>3
  <2> HIDE DEF seen, rest, work
  <2>3. [edit[c] EXCEPT !.reads = rest, !.seen = seen, !.work = work]
          \in EditLocals
    BY <1>3, <2>1 DEF EditLocals
  <2>4. QED
    BY <1>3, <2>2, <2>3
<1>6. /\ pc' = [pc EXCEPT ![c] = pc'[c]]
      /\ pc'[c] \in {"get_tags", "run_tags"}
  BY <1>2, <1>3
<1>7. TypeOK'
  <2>1. pc' \in [Clients -> Labels]
    BY <1>3, <1>6 DEF Labels
  <2>2. QED
    BY <1>1, <1>5, <2>1 DEF IInv, TypeOK, StoreTypeOK
<1>8. TagIndexExact'
  BY <1>1 DEF IInv, TagIndexExact, FileExists
<1>9. QED
  BY <1>1, <1>6, <1>7, <1>8, EditorFrame

\* tag_if_in_set and dele_tag_if_in_set keep IInv, whoever runs them.
LEMMA TagScriptOK ==
  ASSUME IInv, NEW c \in Editors, pc[c] = "run_tags" \/ c \in Taggers,
         NEW f \in FileIds, NEW t \in Tags, NEW g,
         \/ TagIfInSet(t, f, g)
         \/ DeleTagIfInSet(t, f, g)
         \/ UNCHANGED <<files, tags>>,
         UNCHANGED <<indices, sets, hashes, levels, scripts, pc, scan, dele>>,
         edit' \in [Editors -> EditLocals],
         err' \in [Clients -> BOOLEAN]
  PROVE  IInv'
<1>1. /\ pc \in [Clients -> Labels]
      /\ files \in [FileIds -> [group : 0 .. MaxSets,
                                hash  : Hashes \cup {NoHash},
                                tags  : SUBSET Tags]]
      /\ tags \in [Tags -> SUBSET FileIds]
      /\ c \in Clients
  BY DEF IInv, TypeOK, StoreTypeOK, Clients
<1>2. f \in FileIds /\ t \in Tags
  OBVIOUS
<1>3. \/ UNCHANGED <<files, tags>>
      \/ /\ FileExists(f)
         /\ files' = [files EXCEPT ![f].tags = @ \cup {t}]
         /\ tags'  = [tags EXCEPT ![t] = @ \cup {f}]
      \/ /\ FileExists(f)
         /\ files' = [files EXCEPT ![f].tags = @ \ {t}]
         /\ tags'  = [tags EXCEPT ![t] = @ \ {f}]
  BY DEF TagIfInSet, DeleTagIfInSet, MatchesOwner
<1>4. TypeOK'
  <2>1. files' \in [FileIds -> [group : 0 .. MaxSets,
                                hash  : Hashes \cup {NoHash},
                                tags  : SUBSET Tags]]
    <3>1. files[f].tags \cup {t} \in SUBSET Tags
            /\ files[f].tags \ {t} \in SUBSET Tags
      BY <1>1, <1>2
    <3>2. ASSUME NEW ts \in SUBSET Tags
          PROVE  [files EXCEPT ![f].tags = ts]
                   \in [FileIds -> [group : 0 .. MaxSets,
                                    hash  : Hashes \cup {NoHash},
                                    tags  : SUBSET Tags]]
      <4>1. [files[f] EXCEPT !.tags = ts]
              \in [group : 0 .. MaxSets, hash : Hashes \cup {NoHash},
                   tags  : SUBSET Tags]
        <5>1. files[f] \in [group : 0 .. MaxSets, hash : Hashes \cup {NoHash},
                            tags  : SUBSET Tags]
          BY <1>1, <1>2
        <5>2. QED
          BY <5>1
      <4>2. [files EXCEPT ![f].tags = ts]
              = [files EXCEPT ![f] = [files[f] EXCEPT !.tags = ts]]
        BY <1>1, <1>2
      <4>3. QED
        BY <1>1, <1>2, <4>1, <4>2
    <3>3. \/ files' = files
          \/ files' = [files EXCEPT ![f].tags = files[f].tags \cup {t}]
          \/ files' = [files EXCEPT ![f].tags = files[f].tags \ {t}]
      BY <1>1, <1>2, <1>3
    <3>4. CASE files' = files
      BY <1>1, <3>4
    <3>5. CASE files' = [files EXCEPT ![f].tags = files[f].tags \cup {t}]
      BY <3>1, <3>2, <3>5
    <3>6. CASE files' = [files EXCEPT ![f].tags = files[f].tags \ {t}]
      BY <3>1, <3>2, <3>6
    <3>7. QED
      BY <3>3, <3>4, <3>5, <3>6
  <2>2. tags' \in [Tags -> SUBSET FileIds]
    <3>1. CASE UNCHANGED tags
      BY <1>1, <3>1
    <3>2. CASE tags' = [tags EXCEPT ![t] = tags[t] \cup {f}]
      BY <1>1, <1>2, <3>2
    <3>3. CASE tags' = [tags EXCEPT ![t] = tags[t] \ {f}]
      BY <1>1, <1>2, <3>3
    <3>4. QED
      BY <1>3, <3>1, <3>2, <3>3
  <2>3. QED
    BY <2>1, <2>2 DEF IInv, TypeOK, StoreTypeOK
<1>5. /\ \A k \in FileIds : /\ files'[k].group = files[k].group
                            /\ files'[k].hash = files[k].hash
                            /\ k # f => files'[k] = files[k]
      /\ UNCHANGED files \/ FileExists(f)
  <2>1. CASE UNCHANGED files
    BY <2>1
  <2>2. CASE FileExists(f) /\ files' = [files EXCEPT ![f].tags = @ \cup {t}]
    BY <1>1, <1>2, <2>2
  <2>3. CASE FileExists(f) /\ files' = [files EXCEPT ![f].tags = @ \ {t}]
    BY <1>1, <1>2, <2>3
  <2>4. QED
    BY <1>3, <2>1, <2>2, <2>3
<1>6. TagIndexExact'
  <2>1. ASSUME NEW k \in FileIds, NEW u \in Tags, FileExists(k)
        PROVE  u \in files'[k].tags <=> k \in tags'[u]
    <3>1. u \in files[k].tags <=> k \in tags[u]
      BY <2>1 DEF IInv, TagIndexExact
    <3>2. CASE UNCHANGED <<files, tags>>
      BY <3>1, <3>2
    <3>3. CASE /\ files' = [files EXCEPT ![f].tags = @ \cup {t}]
               /\ tags'  = [tags EXCEPT ![t] = @ \cup {f}]
      BY <3>1, <3>3, <1>1, <1>2
    <3>4. CASE /\ files' = [files EXCEPT ![f].tags = @ \ {t}]
               /\ tags'  = [tags EXCEPT ![t] = @ \ {f}]
      BY <3>1, <3>4, <1>1, <1>2
    <3>5. QED
      BY <1>3, <3>2, <3>3, <3>4
  <2>2. QED
    BY <1>5, <2>1 DEF TagIndexExact, FileExists
<1>7. TaggedFilesWritten'
  <2>1. ASSUME NEW u \in Tags, NEW k \in tags'[u]
        PROVE  \E s \in Scanners : Wrote(s, k)
    <3>1. CASE k \in tags[u]
      BY <3>1 DEF IInv, TaggedFilesWritten
    <3>2. CASE k \notin tags[u]
      <4>1. k = f /\ FileExists(f)
        BY <1>1, <1>2, <1>3, <2>1, <3>2
      <4>2. QED
        BY <1>2, <4>1 DEF IInv, FilesHaveWriters
    <3>3. QED
      BY <3>1, <3>2
  <2>2. QED
    BY <2>1 DEF TaggedFilesWritten, Wrote, Allocated
<1>8. pc' = [pc EXCEPT ![c] = pc'[c]]
  BY <1>1
<1>9. QED
  BY <1>4, <1>5, <1>6, <1>7, <1>8, EditorFrame

\* A script of an edit by ids keeps IInv.
LEMMA RunTagScriptOK ==
  ASSUME IInv, NEW c \in Editors, RunTagScript(c)
  PROVE  IInv'
<1>1. PICK p \in edit[c].work :
        /\ edit' = [edit EXCEPT ![c].work = @ \ {p}]
        /\ \/ TagIfInSet(p[2], p[1], edit[c].owner) /\ UNCHANGED err
           \/ DeleTagIfInSet(p[2], p[1], edit[c].owner) /\ UNCHANGED err
           \/ err' = [err EXCEPT ![c] = TRUE] /\ UNCHANGED <<files, tags>>
  BY DEF RunTagScript
<1>2. /\ UNCHANGED <<indices, sets, hashes, levels, scripts, pc, scan, dele>>
      /\ pc[c] = "run_tags"
  BY DEF RunTagScript, At
<1>3. /\ edit \in [Editors -> EditLocals] /\ edit[c] \in EditLocals
      /\ edit[c].work \subseteq FileIds \X Tags
      /\ err \in [Clients -> BOOLEAN]
      /\ c \in Clients
  BY DEF IInv, TypeOK, EditLocals, Clients
<1>4. p[1] \in FileIds /\ p[2] \in Tags
  BY <1>3
<1>5. edit' \in [Editors -> EditLocals]
  <2>1. edit[c].work \ {p} \in SUBSET (FileIds \X Tags)
    BY <1>3
  <2>2. [edit[c] EXCEPT !.work = edit[c].work \ {p}] \in EditLocals
    BY <1>3, <2>1 DEF EditLocals
  <2>3. edit' = [edit EXCEPT ![c] =
                   [edit[c] EXCEPT !.work = edit[c].work \ {p}]]
    BY <1>1, <1>3
  <2>4. QED
    BY <1>3, <2>2, <2>3
<1>6. err' \in [Clients -> BOOLEAN]
  BY <1>1, <1>3
<1>7. QED
  BY <1>1, <1>2, <1>4, <1>5, <1>6, TagScriptOK

\* The end of a tag process keeps IInv.
LEMMA EndTagOK ==
  ASSUME IInv, NEW c \in Taggers, EndTag(c)
  PROVE  IInv'
<1>1. /\ UNCHANGED <<indices, sets, files, hashes, levels, tags, scripts>>
      /\ UNCHANGED <<err, scan, edit, dele>>
      /\ \E l \in {"done", "failed"} : pc' = [pc EXCEPT ![c] = l]
  BY DEF EndTag, Goto, store
<1>2. c \in Clients /\ c \in Editors
  BY DEF Clients, Editors
<1>3. TypeOK'
  BY <1>1, <1>2 DEF IInv, TypeOK, StoreTypeOK, Labels
<1>4. pc' = [pc EXCEPT ![c] = pc'[c]]
  BY <1>1, <1>2 DEF IInv, TypeOK
<1>5. TagIndexExact'
  BY <1>1 DEF IInv, TagIndexExact, FileExists
<1>6. QED
  BY <1>1, <1>2, <1>3, <1>4, <1>5, EditorFrame

-----------------------------------------------------------------------------
(* Steps of a deletion.                                                     *)

\* What is known of a set a deletion works on.
LEMMA RangeFacts ==
  ASSUME IInv, NEW d \in Deleters, NEW r \in dele[d].ranges
  PROVE  /\ r.group \in SetIds
         /\ r.base \in Nat /\ r.count \in Nat
         /\ FilesOf(r) \subseteq FileIds
<1>1. r \in IDRange
  BY DEF IInv, TypeOK, DeleLocals
<1>2. PICK s \in Scanners : Writes(s, r)
  BY DEF IInv, RangesHaveWriters
<1>3. /\ r.base = scan[s].base /\ r.count = DataSize(s)
      /\ scan[s].base \in Nat /\ scan[s].base # 0
      /\ DataSize(s) \in Nat
      /\ scan[s].base + DataSize(s) - 1 <= indices.files
  BY <1>2, ScanNats, DiscFacts DEF IInv, Writes, IdsCounted, Allocated
<1>4. indices.files \in 0 .. MaxFiles
  BY DEF IInv, TypeOK, StoreTypeOK
<1>5. FilesOf(r) \subseteq FileIds
  BY <1>3, <1>4 DEF FilesOf, IdRange, FileIds
<1>6. QED
  BY <1>1, <1>5 DEF IDRange, FileIds

\* The sets of a deletion and how far its loops are, for one deletion.
RangesOK(d) ==
  /\ dele[d].left \subseteq dele[d].ranges
  /\ dele[d].cur = NoRange \/ dele[d].cur \in dele[d].ranges

ProgressOK(d) ==
  LET past == dele[d].ranges \ dele[d].left IN
  /\ pc[d] \in BeforeConfirm => dele[d].left = {} /\ dele[d].cur = NoRange
  /\ pc[d] \in {"get_hashes", "run_hashes"} =>
       \A r \in past \ {dele[d].cur} : ~ SetExists(r.group)
  /\ pc[d] \in {"del_levels", "del_files"} =>
       \A r \in past : ~ SetExists(r.group)
  /\ pc[d] = "done" =>
       \A r \in dele[d].ranges : ~ SetExists(r.group)

\* A step of a deletion keeps IInv when it keeps what IInv says of itself,
\* adds no set but one that a scan wrote, and only removes from the store.
LEMMA DeleterFrame ==
  ASSUME IInv, TypeOK', NEW c \in Deleters,
         UNCHANGED <<indices, tags, scan>>,
         pc' = [pc EXCEPT ![c] = pc'[c]],
         \A d \in Deleters \ {c} : dele'[d] = dele[d],
         \A g \in SetIds : sets'[g] = sets[g] \/ sets'[g] = NoSet,
         \A f \in FileIds : files'[f] = files[f] \/ files'[f] = NoFile,
         \A h \in Hashes : hashes'[h] \subseteq hashes[h],
         \A r \in dele'[c].ranges :
           \/ r \in dele[c].ranges
           \/ \E s \in Scanners : Writes(s, r) /\ pc[s] # "hmset_set",
         RangesOK(c)', ProgressOK(c)'
  PROVE  IInv'
<1>1. Onward /\ ScanProgress' /\ IdsCounted' /\ IdsDistinct'
  BY EditorStep DEF Editors
<1>2. SetsHaveWriters' /\ FilesHaveWriters' /\ TaggedFilesWritten'
        /\ HashedFilesWritten'
  BY <1>1, SetsFrame, FilesFrame, TagsFrame, HashesFrame
<1>3. RangesHaveWriters'
  <2>1. ASSUME NEW d \in Deleters
        PROVE  RangesOK(d)'
    BY DEF IInv, RangesHaveWriters, RangesOK
  <2>2. ASSUME NEW d \in Deleters, NEW r \in dele'[d].ranges
        PROVE  \E s \in Scanners : Writes(s, r)' /\ pc'[s] # "hmset_set"
    <3>1. PICK s \in Scanners : Writes(s, r) /\ pc[s] # "hmset_set"
      BY <2>2 DEF IInv, RangesHaveWriters
    <3>2. QED
      BY <1>1, <3>1, OnwardWriters
  <2>3. QED
    BY <2>1, <2>2 DEF RangesHaveWriters, RangesOK
<1>4. DeleteProgress'
  <2>1. ASSUME NEW d \in Deleters, d # c
        PROVE  ProgressOK(d)'
    <3>1. ProgressOK(d)
      BY DEF IInv, DeleteProgress, ProgressOK
    <3>2. dele'[d] = dele[d] /\ pc'[d] = pc[d]
      BY <2>1 DEF IInv, TypeOK, Editors, Clients
    <3>3. \A r \in dele[d].ranges :
            ~ SetExists(r.group) => ~ SetExists(r.group)'
      BY RangeFacts DEF SetExists, NoSet
    <3>4. QED
      BY <3>1, <3>2, <3>3 DEF ProgressOK
  <2>2. QED
    BY <2>1 DEF DeleteProgress, ProgressOK
<1>5. TagIndexExact'
  BY DEF IInv, TagIndexExact, FileExists, NoFile
<1>6. QED
  BY <1>1, <1>2, <1>3, <1>4, <1>5 DEF IInv

\* The facts about the locals of a deletion that its lemmas start from.
LEMMA DeleterFacts ==
  ASSUME IInv, NEW c \in Deleters
  PROVE  /\ c \in Editors /\ c \in Clients
         /\ pc \in [Clients -> Labels]
         /\ edit \in [Editors -> EditLocals]
         /\ dele \in [Deleters -> DeleLocals]
         /\ dele[c] \in DeleLocals
         /\ edit[c] \in EditLocals
         /\ RangesOK(c) /\ ProgressOK(c)
<1>1. c \in Editors /\ c \in Clients
  BY DEF Editors, Clients
<1>2. RangesOK(c) /\ ProgressOK(c)
  BY DEF IInv, RangesHaveWriters, DeleteProgress, RangesOK, ProgressOK
<1>3. QED
  BY <1>1, <1>2 DEF IInv, TypeOK

\* The start of a deletion keeps IInv.
LEMMA StartDeleteOK ==
  ASSUME IInv, NEW c \in Deleters, StartDelete(c)
  PROVE  IInv'
<1>1. /\ pc[c] = "start"
      /\ \E ids \in SUBSET SetIds : dele' = [dele EXCEPT ![c].ask = ids]
      /\ pc' = [pc EXCEPT ![c] = "confirm"]
      /\ UNCHANGED <<indices, sets, files, hashes, levels, tags, scripts>>
      /\ UNCHANGED <<err, scan, edit>>
  BY DEF StartDelete, At, Goto, store
<1>2. PICK ids \in SUBSET SetIds : dele' = [dele EXCEPT ![c].ask = ids]
  BY <1>1
<1>3. TypeOK'
  <2>1. [dele[c] EXCEPT !.ask = ids] \in DeleLocals
    BY DeleterFacts DEF DeleLocals
  <2>2. dele' = [dele EXCEPT ![c] = [dele[c] EXCEPT !.ask = ids]]
    BY <1>2, DeleterFacts
  <2>3. dele' \in [Deleters -> DeleLocals]
    BY <2>1, <2>2, DeleterFacts
  <2>4. pc' \in [Clients -> Labels]
    BY <1>1, DeleterFacts DEF Labels
  <2>5. QED
    BY <1>1, <2>3, <2>4 DEF IInv, TypeOK, StoreTypeOK
<1>4. /\ dele'[c].ranges = dele[c].ranges
      /\ dele'[c].left = dele[c].left
      /\ dele'[c].cur = dele[c].cur
      /\ \A d \in Deleters \ {c} : dele'[d] = dele[d]
      /\ pc'[c] = "confirm"
      /\ pc' = [pc EXCEPT ![c] = pc'[c]]
  BY <1>1, <1>2, DeleterFacts DEF DeleLocals
<1>5. RangesOK(c)' /\ ProgressOK(c)'
  BY <1>1, <1>4, DeleterFacts DEF RangesOK, ProgressOK, BeforeConfirm
<1>6. QED
  BY <1>1, <1>3, <1>4, <1>5, DeleterFrame

\* HMGET of a set keeps IInv: the record read was written by a scan.
LEMMA ConfirmReadOK ==
  ASSUME IInv, NEW c \in Deleters, ConfirmRead(c)
  PROVE  IInv'
<1>1. /\ pc[c] = "confirm"
      /\ UNCHANGED <<indices, sets, files, hashes, levels, tags, scripts>>
      /\ UNCHANGED <<pc, err, scan, edit>>
  BY DEF ConfirmRead, At, store
<1>2. PICK g \in dele[c].ask, found \in SUBSET IDRange :
        /\ \A r \in found :
             \E s \in Scanners : Writes(s, r) /\ pc[s] # "hmset_set"
        /\ dele' = [dele EXCEPT ![c].ask = @ \ {g},
                                ![c].ranges = @ \cup found]
  <2>1. PICK g \in dele[c].ask :
          dele' = [dele EXCEPT ![c].ask = @ \ {g},
                               ![c].ranges = @ \cup
                                 IF SetExists(g)
                                   THEN {[group |-> g, base  |-> sets[g].base,
                                                       count |-> sets[g].count]}
                                   ELSE {}]
    BY DEF ConfirmRead
  <2>2. g \in SetIds
    BY DeleterFacts DEF DeleLocals
  <2>3. CASE ~ SetExists(g)
    BY <2>1, <2>3
  <2>4. CASE SetExists(g)
    <3> DEFINE r == [group |-> g, base  |-> sets[g].base,
                                  count |-> sets[g].count]
    <3>1. PICK s \in Scanners : Writes(s, r) /\ pc[s] # "hmset_set"
      BY <2>2, <2>4 DEF IInv, SetsHaveWriters
    <3>2. r \in IDRange
      <4>1. sets[g].base \in 0 .. MaxFiles /\ sets[g].count \in 0 .. MaxFiles
        BY <2>2 DEF IInv, TypeOK, StoreTypeOK
      <4>2. sets[g].base = scan[s].base /\ scan[s].base # 0
        BY <3>1 DEF Writes, Allocated
      <4>3. QED
        BY <2>2, <2>4, <4>1, <4>2 DEF IDRange, FileIds, SetExists
    <3>3. QED
      BY <2>1, <2>4, <3>1, <3>2
  <2>5. QED
    BY <2>3, <2>4
<1>3. /\ dele'[c].ranges = dele[c].ranges \cup found
      /\ dele'[c].left = dele[c].left
      /\ dele'[c].cur = dele[c].cur
      /\ \A d \in Deleters \ {c} : dele'[d] = dele[d]
  BY <1>2, DeleterFacts DEF DeleLocals
<1>4. TypeOK'
  <2>1. /\ dele[c].ask \ {g} \in SUBSET SetIds
        /\ dele[c].ranges \cup found \in SUBSET IDRange
    BY DeleterFacts DEF DeleLocals
  <2>2. [dele[c] EXCEPT !.ask = dele[c].ask \ {g},
                        !.ranges = dele[c].ranges \cup found] \in DeleLocals
    BY <2>1, DeleterFacts DEF DeleLocals
  <2>3. dele' = [dele EXCEPT ![c] =
                   [dele[c] EXCEPT !.ask = dele[c].ask \ {g},
                                   !.ranges = dele[c].ranges \cup found]]
    BY <1>2, DeleterFacts
  <2>4. dele' \in [Deleters -> DeleLocals]
    BY <2>2, <2>3, DeleterFacts
  <2>5. QED
    BY <1>1, <2>4 DEF IInv, TypeOK, StoreTypeOK
<1>5. pc' = [pc EXCEPT ![c] = pc'[c]] /\ pc'[c] = "confirm"
  BY <1>1, DeleterFacts
<1>6. RangesOK(c)' /\ ProgressOK(c)'
  BY <1>1, <1>3, <1>5, DeleterFacts DEF RangesOK, ProgressOK, BeforeConfirm
<1>7. \A r \in dele'[c].ranges :
        \/ r \in dele[c].ranges
        \/ \E s \in Scanners : Writes(s, r) /\ pc[s] # "hmset_set"
  BY <1>2, <1>3
<1>8. QED
  BY <1>1, <1>3, <1>4, <1>5, <1>6, <1>7, DeleterFrame

\* A refused deletion keeps IInv.
LEMMA RefuseOK ==
  ASSUME IInv, NEW c \in Deleters, Refuse(c)
  PROVE  IInv'
<1>1. /\ pc[c] = "confirm"
      /\ dele' = [dele EXCEPT ![c].ranges = {}]
      /\ pc' = [pc EXCEPT ![c] = "done"]
      /\ UNCHANGED <<indices, sets, files, hashes, levels, tags, scripts>>
      /\ UNCHANGED <<err, scan, edit>>
  BY DEF Refuse, At, Goto, store
<1>2. TypeOK'
  <2>1. [dele[c] EXCEPT !.ranges = {}] \in DeleLocals
    BY DeleterFacts DEF DeleLocals
  <2>2. dele' = [dele EXCEPT ![c] = [dele[c] EXCEPT !.ranges = {}]]
    BY <1>1, DeleterFacts
  <2>3. dele' \in [Deleters -> DeleLocals]
    BY <2>1, <2>2, DeleterFacts
  <2>4. pc' \in [Clients -> Labels]
    BY <1>1, DeleterFacts DEF Labels
  <2>5. QED
    BY <1>1, <2>3, <2>4 DEF IInv, TypeOK, StoreTypeOK
<1>3. /\ dele'[c].ranges = {}
      /\ dele'[c].left = dele[c].left
      /\ dele'[c].cur = dele[c].cur
      /\ \A d \in Deleters \ {c} : dele'[d] = dele[d]
      /\ pc'[c] = "done"
      /\ pc' = [pc EXCEPT ![c] = pc'[c]]
  BY <1>1, DeleterFacts DEF DeleLocals
<1>4. RangesOK(c)' /\ ProgressOK(c)'
  BY <1>1, <1>3, DeleterFacts DEF RangesOK, ProgressOK, BeforeConfirm
<1>5. QED
  BY <1>1, <1>2, <1>3, <1>4, DeleterFrame

\* Clearing the tags of one of its sets keeps the locals of the edit typed.
LEMMA StartUntagType ==
  ASSUME IInv, NEW c \in Deleters, NEW r \in dele[c].ranges, StartUntag(c, r)
  PROVE  /\ edit' \in [Editors -> EditLocals]
         /\ pc' = [pc EXCEPT ![c] = "get_tags"]
<1>1. r.group \in 0 .. MaxSets /\ FilesOf(r) \in SUBSET FileIds
  BY RangeFacts DEF SetIds
<1>2. [mode |-> "clear", owner |-> r.group, target |-> FilesOf(r),
       reads |-> FilesOf(r), seen |-> {}, work |-> {}] \in EditLocals
  BY <1>1 DEF EditLocals, Modes
<1>3. edit' \in [Editors -> EditLocals]
  BY <1>2, DeleterFacts DEF StartUntag
<1>4. QED
  BY <1>3 DEF StartUntag, Goto

\* The first loop starts and moves on: `left` loses sets or is filled again.
LEMMA LeftOK ==
  ASSUME IInv, NEW c \in Deleters, NEW ids \in SUBSET dele[c].ranges, NEW l,
         l \in {"get_tags"} \/ (l = "del_files" /\ ids = dele[c].ranges),
         dele' = [dele EXCEPT ![c].left = ids],
         edit' \in [Editors -> EditLocals],
         pc' = [pc EXCEPT ![c] = l],
         UNCHANGED <<indices, sets, files, hashes, levels, tags, scripts>>,
         UNCHANGED <<err, scan>>
  PROVE  IInv'
<1>1. dele[c].ranges \subseteq IDRange
  BY DeleterFacts DEF DeleLocals
<1>2. TypeOK'
  <2>1. [dele[c] EXCEPT !.left = ids] \in DeleLocals
    BY <1>1, DeleterFacts DEF DeleLocals
  <2>2. dele' = [dele EXCEPT ![c] = [dele[c] EXCEPT !.left = ids]]
    BY DeleterFacts
  <2>3. dele' \in [Deleters -> DeleLocals]
    BY <2>1, <2>2, DeleterFacts
  <2>4. pc' \in [Clients -> Labels]
    BY DeleterFacts DEF Labels
  <2>5. QED
    BY <2>3, <2>4 DEF IInv, TypeOK, StoreTypeOK
<1>3. /\ dele'[c].ranges = dele[c].ranges
      /\ dele'[c].left = ids
      /\ dele'[c].cur = dele[c].cur
      /\ \A d \in Deleters \ {c} : dele'[d] = dele[d]
      /\ pc'[c] = l
      /\ pc' = [pc EXCEPT ![c] = pc'[c]]
  BY DeleterFacts DEF DeleLocals
<1>4. RangesOK(c)' /\ ProgressOK(c)'
  BY <1>3, DeleterFacts DEF RangesOK, ProgressOK, BeforeConfirm
<1>5. QED
  BY <1>2, <1>3, <1>4, DeleterFrame

\* A confirmed deletion keeps IInv.
LEMMA ConfirmOK ==
  ASSUME IInv, NEW c \in Deleters, Confirm(c)
  PROVE  IInv'
<1>1. PICK r \in dele[c].ranges :
        /\ StartUntag(c, r)
        /\ dele' = [dele EXCEPT ![c].left = dele[c].ranges \ {r}]
  BY DEF Confirm
<1>2. /\ UNCHANGED <<indices, sets, files, hashes, levels, tags, scripts>>
      /\ UNCHANGED <<err, scan>>
  BY DEF Confirm, store
<1>3. QED
  BY <1>1, <1>2, StartUntagType, LeftOK

\* The first loop of a deletion keeps IInv.
LEMMA NextUntagOK ==
  ASSUME IInv, NEW c \in Deleters, NextUntag(c)
  PROVE  IInv'
<1>1. /\ UNCHANGED <<indices, sets, files, hashes, levels, tags, scripts>>
      /\ UNCHANGED <<err, scan>>
  BY DEF NextUntag, store
<1>2. CASE UNCHANGED <<edit, dele>> /\ Goto(c, "failed")
  <2>1. pc' = [pc EXCEPT ![c] = pc'[c]] /\ pc'[c] = "failed"
    BY <1>2, DeleterFacts DEF Goto
  <2>2. pc' \in [Clients -> Labels]
    BY <1>2, DeleterFacts DEF Goto, Labels
  <2>3. TypeOK'
    BY <1>1, <1>2, <2>2 DEF IInv, TypeOK, StoreTypeOK
  <2>4. TagIndexExact'
    BY <1>1 DEF IInv, TagIndexExact, FileExists
  <2>5. QED
    BY <1>1, <1>2, <2>1, <2>3, <2>4, DeleterFacts, EditorFrame
<1>3. CASE \E r \in dele[c].left :
             /\ StartUntag(c, r)
             /\ dele' = [dele EXCEPT ![c].left = @ \ {r}]
  <2>1. PICK r \in dele[c].left :
          /\ StartUntag(c, r)
          /\ dele' = [dele EXCEPT ![c].left = @ \ {r}]
    BY <1>3
  <2>2. /\ r \in dele[c].ranges
        /\ dele[c].left \ {r} \in SUBSET dele[c].ranges
        /\ dele' = [dele EXCEPT ![c].left = dele[c].left \ {r}]
    BY <2>1, DeleterFacts DEF RangesOK
  <2>3. QED
    BY <1>1, <2>1, <2>2, StartUntagType, LeftOK
<1>4. CASE /\ dele' = [dele EXCEPT ![c].left = dele[c].ranges]
           /\ Goto(c, "del_files")
           /\ UNCHANGED edit
  BY <1>1, <1>4, DeleterFacts, LeftOK DEF Goto
<1>5. QED
  BY <1>2, <1>3, <1>4 DEF NextUntag

\* The second loop of a deletion keeps IInv.
LEMMA NextSetOK ==
  ASSUME IInv, NEW c \in Deleters, NextSet(c)
  PROVE  IInv'
<1>1. PICK r \in dele[c].left :
        /\ dele' = [dele EXCEPT ![c].left = @ \ {r}, ![c].cur = r]
        /\ edit' = [edit EXCEPT ![c].reads = FilesOf(r)]
  BY DEF NextSet
<1>2. /\ pc[c] = "del_files"
      /\ pc' = [pc EXCEPT ![c] = "get_hashes"]
      /\ UNCHANGED <<indices, sets, files, hashes, levels, tags, scripts>>
      /\ UNCHANGED <<err, scan>>
  BY DEF NextSet, At, Goto, store
<1>3. r \in dele[c].ranges /\ r \in IDRange /\ FilesOf(r) \in SUBSET FileIds
  <2>1. r \in dele[c].ranges
    BY DeleterFacts DEF RangesOK
  <2>2. QED
    BY <2>1, RangeFacts, DeleterFacts DEF DeleLocals
<1>4. TypeOK'
  <2>1. dele[c].left \ {r} \in SUBSET IDRange
    BY DeleterFacts DEF DeleLocals
  <2>2. [dele[c] EXCEPT !.left = dele[c].left \ {r}, !.cur = r] \in DeleLocals
    BY <1>3, <2>1, DeleterFacts DEF DeleLocals
  <2>3. dele' = [dele EXCEPT ![c] =
                   [dele[c] EXCEPT !.left = dele[c].left \ {r}, !.cur = r]]
    BY <1>1, DeleterFacts
  <2>4. dele' \in [Deleters -> DeleLocals]
    BY <2>2, <2>3, DeleterFacts
  <2>5. [edit[c] EXCEPT !.reads = FilesOf(r)] \in EditLocals
    BY <1>3, DeleterFacts DEF EditLocals
  <2>6. edit' = [edit EXCEPT ![c] = [edit[c] EXCEPT !.reads = FilesOf(r)]]
    BY <1>1, DeleterFacts
  <2>7. edit' \in [Editors -> EditLocals]
    BY <2>5, <2>6, DeleterFacts
  <2>8. pc' \in [Clients -> Labels]
    BY <1>2, DeleterFacts DEF Labels
  <2>9. QED
    BY <1>2, <2>4, <2>7, <2>8 DEF IInv, TypeOK, StoreTypeOK
<1>5. /\ dele'[c].ranges = dele[c].ranges
      /\ dele'[c].left = dele[c].left \ {r}
      /\ dele'[c].cur = r
      /\ \A d \in Deleters \ {c} : dele'[d] = dele[d]
      /\ pc'[c] = "get_hashes"
      /\ pc' = [pc EXCEPT ![c] = pc'[c]]
  BY <1>1, <1>2, DeleterFacts DEF DeleLocals
<1>6. RangesOK(c)'
  BY <1>3, <1>5, DeleterFacts DEF RangesOK
<1>7. ProgressOK(c)'
  <2>1. \A x \in dele[c].ranges \ dele[c].left : ~ SetExists(x.group)
    BY <1>2, DeleterFacts DEF ProgressOK
  <2>2. \A x \in dele[c].ranges \ dele[c].left : ~ SetExists(x.group)'
    BY <1>2, <2>1 DEF SetExists
  <2>3. QED
    BY <1>5, <2>2 DEF ProgressOK, BeforeConfirm
<1>8. QED
  BY <1>2, <1>4, <1>5, <1>6, <1>7, DeleterFrame

\* HGET of the hash of a file keeps IInv.
LEMMA GetHashOK ==
  ASSUME IInv, NEW c \in Deleters, GetHash(c)
  PROVE  IInv'
<1>1. PICK f \in edit[c].reads :
        /\ edit' = [edit EXCEPT ![c].reads = edit[c].reads \ {f}]
        /\ dele' = [dele EXCEPT ![c].calls = @ \cup {<<f, files[f].hash>>}]
        /\ pc' = [pc EXCEPT ![c] = IF edit[c].reads \ {f} = {}
                                     THEN "run_hashes" ELSE "get_hashes"]
  BY DEF GetHash, Goto
<1>2. /\ pc[c] = "get_hashes"
      /\ UNCHANGED <<indices, sets, files, hashes, levels, tags, scripts>>
      /\ UNCHANGED <<err, scan>>
  BY DEF GetHash, At, store
<1>3. /\ f \in FileIds
      /\ edit[c].reads \ {f} \in SUBSET FileIds
      /\ files[f].hash \in Hashes \cup {NoHash}
  <2>1. edit[c].reads \subseteq FileIds
    BY DeleterFacts DEF EditLocals
  <2>2. QED
    BY <2>1 DEF IInv, TypeOK, StoreTypeOK
<1> DEFINE calls == dele[c].calls \cup {<<f, files[f].hash>>}
<1>4. TypeOK'
  <2>1. dele[c].calls \subseteq FileIds \X (Hashes \cup {NoHash})
    BY DeleterFacts DEF DeleLocals
  <2>2. calls \in SUBSET (FileIds \X (Hashes \cup {NoHash}))
    BY <1>3, <2>1
  <2>3. dele' = [dele EXCEPT ![c] = [dele[c] EXCEPT !.calls = calls]]
    BY <1>1, DeleterFacts
  <2> HIDE DEF calls
  <2>4. [dele[c] EXCEPT !.calls = calls] \in DeleLocals
    BY <2>2, DeleterFacts DEF DeleLocals
  <2>5. dele' \in [Deleters -> DeleLocals]
    BY <2>3, <2>4, DeleterFacts
  <2>6. [edit[c] EXCEPT !.reads = edit[c].reads \ {f}] \in EditLocals
    BY <1>3, DeleterFacts DEF EditLocals
  <2>7. edit' = [edit EXCEPT ![c] =
                   [edit[c] EXCEPT !.reads = edit[c].reads \ {f}]]
    BY <1>1, DeleterFacts
  <2>8. edit' \in [Editors -> EditLocals]
    BY <2>6, <2>7, DeleterFacts
  <2>9. pc' \in [Clients -> Labels]
    BY <1>1, DeleterFacts DEF Labels
  <2>10. QED
    BY <1>2, <2>5, <2>8, <2>9 DEF IInv, TypeOK, StoreTypeOK
<1>5. /\ dele'[c].ranges = dele[c].ranges
      /\ dele'[c].left = dele[c].left
      /\ dele'[c].cur = dele[c].cur
      /\ \A d \in Deleters \ {c} : dele'[d] = dele[d]
      /\ pc'[c] \in {"get_hashes", "run_hashes"}
      /\ pc' = [pc EXCEPT ![c] = pc'[c]]
  BY <1>1, DeleterFacts DEF DeleLocals
<1>6. RangesOK(c)' /\ ProgressOK(c)'
  BY <1>2, <1>5, DeleterFacts DEF RangesOK, ProgressOK, BeforeConfirm, SetExists
<1>7. QED
  BY <1>2, <1>4, <1>5, <1>6, DeleterFrame

\* dele_hash keeps IInv.
LEMMA RunHashOK ==
  ASSUME IInv, NEW c \in Deleters, RunHash(c)
  PROVE  IInv'
<1>1. PICK p \in dele[c].calls :
        /\ dele' = [dele EXCEPT ![c].calls = @ \ {p}]
        /\ \/ DeleHash(p[2], FilesOf(dele[c].cur)) /\ UNCHANGED err
           \/ err' = [err EXCEPT ![c] = TRUE] /\ UNCHANGED hashes
  BY DEF RunHash
<1>2. /\ pc[c] = "run_hashes"
      /\ UNCHANGED <<indices, sets, files, levels, tags, scripts>>
      /\ UNCHANGED <<pc, scan, edit>>
  BY DEF RunHash, At
<1>3. /\ hashes' \in [Hashes -> SUBSET FileIds]
      /\ \A h \in Hashes : hashes'[h] \subseteq hashes[h]
  <2>1. hashes \in [Hashes -> SUBSET FileIds]
    BY DEF IInv, TypeOK, StoreTypeOK
  <2>2. QED
    BY <1>1, <2>1 DEF DeleHash
<1>4. TypeOK'
  <2>1. dele[c].calls \ {p} \in SUBSET (FileIds \X (Hashes \cup {NoHash}))
    BY DeleterFacts DEF DeleLocals
  <2>2. [dele[c] EXCEPT !.calls = dele[c].calls \ {p}] \in DeleLocals
    BY <2>1, DeleterFacts DEF DeleLocals
  <2>3. dele' = [dele EXCEPT ![c] =
                   [dele[c] EXCEPT !.calls = dele[c].calls \ {p}]]
    BY <1>1, DeleterFacts
  <2>4. dele' \in [Deleters -> DeleLocals]
    BY <2>2, <2>3, DeleterFacts
  <2>5. err' \in [Clients -> BOOLEAN]
    BY <1>1, DeleterFacts DEF IInv, TypeOK
  <2>6. QED
    BY <1>2, <1>3, <2>4, <2>5 DEF IInv, TypeOK, StoreTypeOK
<1>5. /\ dele'[c].ranges = dele[c].ranges
      /\ dele'[c].left = dele[c].left
      /\ dele'[c].cur = dele[c].cur
      /\ \A d \in Deleters \ {c} : dele'[d] = dele[d]
      /\ pc'[c] = "run_hashes"
      /\ pc' = [pc EXCEPT ![c] = pc'[c]]
  BY <1>1, <1>2, DeleterFacts DEF DeleLocals
<1>6. RangesOK(c)' /\ ProgressOK(c)'
  BY <1>2, <1>5, DeleterFacts DEF RangesOK, ProgressOK, BeforeConfirm, SetExists
<1>7. QED
  BY <1>2, <1>3, <1>4, <1>5, <1>6, DeleterFrame

\* DEL of the key of a set keeps IInv.
LEMMA DelSetOK ==
  ASSUME IInv, NEW c \in Deleters, DelSet(c)
  PROVE  IInv'
<1> DEFINE g == dele[c].cur.group
<1>1. /\ pc[c] = "run_hashes"
      /\ sets' = [sets EXCEPT ![g] = NoSet]
      /\ pc' = [pc EXCEPT ![c] = "del_levels"]
      /\ UNCHANGED <<indices, files, hashes, levels, tags, scripts>>
      /\ UNCHANGED <<err, scan, edit, dele>>
  BY DEF DelSet, At, Goto
<1>2. /\ sets' \in [SetIds -> [base : 0 .. MaxFiles, count : 0 .. MaxFiles]]
      /\ \A k \in SetIds : sets'[k] = IF k = g THEN NoSet ELSE sets[k]
  <2>1. sets \in [SetIds -> [base : 0 .. MaxFiles, count : 0 .. MaxFiles]]
    BY DEF IInv, TypeOK, StoreTypeOK
  <2>2. NoSet \in [base : 0 .. MaxFiles, count : 0 .. MaxFiles]
    BY DEF NoSet
  <2>3. QED
    BY <1>1, <2>1, <2>2
<1>3. TypeOK'
  <2>1. pc' \in [Clients -> Labels]
    BY <1>1, DeleterFacts DEF Labels
  <2>2. QED
    BY <1>1, <1>2, <2>1 DEF IInv, TypeOK, StoreTypeOK
<1>4. /\ pc'[c] = "del_levels"
      /\ pc' = [pc EXCEPT ![c] = pc'[c]]
  BY <1>1, DeleterFacts
<1>5. RangesOK(c)'
  BY <1>1, DeleterFacts DEF RangesOK
<1>6. ProgressOK(c)'
  <2>1. ASSUME NEW r \in dele[c].ranges \ dele[c].left
        PROVE  ~ SetExists(r.group)'
    <3>1. r.group \in SetIds
      BY RangeFacts
    <3>2. r = dele[c].cur \/ ~ SetExists(r.group)
      BY <1>1, DeleterFacts DEF ProgressOK
    <3>3. QED
      BY <1>2, <3>1, <3>2 DEF SetExists, NoSet
  <2>2. QED
    BY <1>1, <1>4, <2>1 DEF ProgressOK, BeforeConfirm
<1>7. QED
  BY <1>1, <1>2, <1>3, <1>4, <1>5, <1>6, DeleterFrame

\* DEL of the levels of a set keeps IInv.
LEMMA DelLevelsOK ==
  ASSUME IInv, NEW c \in Deleters, DelLevels(c)
  PROVE  IInv'
<1> DEFINE r == dele[c].cur
           dels == ChunkedRun(r.base, r.count)
<1>1. /\ pc[c] = "del_levels"
      /\ levels' = [levels EXCEPT ![r.group] = {}]
      /\ dele' = [dele EXCEPT ![c].dels = dels]
      /\ pc' = [pc EXCEPT ![c] = "del_files"]
      /\ UNCHANGED <<indices, sets, files, hashes, tags, scripts>>
      /\ UNCHANGED <<err, scan, edit>>
  BY DEF DelLevels, At, Goto
<1>2. dels \in Seq(SUBSET Nat)
  <2>1. r \in IDRange \cup {NoRange}
    BY DeleterFacts DEF DeleLocals
  <2>2. r.base \in Nat /\ r.count \in Nat
    BY <2>1 DEF IDRange, NoRange, FileIds
  <2>3. QED
    BY <2>2, ChunkedRunType
<1> HIDE DEF dels
<1>3. TypeOK'
  <2>1. levels' \in [SetIds -> SUBSET FileIds]
    BY <1>1 DEF IInv, TypeOK, StoreTypeOK
  <2>2. [dele[c] EXCEPT !.dels = dels] \in DeleLocals
    BY <1>2, DeleterFacts DEF DeleLocals
  <2>3. dele' = [dele EXCEPT ![c] = [dele[c] EXCEPT !.dels = dels]]
    BY <1>1, DeleterFacts
  <2>4. dele' \in [Deleters -> DeleLocals]
    BY <2>2, <2>3, DeleterFacts
  <2>5. pc' \in [Clients -> Labels]
    BY <1>1, DeleterFacts DEF Labels
  <2>6. QED
    BY <1>1, <2>1, <2>4, <2>5 DEF IInv, TypeOK, StoreTypeOK
<1>4. /\ dele'[c].ranges = dele[c].ranges
      /\ dele'[c].left = dele[c].left
      /\ dele'[c].cur = dele[c].cur
      /\ \A d \in Deleters \ {c} : dele'[d] = dele[d]
      /\ pc'[c] = "del_files"
      /\ pc' = [pc EXCEPT ![c] = pc'[c]]
  BY <1>1, DeleterFacts DEF DeleLocals
<1>5. RangesOK(c)' /\ ProgressOK(c)'
  BY <1>1, <1>4, DeleterFacts DEF RangesOK, ProgressOK, BeforeConfirm, SetExists
<1>6. QED
  BY <1>1, <1>3, <1>4, <1>5, DeleterFrame

\* DEL of a chunk of file keys keeps IInv.
LEMMA DelFilesOK ==
  ASSUME IInv, NEW c \in Deleters, DelFiles(c)
  PROVE  IInv'
<1>1. /\ pc[c] = "del_files"
      /\ dele[c].dels # <<>>
      /\ files' = [f \in FileIds |-> IF f \in Head(dele[c].dels) THEN NoFile
                                                                ELSE files[f]]
      /\ dele' = [dele EXCEPT ![c].dels = Tail(@)]
      /\ UNCHANGED <<indices, sets, hashes, levels, tags, scripts>>
      /\ UNCHANGED <<pc, err, scan, edit>>
  BY DEF DelFiles, DelFileKeys, At
<1>2. TypeOK'
  <2>1. files' \in [FileIds -> [group : 0 .. MaxSets,
                                hash  : Hashes \cup {NoHash},
                                tags  : SUBSET Tags]]
    <3>1. NoFile \in [group : 0 .. MaxSets, hash  : Hashes \cup {NoHash},
                      tags  : SUBSET Tags]
      BY DEF NoFile, InvalidGroupID
    <3>2. QED
      BY <1>1, <3>1 DEF IInv, TypeOK, StoreTypeOK
  <2>2. dele[c].dels \in Seq(SUBSET Nat)
    BY DeleterFacts DEF DeleLocals
  <2>3. Tail(dele[c].dels) \in Seq(SUBSET Nat)
    BY <1>1, <2>2
  <2>4. [dele[c] EXCEPT !.dels = Tail(dele[c].dels)] \in DeleLocals
    BY <2>3, DeleterFacts DEF DeleLocals
  <2>5. dele' = [dele EXCEPT ![c] =
                   [dele[c] EXCEPT !.dels = Tail(dele[c].dels)]]
    BY <1>1, DeleterFacts
  <2>6. dele' \in [Deleters -> DeleLocals]
    BY <2>4, <2>5, DeleterFacts
  <2>7. QED
    BY <1>1, <2>1, <2>6 DEF IInv, TypeOK, StoreTypeOK
<1>3. /\ dele'[c].ranges = dele[c].ranges
      /\ dele'[c].left = dele[c].left
      /\ dele'[c].cur = dele[c].cur
      /\ \A d \in Deleters \ {c} : dele'[d] = dele[d]
      /\ pc'[c] = "del_files"
      /\ pc' = [pc EXCEPT ![c] = pc'[c]]
  BY <1>1, DeleterFacts DEF DeleLocals
<1>4. \A f \in FileIds : files'[f] = files[f] \/ files'[f] = NoFile
  BY <1>1
<1>5. RangesOK(c)' /\ ProgressOK(c)'
  BY <1>1, <1>3, DeleterFacts DEF RangesOK, ProgressOK, BeforeConfirm, SetExists
<1>6. QED
  BY <1>1, <1>2, <1>3, <1>4, <1>5, DeleterFrame

\* The end of a deletion keeps IInv: all of its sets are gone.
LEMMA EndDeleteOK ==
  ASSUME IInv, NEW c \in Deleters, EndDelete(c)
  PROVE  IInv'
<1>1. /\ pc[c] = "del_files"
      /\ dele[c].left = {}
      /\ \E l \in {"done", "failed"} : pc' = [pc EXCEPT ![c] = l]
      /\ UNCHANGED <<indices, sets, files, hashes, levels, tags, scripts>>
      /\ UNCHANGED <<err, scan, edit, dele>>
  BY DEF EndDelete, At, Goto, store
<1>2. TypeOK'
  BY <1>1, DeleterFacts DEF IInv, TypeOK, StoreTypeOK, Labels
<1>3. /\ pc'[c] \in {"done", "failed"}
      /\ pc' = [pc EXCEPT ![c] = pc'[c]]
  BY <1>1, DeleterFacts
<1>4. RangesOK(c)' /\ ProgressOK(c)'
  BY <1>1, <1>3, DeleterFacts DEF RangesOK, ProgressOK, BeforeConfirm, SetExists
<1>5. QED
  BY <1>1, <1>2, <1>3, <1>4, DeleterFrame

-----------------------------------------------------------------------------
\* A step that changes nothing.
LEMMA StutterOK ==
  ASSUME IInv, UNCHANGED vars
  PROVE  IInv'
<1> USE DEF vars, store
<1>1. TypeOK'
  BY DEF IInv, TypeOK, StoreTypeOK
<1>2. Onward /\ ScanProgress' /\ IdsCounted' /\ IdsDistinct'
  BY SameScansOK DEF SameScans
<1>3. SetsHaveWriters' /\ FilesHaveWriters' /\ TaggedFilesWritten'
        /\ HashedFilesWritten' /\ RangesHaveWriters' /\ DeleteProgress'
  BY <1>1, <1>2, SetsFrame, FilesFrame, TagsFrame, HashesFrame, RangesFrame,
     DeleteFrame
<1>4. TagIndexExact'
  BY DEF IInv, TagIndexExact, FileExists
<1>5. QED
  BY <1>1, <1>2, <1>3, <1>4 DEF IInv

\* Every step of every process keeps IInv.
LEMMA InductiveStep ==
  ASSUME IInv, [Next]_vars
  PROVE  IInv'
<1>1. ASSUME NEW c \in Scanners, ScanStep(c)
      PROVE  IInv'
  BY <1>1, ConnectOK, SearchOK, IncrSetOK, IncrFilesOK, HMSetSetOK,
     WriteFileOK, SAddHashOK, ZAddLevelOK DEF ScanStep, Clients
<1>2. ASSUME NEW c \in Taggers, TagStep(c)
      PROVE  IInv'
  BY <1>2, ConnectOK, StartTagOK, GetTagsOK, RunTagScriptOK, EndTagOK
  DEF TagStep, Clients, Editors
<1>3. ASSUME NEW c \in Deleters, DeleteStep(c)
      PROVE  IInv'
  BY <1>3, DeleterFacts, ConnectOK, StartDeleteOK, ConfirmReadOK, RefuseOK,
     ConfirmOK, GetTagsOK, RunTagScriptOK, NextUntagOK, NextSetOK, GetHashOK,
     RunHashOK, DelSetOK, DelLevelsOK, DelFilesOK, EndDeleteOK
  DEF DeleteStep
<1>4. CASE Terminated \/ UNCHANGED vars
  BY <1>4, StutterOK DEF Terminated
<1>5. QED
  BY <1>1, <1>2, <1>3, <1>4 DEF Next

(* IInv holds in every state the processes can reach. *)
THEOREM Invariance == Spec => []IInv
BY InitOK, InductiveStep, PTL DEF Spec

\* A file has one writer: two scans that wrote it are the same scan.
LEMMA OneWriter ==
  ASSUME IInv, NEW c \in Scanners, NEW s \in Scanners, NEW f,
         Allocated(c), f \in ScanRange(c), Wrote(s, f)
  PROVE  s = c
<1>1. /\ scan[c].base \in Nat /\ scan[s].base \in Nat
      /\ scan[s].written \in Nat /\ scan[s].written <= DataSize(s)
      /\ DataSize(c) \in Nat /\ DataSize(s) \in Nat
      /\ Allocated(s)
  BY ScanNats, DiscFacts DEF IInv, ScanProgress, Wrote
<1>2. /\ scan[c].base <= f /\ f < scan[c].base + DataSize(c)
      /\ scan[s].base <= f /\ f < scan[s].base + DataSize(s)
      /\ f \in Int
  <2>1. f \in scan[c].base .. scan[c].base + DataSize(c) - 1
    BY DEF ScanRange, IdRange
  <2>2. f \in scan[s].base .. scan[s].base + scan[s].written - 1
    BY DEF Wrote, IdRange
  <2>3. f \in Int
    BY <1>1, <2>1
  <2>4. scan[c].base <= f /\ f < scan[c].base + DataSize(c)
    BY <1>1, <2>1, <2>3
  <2>5. scan[s].base <= f /\ f <= scan[s].base + scan[s].written - 1
    BY <1>1, <2>2, <2>3
  <2>6. f < scan[s].base + DataSize(s)
    BY <1>1, <2>5, <2>3
  <2>7. QED
    BY <2>3, <2>4, <2>5, <2>6
<1>3. s # c => \/ scan[c].base + DataSize(c) <= scan[s].base
               \/ scan[s].base + DataSize(s) <= scan[c].base
  BY <1>1 DEF IInv, IdsDistinct
<1>4. QED
  BY <1>1, <1>2, <1>3

\* Files and sets with one writer each agree on who owns what.
LEMMA OwnershipFollows == IInv => FileOwnership
<1> SUFFICES ASSUME IInv, NEW f \in FileIds, NEW g \in SetIds,
                    FileExists(f), SetExists(g)
             PROVE  files[f].group = g <=> f \in FilesOf(sets[g])
  BY DEF FileOwnership
<1>1. PICK c \in Scanners :
        Writes(c, [group |-> g, base  |-> sets[g].base,
                                count |-> sets[g].count])
  BY DEF IInv, SetsHaveWriters
<1>2. PICK s \in Scanners : Wrote(s, f) /\ files[f].group = scan[s].group
  BY DEF IInv, FilesHaveWriters
<1>3. /\ Allocated(c) /\ scan[c].group = g
      /\ FilesOf(sets[g]) = ScanRange(c)
  BY <1>1 DEF Writes, FilesOf, ScanRange
<1>4. ASSUME f \in FilesOf(sets[g])
      PROVE  files[f].group = g
  BY <1>2, <1>3, <1>4, OneWriter
<1>5. ASSUME files[f].group = g
      PROVE  f \in FilesOf(sets[g])
  <2>1. s = c
    BY <1>2, <1>3, <1>5 DEF IInv, IdsDistinct, Named, Wrote, ScanProgress
  <2>2. scan[c].written <= DataSize(c) /\ scan[c].written \in Nat
          /\ DataSize(c) \in Nat /\ scan[c].base \in Nat
    BY ScanNats, DiscFacts DEF IInv, ScanProgress
  <2>3. QED
    BY <1>2, <1>3, <2>1, <2>2 DEF Wrote, ScanRange, IdRange
<1>6. QED
  BY <1>4, <1>5

\* A file filed under a hash was written with that hash.
LEMMA HashIndexFollows == IInv => HashIndexSound
<1> SUFFICES ASSUME IInv, NEW h \in Hashes, NEW f \in hashes[h], FileExists(f)
             PROVE  files[f].hash = h
  BY DEF HashIndexSound
<1>1. PICK c \in Scanners :
        Wrote(c, f) /\ scan[c].disc[f - scan[c].base + 1] = h
  BY DEF IInv, HashedFilesWritten
<1>2. f \in FileIds
  BY DEF IInv, TypeOK, StoreTypeOK
<1>3. PICK s \in Scanners :
        /\ Wrote(s, f)
        /\ files[f].hash = scan[s].disc[f - scan[s].base + 1]
  BY <1>2 DEF IInv, FilesHaveWriters
<1>4. Allocated(c) /\ f \in ScanRange(c)
  <2>1. scan[c].written <= DataSize(c) /\ scan[c].written \in Nat
          /\ DataSize(c) \in Nat /\ scan[c].base \in Nat
    BY ScanNats, DiscFacts DEF IInv, ScanProgress
  <2>2. QED
    BY <1>1, <2>1 DEF Wrote, ScanRange, IdRange
<1>5. s = c
  BY <1>3, <1>4, OneWriter
<1>6. QED
  BY <1>1, <1>3, <1>5

(* Every variable of the store and of the processes keeps its type: ids     *)
(* stay in the ranges that HINCRBY handed out, in every DEL and every SADD. *)
THEOREM TypeCorrect == Spec => []TypeOK
<1>1. IInv => TypeOK
  BY DEF IInv
<1>2. QED
  BY Invariance, <1>1, PTL

(* A file names the set whose id range holds it, for any number of scans    *)
(* whose two HINCRBYs interleave in any way, and through every deletion.    *)
THEOREM OwnershipTheorem == Spec => []FileOwnership
BY Invariance, OwnershipFollows, PTL

(* The tag lists of the files and the tag:<t> keys agree about every file   *)
(* that exists, for any number of tag processes, scans and deletions.       *)
THEOREM TagIndexTheorem == Spec => []TagIndexExact
<1>1. IInv => TagIndexExact
  BY DEF IInv
<1>2. QED
  BY Invariance, <1>1, PTL

(* An id under hash:<h> is that of a file with contents h, or of a file     *)
(* that is gone: write_files never files an item under another's hash.      *)
THEOREM HashIndexTheorem == Spec => []HashIndexSound
BY Invariance, HashIndexFollows, PTL

(* The sets of a deletion that ended well are gone for good: no scan writes *)
(* the record of a set again.                                               *)
THEOREM DeletionTheorem == Spec => []DeletedSetStaysGone
<1>1. IInv => DeletedSetStaysGone
  BY DEF IInv, DeleteProgress, DeletedSetStaysGone
<1>2. QED
  BY Invariance, <1>1, PTL

\* A step that leaves the scripts alone, and every process that connects.
Quiet ==
  /\ UNCHANGED scripts
  /\ \A d \in Clients :
       pc[d] \in {"connect", "load_tag", "load_dele", "load_hash"} =>
         pc'[d] = pc[d]

\* Every step of a process that is connected is quiet.
LEMMA QuietSteps ==
  ASSUME TypeOK, [Next]_vars
  PROVE  Quiet \/ \E c \in Clients : ConnectStep(c)
<1> USE DEF At, Goto, Quiet, store, vars
<1>1. pc \in [Clients -> Labels]
  BY DEF TypeOK
<1>2. ASSUME NEW c \in Clients, SRandMember(c) \/ HScanFile(c) \/ HScanSet(c)
      PROVE  Quiet
  BY <1>1, <1>2 DEF SRandMember, HScanFile, HScanSet
<1>3. ASSUME NEW c \in Clients, IncrSet(c) \/ IncrFiles(c) \/ HMSetSet(c)
      PROVE  Quiet
  BY <1>1, <1>3 DEF IncrSet, IncrFiles, HMSetSet
<1>4. ASSUME NEW c \in Clients, WriteFile(c) \/ SAddHash(c) \/ ZAddLevel(c)
      PROVE  Quiet
  BY <1>1, <1>4 DEF WriteFile, SAddHash, ZAddLevel
<1>5. ASSUME NEW c \in Clients, StartTag(c) \/ GetTags(c)
      PROVE  Quiet
  BY <1>1, <1>5 DEF StartTag, GetTags
<1>6. ASSUME NEW c \in Clients, RunTagScript(c) \/ EndTag(c)
      PROVE  Quiet
  BY <1>1, <1>6 DEF RunTagScript, EndTag
<1>7. ASSUME NEW c \in Clients,
             StartDelete(c) \/ ConfirmRead(c) \/ Refuse(c) \/ Confirm(c)
      PROVE  Quiet
  BY <1>1, <1>7 DEF StartDelete, ConfirmRead, Refuse, Confirm, StartUntag
<1>8. ASSUME NEW c \in Clients, NextUntag(c) \/ NextSet(c) \/ GetHash(c)
      PROVE  Quiet
  BY <1>1, <1>8 DEF NextUntag, NextSet, GetHash, StartUntag
<1>9. ASSUME NEW c \in Clients, RunHash(c) \/ DelSet(c) \/ DelLevels(c)
      PROVE  Quiet
  BY <1>1, <1>9 DEF RunHash, DelSet, DelLevels
<1>10. ASSUME NEW c \in Clients, DelFiles(c) \/ EndDelete(c)
       PROVE  Quiet
  BY <1>1, <1>10 DEF DelFiles, EndDelete
<1>11. CASE Terminated \/ UNCHANGED vars
  BY <1>11 DEF Terminated
<1>12. QED
  BY <1>2, <1>3, <1>4, <1>5, <1>6, <1>7, <1>8, <1>9, <1>10, <1>11
  DEF Next, ScanStep, TagStep, DeleteStep, Clients, Editors

\* A SCRIPT FLUSH is followed by the SCRIPT LOADs of the same process.
LEMMA ScriptsStep ==
  ASSUME TypeOK, ScriptsLostOnlyWhileConnecting, [Next]_vars
  PROVE  ScriptsLostOnlyWhileConnecting'
<1> USE DEF ScriptsLostOnlyWhileConnecting, StillLoads, ScriptNames
<1>1. pc \in [Clients -> Labels]
  BY DEF TypeOK
<1>2. CASE Quiet
  BY <1>2 DEF Quiet
<1>3. ASSUME NEW c \in Clients, Connect(c)
      PROVE  ScriptsLostOnlyWhileConnecting'
  BY <1>1, <1>3 DEF Connect, At, Goto
<1>4. ASSUME NEW c \in Clients, LoadScripts(c)
      PROVE  ScriptsLostOnlyWhileConnecting'
  <2>1. CASE LoadScript(c, "load_tag", "tag_if_in_set", "load_dele")
    BY <1>1, <2>1 DEF LoadScript, At, Goto
  <2>2. CASE LoadScript(c, "load_dele", "dele_tag_if_in_set", "load_hash")
    BY <1>1, <2>2 DEF LoadScript, At, Goto
  <2>3. CASE LoadScript(c, "load_hash", "dele_hash",
                        IF c \in Scanners THEN "srandmember" ELSE "start")
    BY <1>1, <2>3 DEF LoadScript, At, Goto
  <2>4. QED
    BY <1>4, <2>1, <2>2, <2>3 DEF LoadScripts
<1>5. QED
  BY <1>2, <1>3, <1>4, QuietSteps DEF ConnectStep

(* A script is missing from the cache of the server only while some process *)
(* is between its SCRIPT FLUSH and its SCRIPT LOAD of that very script.     *)
THEOREM ScriptsTheorem == Spec => []ScriptsLostOnlyWhileConnecting
<1>1. Init => ScriptsLostOnlyWhileConnecting
  BY DEF Init, ScriptsLostOnlyWhileConnecting
<1>2. IInv => TypeOK
  BY DEF IInv
<1>3. TypeOK /\ ScriptsLostOnlyWhileConnecting /\ [Next]_vars
        => ScriptsLostOnlyWhileConnecting'
  BY ScriptsStep
<1>4. QED
  BY Invariance, <1>1, <1>2, <1>3, PTL DEF Spec

-----------------------------------------------------------------------------
(* Tag edits stay within what their process was asked for.                  *)

\* The calls of an edit are about its files.
EditWithin ==
  \A c \in Editors : edit[c].work \subseteq edit[c].target \X Tags

\* One process goes on to another edit, or with its own.
LEMMA EditWithinUpdate ==
  ASSUME IInv, EditWithin, NEW c, NEW e,
         edit' = [edit EXCEPT ![c] = e],
         e.work \subseteq e.target \X Tags
  PROVE  EditWithin'
<1>1. edit \in [Editors -> EditLocals]
  BY DEF IInv, TypeOK
<1>2. QED
  BY <1>1 DEF EditWithin

LEMMA EditWithinStep ==
  ASSUME IInv, EditWithin, [Next]_vars
  PROVE  EditWithin'
<1> USE DEF store, vars
<1>1. CASE UNCHANGED edit
  BY <1>1 DEF EditWithin
<1>2. ASSUME NEW c \in Taggers, StartTag(c)
      PROVE  EditWithin'
  <2>1. PICK ids \in SUBSET FileIds, g \in Owners :
          \/ \E m \in {"add", "dele"}, ts \in SUBSET Tags :
               edit' = [edit EXCEPT ![c] =
                          [mode |-> m, owner |-> g, target |-> ids,
                           reads |-> {}, seen |-> ts, work |-> ids \X ts]]
          \/ edit' = [edit EXCEPT ![c] =
                        [mode |-> "clear", owner |-> g, target |-> ids,
                         reads |-> ids, seen |-> {}, work |-> {}]]
    BY <1>2 DEF StartTag
  <2>2. ASSUME NEW m, NEW ts \in SUBSET Tags,
               edit' = [edit EXCEPT ![c] =
                          [mode |-> m, owner |-> g, target |-> ids,
                           reads |-> {}, seen |-> ts, work |-> ids \X ts]]
        PROVE  EditWithin'
    BY <2>2, EditWithinUpdate
  <2>3. CASE edit' = [edit EXCEPT ![c] =
                        [mode |-> "clear", owner |-> g, target |-> ids,
                         reads |-> ids, seen |-> {}, work |-> {}]]
    BY <2>3, EditWithinUpdate
  <2>4. QED
    BY <2>1, <2>2, <2>3
<1>3. ASSUME NEW c \in Editors, GetTags(c)
      PROVE  EditWithin'
  <2>1. PICK f \in edit[c].reads :
          edit' = [edit EXCEPT ![c].reads = edit[c].reads \ {f},
                               ![c].seen = edit[c].seen \cup files[f].tags,
                               ![c].work =
                                 IF edit[c].reads \ {f} = {}
                                   THEN edit[c].target \X (edit[c].seen \cup files[f].tags)
                                   ELSE @]
    BY <1>3 DEF GetTags
  <2>2. /\ edit \in [Editors -> EditLocals] /\ edit[c] \in EditLocals
        /\ files[f].tags \subseteq Tags
    BY DEF IInv, TypeOK, StoreTypeOK, EditLocals
  <2>3. edit[c].seen \cup files[f].tags \subseteq Tags
    BY <2>2 DEF EditLocals
  <2>4. /\ edit'[c].target = edit[c].target
        /\ \/ edit'[c].work = edit[c].work
           \/ edit'[c].work = edit[c].target \X (edit[c].seen \cup files[f].tags)
        /\ \A d \in Editors \ {c} : edit'[d] = edit[d]
    BY <2>1, <2>2 DEF EditLocals
  <2>5. edit'[c].work \subseteq edit'[c].target \X Tags
    BY <2>3, <2>4 DEF EditWithin
  <2>6. QED
    BY <2>4, <2>5 DEF EditWithin
<1>4. ASSUME NEW c \in Editors, RunTagScript(c)
      PROVE  EditWithin'
  <2>1. PICK p \in edit[c].work : edit' = [edit EXCEPT ![c].work = edit[c].work \ {p}]
    BY <1>4 DEF RunTagScript
  <2>2. edit \in [Editors -> EditLocals] /\ edit[c] \in EditLocals
    BY DEF IInv, TypeOK
  <2>3. /\ edit'[c].target = edit[c].target
        /\ edit'[c].work = edit[c].work \ {p}
        /\ \A d \in Editors \ {c} : edit'[d] = edit[d]
    BY <2>1, <2>2 DEF EditLocals
  <2>4. QED
    BY <2>3 DEF EditWithin
<1>5. ASSUME NEW c \in Deleters, NEW r, StartUntag(c, r)
      PROVE  EditWithin'
  BY <1>5, EditWithinUpdate DEF StartUntag
<1>6. ASSUME NEW c \in Deleters, NextSet(c) \/ GetHash(c)
      PROVE  EditWithin'
  <2>1. PICK rs : edit' = [edit EXCEPT ![c].reads = rs]
    BY <1>6 DEF NextSet, GetHash
  <2>2. c \in Editors /\ edit \in [Editors -> EditLocals] /\ edit[c] \in EditLocals
    BY DEF IInv, TypeOK, Editors
  <2>3. /\ edit'[c].target = edit[c].target
        /\ edit'[c].work = edit[c].work
        /\ \A d \in Editors \ {c} : edit'[d] = edit[d]
    BY <2>1, <2>2 DEF EditLocals
  <2>4. QED
    BY <2>3 DEF EditWithin
<1>7. ASSUME NEW c \in Deleters, Confirm(c) \/ NextUntag(c)
      PROVE  EditWithin'
  <2>1. UNCHANGED edit \/ \E r : StartUntag(c, r)
    BY <1>7 DEF Confirm, NextUntag
  <2>2. QED
    BY <1>1, <1>5, <2>1
<1>8. ASSUME NEW c \in Scanners, ScanStep(c)
      PROVE  UNCHANGED edit
  BY <1>8 DEF ScanStep, ConnectStep, Connect, LoadScripts, LoadScript,
    SRandMember, HScanFile, HScanSet, IncrSet, IncrFiles, HMSetSet,
    WriteFile, SAddHash, ZAddLevel
<1>9. ASSUME NEW c \in Clients,
             \/ ConnectStep(c) \/ EndTag(c) \/ StartDelete(c) \/ ConfirmRead(c)
             \/ Refuse(c) \/ RunHash(c) \/ DelSet(c) \/ DelLevels(c)
             \/ DelFiles(c) \/ EndDelete(c)
      PROVE  UNCHANGED edit
  BY <1>9 DEF ConnectStep, Connect, LoadScripts, LoadScript, EndTag, StartDelete,
    ConfirmRead, Refuse, RunHash, DelSet, DelLevels, DelFiles, EndDelete
<1>10. CASE Terminated \/ UNCHANGED vars
  BY <1>1, <1>10 DEF Terminated
<1>11. QED
  BY <1>1, <1>2, <1>3, <1>4, <1>6, <1>7, <1>8, <1>9, <1>10
  DEF Next, TagStep, DeleteStep, Clients, Editors

\* Nothing but a script changes the tags of a file that stays.
LEMMA TagsOnlyByScripts ==
  ASSUME IInv, [Next]_vars, \A c \in Editors : ~ RunTagScript(c),
         NEW f \in FileIds, FileExists(f), FileExists(f)'
  PROVE  files'[f].tags = files[f].tags
<1> USE DEF store, vars
<1>1. ASSUME NEW c \in Scanners, WriteFile(c)
      PROVE  files'[f].tags = files[f].tags
  <2>1. PICK k, g, h : files' = [files EXCEPT ![k] =
                                   [group |-> g, hash |-> h, tags |-> @.tags]]
    BY <1>1 DEF WriteFile, HMSetFile
  <2>2. files \in [FileIds -> [group : 0 .. MaxSets, hash : Hashes \cup {NoHash},
                              tags : SUBSET Tags]]
    BY DEF IInv, TypeOK, StoreTypeOK
  <2>3. QED
    BY <2>1, <2>2
<1>2. ASSUME NEW c \in Deleters, DelFiles(c)
      PROVE  files'[f].tags = files[f].tags
  <2>1. PICK ids : files' = [k \in FileIds |-> IF k \in ids THEN NoFile ELSE files[k]]
    BY <1>2 DEF DelFiles, DelFileKeys
  <2>2. files'[f] = files[f] \/ files'[f] = NoFile
    BY <2>1
  <2>3. QED
    BY <2>2 DEF FileExists, NoFile
<1>3. ASSUME NEW c \in Scanners, ScanStep(c), ~ WriteFile(c)
      PROVE  UNCHANGED files
  BY <1>3 DEF ScanStep, ConnectStep, Connect, LoadScripts, LoadScript,
    SRandMember, HScanFile, HScanSet, IncrSet, IncrFiles, HMSetSet,
    SAddHash, ZAddLevel
<1>4. ASSUME NEW c \in Taggers, TagStep(c), ~ RunTagScript(c)
      PROVE  UNCHANGED files
  BY <1>4 DEF TagStep, ConnectStep, Connect, LoadScripts, LoadScript,
    StartTag, GetTags, EndTag
<1>5. ASSUME NEW c \in Deleters, DeleteStep(c), ~ RunTagScript(c), ~ DelFiles(c)
      PROVE  UNCHANGED files
  BY <1>5 DEF DeleteStep, ConnectStep, Connect, LoadScripts, LoadScript,
    GetTags, StartDelete, ConfirmRead, Refuse, Confirm, NextUntag, NextSet, GetHash,
    RunHash, DelSet, DelLevels, EndDelete
<1>6. CASE Terminated \/ UNCHANGED vars
  BY <1>6 DEF Terminated
<1>7. QED
  BY <1>1, <1>2, <1>3, <1>4, <1>5, <1>6 DEF Next, Editors

\* What a step may do to the tags of a file that stays.
LEMMA TagsStep ==
  ASSUME IInv, EditWithin, [Next]_vars,
         NEW f \in FileIds, FileExists(f), FileExists(f)',
         files'[f].tags # files[f].tags
  PROVE  \E c \in Editors : /\ pc[c] = "run_tags"
                            /\ f \in edit[c].target
                            /\ files[f].group = edit[c].owner
<1>1. PICK c \in Editors : RunTagScript(c)
  BY TagsOnlyByScripts
<1>2. PICK p \in edit[c].work :
        /\ pc[c] = "run_tags"
        /\ \/ TagIfInSet(p[2], p[1], edit[c].owner)
           \/ DeleTagIfInSet(p[2], p[1], edit[c].owner)
           \/ UNCHANGED <<files, tags>>
  BY <1>1 DEF RunTagScript, At
<1>3. p[1] \in edit[c].target
  BY <1>2 DEF EditWithin
<1>4. /\ MatchesOwner(p[1], edit[c].owner)
      /\ \E ts : files' = [files EXCEPT ![p[1]].tags = ts]
  BY <1>2 DEF TagIfInSet, DeleTagIfInSet
<1>5. f = p[1]
  BY <1>4 DEF IInv, TypeOK, StoreTypeOK
<1>6. QED
  BY <1>2, <1>3, <1>4, <1>5 DEF MatchesOwner

(* Tags of a file that stays change only by a process that was given that   *)
(* file and the set that owns it, for any number of edits and deletions.    *)
THEOREM TagsTheorem == Spec => TagsChangeOnlyInOwnSet
<1>1. Init => EditWithin
  BY DEF Init, EditWithin
<1>2. IInv /\ EditWithin /\ [Next]_vars => EditWithin'
  BY EditWithinStep
<1>3. IInv /\ EditWithin /\ [Next]_vars =>
        [\A f \in FileIds :
           FileExists(f) /\ FileExists(f)' /\ files'[f].tags # files[f].tags =>
             \E c \in Editors : /\ pc[c] = "run_tags"
                                /\ f \in edit[c].target
                                /\ files[f].group = edit[c].owner]_vars
  BY TagsStep
<1>4. QED
  BY Invariance, <1>1, <1>2, <1>3, PTL DEF Spec, TagsChangeOnlyInOwnSet

-----------------------------------------------------------------------------
(* Files stay in the index of their hash.                                   *)

\* The SADD of file f is the next command of its scan.
BeingFiled(f) == \E c \in Scanners : pc[c] = "sadd_hash" /\ LastWritten(c) = f

\* FilesFoundByHash, told of deletions that can no longer be refused: those
\* still waiting for an answer may yet forget what they read.
FoundOrDeleted ==
  \A f \in FileIds :
    FileExists(f) => f \in hashes[files[f].hash] \/ Deleting(f) \/ BeingFiled(f)

ConfirmedGoOn ==
  \A d \in Deleters :
    pc[d] \notin BeforeConfirm =>
      pc'[d] \notin BeforeConfirm /\ dele'[d].ranges = dele[d].ranges

FilingGoesOn ==
  \A c \in Scanners : pc[c] = "sadd_hash" => pc'[c] = pc[c] /\ scan'[c] = scan[c]

FileKept(f) ==
  FileExists(f)' => /\ FileExists(f)
                    /\ files'[f].group = files[f].group
                    /\ files'[f].hash = files[f].hash

\* Once confirmed, a deletion keeps the list of its sets.
LEMMA ConfirmedSets ==
  ASSUME IInv, [Next]_vars
  PROVE  ConfirmedGoOn
<1> USE DEF store, vars, At, Goto, ConfirmedGoOn, BeforeConfirm
<1>0. /\ pc \in [Clients -> Labels]
      /\ dele \in [Deleters -> DeleLocals]
      /\ \A d \in Deleters : d \in Clients /\ d \notin Scanners /\ d \notin Taggers
  BY DEF IInv, TypeOK, Clients, Editors
<1>1. ASSUME NEW c \in Scanners \cup Taggers, \E l : Goto(c, l), UNCHANGED dele
      PROVE  ConfirmedGoOn
  BY <1>0, <1>1
<1>2. CASE UNCHANGED <<pc, dele>>
  BY <1>0, <1>2
<1>3. ASSUME NEW c \in Scanners, ScanStep(c)
      PROVE  ConfirmedGoOn
  <2>1. (\E l : Goto(c, l)) /\ UNCHANGED dele
    BY <1>3 DEF ScanStep, ConnectStep, Connect, LoadScripts, LoadScript,
      SRandMember, HScanFile, HScanSet, IncrSet, IncrFiles, HMSetSet,
      WriteFile, SAddHash, ZAddLevel
  <2>2. QED
    BY <1>1, <2>1
<1>4. ASSUME NEW c \in Taggers, TagStep(c)
      PROVE  ConfirmedGoOn
  <2>1. ((\E l : Goto(c, l)) /\ UNCHANGED dele) \/ UNCHANGED <<pc, dele>>
    BY <1>4 DEF TagStep, ConnectStep, Connect, LoadScripts, LoadScript,
      StartTag, GetTags, RunTagScript, EndTag
  <2>2. QED
    BY <1>1, <1>2, <2>1
<1>5. ASSUME NEW c \in Deleters, pc[c] \in BeforeConfirm,
             \A d \in Deleters \ {c} : pc'[d] = pc[d] /\ dele'[d] = dele[d]
      PROVE  ConfirmedGoOn
  BY <1>5
<1>6. ASSUME NEW c \in Deleters,
             \/ ConnectStep(c) \/ StartDelete(c) \/ ConfirmRead(c)
             \/ Refuse(c) \/ Confirm(c)
      PROVE  ConfirmedGoOn
  <2>1. /\ pc[c] \in BeforeConfirm
        /\ (\E l : pc' = [pc EXCEPT ![c] = l]) \/ UNCHANGED pc
        /\ (\E e : dele' = [dele EXCEPT ![c] = e]) \/ UNCHANGED dele
    BY <1>6 DEF ConnectStep, Connect, LoadScripts, LoadScript, StartDelete,
      ConfirmRead, Refuse, Confirm, StartUntag
  <2>2. QED
    BY <1>0, <1>5, <2>1
<1>7. ASSUME NEW c \in Deleters, NEW l, l \notin BeforeConfirm,
             pc' = [pc EXCEPT ![c] = l] \/ UNCHANGED pc,
             dele' = [dele EXCEPT ![c] = dele'[c]],
             dele'[c].ranges = dele[c].ranges
      PROVE  ConfirmedGoOn
  BY <1>0, <1>7
<1>8. ASSUME NEW c \in Deleters, NEW e, dele' = [dele EXCEPT ![c] = e]
      PROVE  dele' = [dele EXCEPT ![c] = dele'[c]] /\ dele'[c] = e
  BY <1>0, <1>8
<1>9. dele' = dele => \A c \in Deleters : dele' = [dele EXCEPT ![c] = dele'[c]]
  BY <1>0
<1>10. ASSUME NEW c \in Deleters, GetTags(c) \/ RunTagScript(c)
       PROVE  ConfirmedGoOn
  <2>1. /\ UNCHANGED dele
        /\ \/ UNCHANGED pc
           \/ \E l \in {"run_tags", "get_tags"} : pc' = [pc EXCEPT ![c] = l]
    BY <1>10 DEF GetTags, RunTagScript
  <2>2. QED
    BY <1>7, <1>9, <2>1
<1>11. ASSUME NEW c \in Deleters, NextUntag(c)
       PROVE  ConfirmedGoOn
  <2>1. /\ (\E s : dele' = [dele EXCEPT ![c].left = s]) \/ UNCHANGED dele
        /\ \E l \in {"failed", "get_tags", "del_files"} : pc' = [pc EXCEPT ![c] = l]
    BY <1>11 DEF NextUntag, StartUntag
  <2>2. dele' = [dele EXCEPT ![c] = dele'[c]] /\ dele'[c].ranges = dele[c].ranges
    BY <1>0, <2>1 DEF DeleLocals
  <2>3. QED
    BY <1>7, <2>1, <2>2
<1>12. ASSUME NEW c \in Deleters, NextSet(c)
       PROVE  ConfirmedGoOn
  <2>1. /\ \E s, r : dele' = [dele EXCEPT ![c].left = s, ![c].cur = r]
        /\ pc' = [pc EXCEPT ![c] = "get_hashes"]
    BY <1>12 DEF NextSet
  <2>2. dele' = [dele EXCEPT ![c] = dele'[c]] /\ dele'[c].ranges = dele[c].ranges
    BY <1>0, <2>1 DEF DeleLocals
  <2>3. QED
    BY <1>7, <2>1, <2>2
<1>13. ASSUME NEW c \in Deleters, GetHash(c) \/ RunHash(c)
       PROVE  ConfirmedGoOn
  <2>1. /\ \E s : dele' = [dele EXCEPT ![c].calls = s]
        /\ \/ UNCHANGED pc
           \/ \E l \in {"get_hashes", "run_hashes"} : pc' = [pc EXCEPT ![c] = l]
    BY <1>13 DEF GetHash, RunHash
  <2>2. dele' = [dele EXCEPT ![c] = dele'[c]] /\ dele'[c].ranges = dele[c].ranges
    BY <1>0, <2>1 DEF DeleLocals
  <2>3. QED
    BY <1>7, <2>1, <2>2
<1>14. ASSUME NEW c \in Deleters, DelSet(c) \/ EndDelete(c)
       PROVE  ConfirmedGoOn
  <2>1. /\ UNCHANGED dele
        /\ \E l \in {"del_levels", "failed", "done"} : pc' = [pc EXCEPT ![c] = l]
    BY <1>14 DEF DelSet, EndDelete
  <2>2. QED
    BY <1>7, <1>9, <2>1
<1>15. ASSUME NEW c \in Deleters, DelLevels(c) \/ DelFiles(c)
       PROVE  ConfirmedGoOn
  <2>1. /\ \E s : dele' = [dele EXCEPT ![c].dels = s]
        /\ pc' = [pc EXCEPT ![c] = "del_files"] \/ UNCHANGED pc
    BY <1>15 DEF DelLevels, DelFiles
  <2>2. dele' = [dele EXCEPT ![c] = dele'[c]] /\ dele'[c].ranges = dele[c].ranges
    BY <1>0, <2>1 DEF DeleLocals
  <2>3. QED
    BY <1>7, <2>1, <2>2
<1>16. CASE Terminated \/ UNCHANGED vars
  BY <1>2, <1>16 DEF Terminated
<1>17. QED
  BY <1>3, <1>4, <1>6, <1>10, <1>11, <1>12, <1>13, <1>14, <1>15, <1>16
  DEF Next, DeleteStep

\* What nobody filed, deleted or took out of an index is found as before.
LEMMA FoundFrame ==
  ASSUME IInv, ConfirmedGoOn, NEW f \in FileIds, FileExists(f)', FileKept(f),
         f \in hashes[files[f].hash] => f \in hashes'[files[f].hash],
         \A c \in Scanners : pc[c] = "sadd_hash" /\ LastWritten(c) = f =>
                              pc'[c] = pc[c] /\ scan'[c] = scan[c],
         f \in hashes[files[f].hash] \/ Deleting(f) \/ BeingFiled(f)
  PROVE  f \in hashes'[files'[f].hash] \/ Deleting(f)' \/ BeingFiled(f)'
<1>1. files'[f].group = files[f].group /\ files'[f].hash = files[f].hash
  BY DEF FileKept
<1>2. Deleting(f) => Deleting(f)'
  BY <1>1 DEF Deleting, ConfirmedGoOn
<1>3. BeingFiled(f) => BeingFiled(f)'
  BY DEF BeingFiled, LastWritten
<1>4. QED
  BY <1>1, <1>2, <1>3

\* A file that exists was written by one scan, with the hash its disc gives.
LEMMA WriterOfFile ==
  ASSUME IInv, NEW f \in FileIds, FileExists(f), NEW c \in Scanners,
         Allocated(c), f \in ScanRange(c)
  PROVE  /\ files[f].group = scan[c].group
         /\ files[f].hash = scan[c].disc[f - scan[c].base + 1]
<1>1. PICK s \in Scanners :
        /\ Wrote(s, f)
        /\ files[f].group = scan[s].group
        /\ files[f].hash = scan[s].disc[f - scan[s].base + 1]
  BY DEF IInv, FilesHaveWriters
<1>2. s = c
  BY <1>1, OneWriter
<1>3. QED
  BY <1>1, <1>2

\* The hashes of a disc are hashes.
LEMMA WrittenHash ==
  ASSUME IInv, NEW s \in Scanners, NEW f \in FileIds, Wrote(s, f)
  PROVE  scan[s].disc[f - scan[s].base + 1] \in Hashes
<1>1. /\ scan[s].base \in Nat /\ scan[s].written \in Nat /\ DataSize(s) \in Nat
      /\ scan[s].written <= DataSize(s)
  BY ScanNats, DiscFacts DEF IInv, ScanProgress
<1>2. f \in scan[s].base .. scan[s].base + scan[s].written - 1
  BY DEF Wrote, IdRange
<1>3. f - scan[s].base + 1 \in 1 .. DataSize(s)
  BY <1>1, <1>2
<1>4. QED
  BY <1>3, DiscFacts DEF IInv

\* dele_hash takes the files of the set being deleted out, and no others.
LEMMA RunHashKeeps ==
  ASSUME IInv, ConfirmedGoOn, NEW d \in Deleters, RunHash(d),
         NEW f \in FileIds, FileExists(f), f \in hashes[files[f].hash]
  PROVE  f \in hashes'[files[f].hash] \/ Deleting(f)'
<1>1. /\ pc[d] = "run_hashes"
      /\ UNCHANGED files
      /\ \E p : hashes' = hashes \/ DeleHash(p, FilesOf(dele[d].cur))
  BY DEF RunHash, At
<1>2. files[f].hash \in Hashes
  BY WrittenHash DEF IInv, FilesHaveWriters
<1>3. CASE f \notin FilesOf(dele[d].cur) \/ hashes' = hashes
  BY <1>1, <1>2, <1>3 DEF DeleHash
<1>4. CASE f \in FilesOf(dele[d].cur)
  <2>1. dele[d].cur \in dele[d].ranges
    <3>1. dele[d].cur # NoRange
      BY <1>4 DEF FilesOf, IdRange, NoRange
    <3>2. QED
      BY <3>1 DEF IInv, RangesHaveWriters
  <2>2. PICK c \in Scanners : Writes(c, dele[d].cur)
    BY <2>1 DEF IInv, RangesHaveWriters
  <2>3. /\ Allocated(c) /\ f \in ScanRange(c) /\ dele[d].cur.group = scan[c].group
    BY <1>4, <2>2 DEF Writes, FilesOf, ScanRange
  <2>4. files[f].group = dele[d].cur.group
    BY <2>3, WriterOfFile
  <2>5. pc'[d] \notin BeforeConfirm /\ dele'[d].ranges = dele[d].ranges
    BY <1>1 DEF ConfirmedGoOn, BeforeConfirm
  <2>6. files'[f].group = files[f].group
    BY <1>1
  <2>7. QED
    BY <2>1, <2>4, <2>5, <2>6 DEF Deleting
<1>5. QED
  BY <1>3, <1>4

LEMMA RunHashFound ==
  ASSUME IInv, FoundOrDeleted, ConfirmedGoOn, NEW d \in Deleters, RunHash(d)
  PROVE  FoundOrDeleted'
<1> SUFFICES ASSUME NEW f \in FileIds, FileExists(f)'
             PROVE  f \in hashes'[files'[f].hash] \/ Deleting(f)' \/ BeingFiled(f)'
  BY DEF FoundOrDeleted
<1>1. UNCHANGED <<files, pc, scan>>
  BY DEF RunHash
<1>2. FileExists(f) /\ files'[f] = files[f]
  BY <1>1 DEF FileExists
<1>3. f \in hashes[files[f].hash] \/ Deleting(f) \/ BeingFiled(f)
  BY <1>2 DEF FoundOrDeleted
<1>4. (Deleting(f) => Deleting(f)') /\ (BeingFiled(f) => BeingFiled(f)')
  BY <1>1, <1>2 DEF Deleting, ConfirmedGoOn, BeingFiled, LastWritten
<1>5. QED
  BY <1>2, <1>3, <1>4, RunHashKeeps

\* The SADD of write_files puts the file where its record says.
LEMMA SAddHashFound ==
  ASSUME IInv, FoundOrDeleted, ConfirmedGoOn, NEW c \in Scanners, SAddHash(c)
  PROVE  FoundOrDeleted'
<1> SUFFICES ASSUME NEW f \in FileIds, FileExists(f)'
             PROVE  f \in hashes'[files'[f].hash] \/ Deleting(f)' \/ BeingFiled(f)'
  BY DEF FoundOrDeleted
<1> DEFINE h == scan[c].disc[scan[c].written]
<1>1. /\ pc[c] = "sadd_hash"
      /\ hashes' = [hashes EXCEPT ![h] = @ \cup {LastWritten(c)}]
      /\ pc' = [pc EXCEPT ![c] = "zadd_level"]
      /\ UNCHANGED <<files, scan>>
  BY DEF SAddHash, At, Goto
<1>2. FileExists(f) /\ FileKept(f)
  BY <1>1 DEF FileExists, FileKept
<1>3. /\ pc \in [Clients -> Labels] /\ hashes \in [Hashes -> SUBSET FileIds]
      /\ \A s \in Scanners : s \in Clients
  BY DEF IInv, TypeOK, StoreTypeOK, Clients
<1>4. CASE f = LastWritten(c)
  <2>1. /\ Allocated(c) /\ scan[c].written > 0 /\ scan[c].written <= DataSize(c)
        /\ scan[c].base \in Nat /\ scan[c].written \in Nat /\ DataSize(c) \in Nat
    BY <1>1, ScanNats, DiscFacts DEF IInv, ScanProgress
  <2>2. f \in ScanRange(c) /\ f - scan[c].base + 1 = scan[c].written
    BY <1>4, <2>1 DEF LastWritten, ScanRange, IdRange
  <2>3. files[f].hash = h
    BY <1>2, <2>1, <2>2, WriterOfFile
  <2>4. h \in Hashes
    BY <2>1, DiscFacts DEF IInv
  <2>5. f \in hashes'[h]
    BY <1>1, <1>3, <1>4, <2>4
  <2>6. QED
    BY <1>1, <2>3, <2>5
<1>5. CASE f # LastWritten(c)
  <2>1. f \in hashes[files[f].hash] => f \in hashes'[files[f].hash]
    BY <1>1, <1>3
  <2>2. \A s \in Scanners : pc[s] = "sadd_hash" /\ LastWritten(s) = f =>
                            pc'[s] = pc[s] /\ scan'[s] = scan[s]
    BY <1>1, <1>3, <1>5
  <2>3. f \in hashes[files[f].hash] \/ Deleting(f) \/ BeingFiled(f)
    BY <1>2 DEF FoundOrDeleted
  <2>4. QED
    BY <1>2, <2>1, <2>2, <2>3, FoundFrame
<1>6. QED
  BY <1>4, <1>5

\* A new record is about to be filed.
LEMMA WriteFileFound ==
  ASSUME IInv, FoundOrDeleted, ConfirmedGoOn, NEW c \in Scanners, WriteFile(c)
  PROVE  FoundOrDeleted'
<1> SUFFICES ASSUME NEW f \in FileIds, FileExists(f)'
             PROVE  f \in hashes'[files'[f].hash] \/ Deleting(f)' \/ BeingFiled(f)'
  BY DEF FoundOrDeleted
<1> DEFINE k == scan[c].base + scan[c].written
<1>1. /\ pc[c] = "hmset_file"
      /\ HMSetFile(k, scan[c].group, scan[c].disc[scan[c].written + 1])
      /\ scan' = [scan EXCEPT ![c].written = scan[c].written + 1]
      /\ pc' = [pc EXCEPT ![c] = "sadd_hash"]
      /\ UNCHANGED hashes
  BY DEF WriteFile, At, Goto
<1>2. /\ pc \in [Clients -> Labels] /\ c \in Clients
      /\ scan \in [Scanners -> ScanLocals] /\ scan[c] \in ScanLocals
      /\ files \in [FileIds -> [group : 0 .. MaxSets, hash : Hashes \cup {NoHash},
                                tags : SUBSET Tags]]
      /\ \A s \in Scanners : s \in Clients
  BY DEF IInv, TypeOK, StoreTypeOK, Clients
<1>3. CASE f = k
  <2>1. scan'[c].base = scan[c].base /\ scan'[c].written = scan[c].written + 1
    BY <1>1, <1>2 DEF ScanLocals
  <2>2. LastWritten(c)' = f
    BY <1>3, <2>1, ScanNats DEF LastWritten, IInv
  <2>3. QED
    BY <1>1, <1>2, <2>2 DEF BeingFiled
<1>4. CASE f # k
  <2>1. files'[f] = files[f]
    BY <1>1, <1>2, <1>4 DEF HMSetFile
  <2>2. FileExists(f) /\ FileKept(f)
    BY <2>1 DEF FileExists, FileKept
  <2>3. \A s \in Scanners : pc[s] = "sadd_hash" => pc'[s] = pc[s] /\ scan'[s] = scan[s]
    BY <1>1, <1>2
  <2>4. f \in hashes[files[f].hash] \/ Deleting(f) \/ BeingFiled(f)
    BY <2>2 DEF FoundOrDeleted
  <2>5. QED
    BY <1>1, <2>2, <2>3, <2>4, FoundFrame
<1>5. QED
  BY <1>3, <1>4

\* Every other step leaves the indexes of hashes, what files say of their set
\* and contents, and the scans about to send SADD as they are.
LEMMA OtherStepsFound ==
  ASSUME IInv, [Next]_vars,
         \A c \in Scanners : ~ WriteFile(c) /\ ~ SAddHash(c),
         \A d \in Deleters : ~ RunHash(d)
  PROVE  UNCHANGED hashes /\ FilingGoesOn /\ \A f \in FileIds : FileKept(f)
<1> USE DEF store, vars, At, Goto, FilingGoesOn
<1>0. /\ pc \in [Clients -> Labels]
      /\ scan \in [Scanners -> ScanLocals]
      /\ files \in [FileIds -> [group : 0 .. MaxSets, hash : Hashes \cup {NoHash},
                                tags : SUBSET Tags]]
      /\ \A s \in Scanners : s \in Clients /\ s \notin Taggers /\ s \notin Deleters
  BY DEF IInv, TypeOK, StoreTypeOK, Clients, Editors
<1>1. UNCHANGED files => \A f \in FileIds : FileKept(f)
  BY DEF FileKept, FileExists
<1>2. ASSUME NEW c \in Scanners, ScanStep(c)
      PROVE  UNCHANGED <<files, hashes>> /\ FilingGoesOn
  <2>1. /\ UNCHANGED <<files, hashes>>
        /\ pc[c] # "sadd_hash"
        /\ \E l : pc' = [pc EXCEPT ![c] = l]
        /\ \A s \in Scanners \ {c} : scan'[s] = scan[s]
    BY <1>0, <1>2 DEF ScanStep, ConnectStep, Connect, LoadScripts, LoadScript,
      SRandMember, HScanFile, HScanSet, IncrSet, IncrFiles, HMSetSet, ZAddLevel
  <2>2. QED
    BY <1>0, <2>1
<1>3. ASSUME NEW c \in Taggers, TagStep(c)
      PROVE  UNCHANGED hashes /\ FilingGoesOn
  <2>1. /\ UNCHANGED <<scan, hashes>>
        /\ UNCHANGED pc \/ \E l : pc' = [pc EXCEPT ![c] = l]
    BY <1>3 DEF TagStep, ConnectStep, Connect, LoadScripts, LoadScript,
      StartTag, GetTags, RunTagScript, EndTag
  <2>2. QED
    BY <1>0, <2>1
<1>4. ASSUME NEW c \in Deleters, DeleteStep(c)
      PROVE  UNCHANGED hashes /\ FilingGoesOn
  <2>1. /\ UNCHANGED <<scan, hashes>>
        /\ UNCHANGED pc \/ \E l : pc' = [pc EXCEPT ![c] = l]
    BY <1>4 DEF DeleteStep, ConnectStep, Connect, LoadScripts, LoadScript,
      GetTags, RunTagScript, StartDelete, ConfirmRead, Refuse,
      Confirm, StartUntag, NextUntag, NextSet, GetHash, DelSet, DelLevels,
      DelFiles, EndDelete
  <2>2. QED
    BY <1>0, <2>1
<1>5. ASSUME NEW c \in Editors, RunTagScript(c)
      PROVE  \A f \in FileIds : FileKept(f)
  <2>1. UNCHANGED files \/ \E k, ts : files' = [files EXCEPT ![k].tags = ts]
    BY <1>5 DEF RunTagScript, TagIfInSet, DeleTagIfInSet
  <2>2. ASSUME NEW k, NEW ts, files' = [files EXCEPT ![k].tags = ts], NEW f \in FileIds
        PROVE  FileKept(f)
    BY <1>0, <2>2 DEF FileKept, FileExists
  <2>3. QED
    BY <1>1, <2>1, <2>2
<1>6. ASSUME NEW c \in Deleters, DelFiles(c)
      PROVE  \A f \in FileIds : FileKept(f)
  <2>1. \E ids : files' = [f \in FileIds |-> IF f \in ids THEN NoFile ELSE files[f]]
    BY <1>6 DEF DelFiles, DelFileKeys
  <2>2. QED
    BY <2>1 DEF FileKept, FileExists, NoFile
<1>7. ASSUME NEW c \in Taggers, TagStep(c), ~ RunTagScript(c)
      PROVE  UNCHANGED files
  BY <1>7 DEF TagStep, ConnectStep, Connect, LoadScripts, LoadScript,
    StartTag, GetTags, EndTag
<1>8. ASSUME NEW c \in Deleters, DeleteStep(c), ~ RunTagScript(c), ~ DelFiles(c)
      PROVE  UNCHANGED files
  BY <1>8 DEF DeleteStep, ConnectStep, Connect, LoadScripts, LoadScript,
    GetTags, StartDelete, ConfirmRead, Refuse, Confirm, NextUntag, NextSet, GetHash,
    RunHash, DelSet, DelLevels, EndDelete
<1>9. CASE Terminated \/ UNCHANGED vars
  BY <1>0, <1>1, <1>9 DEF Terminated
<1>10. ASSUME NEW c \in Scanners, ScanStep(c)
      PROVE  UNCHANGED hashes /\ FilingGoesOn /\ \A f \in FileIds : FileKept(f)
  BY <1>1, <1>2, <1>10
<1>11. ASSUME NEW c \in Taggers, TagStep(c)
       PROVE  UNCHANGED hashes /\ FilingGoesOn /\ \A f \in FileIds : FileKept(f)
  <2>1. c \in Editors
    BY DEF Editors
  <2>2. UNCHANGED hashes /\ FilingGoesOn
    BY <1>3, <1>11
  <2>3. CASE RunTagScript(c)
    BY <1>5, <2>1, <2>2, <2>3
  <2>4. CASE ~ RunTagScript(c)
    BY <1>1, <1>7, <1>11, <2>2, <2>4
  <2>5. QED
    BY <2>3, <2>4
<1>12. ASSUME NEW c \in Deleters, DeleteStep(c)
       PROVE  UNCHANGED hashes /\ FilingGoesOn /\ \A f \in FileIds : FileKept(f)
  <2>1. c \in Editors
    BY DEF Editors
  <2>2. UNCHANGED hashes /\ FilingGoesOn
    BY <1>4, <1>12
  <2>3. CASE RunTagScript(c)
    BY <1>5, <2>1, <2>2, <2>3
  <2>4. CASE DelFiles(c)
    BY <1>6, <2>2, <2>4
  <2>5. CASE ~ RunTagScript(c) /\ ~ DelFiles(c)
    BY <1>1, <1>8, <1>12, <2>2, <2>5
  <2>6. QED
    BY <2>3, <2>4, <2>5
<1>13. QED
  BY <1>9, <1>10, <1>11, <1>12 DEF Next

LEMMA FoundStep ==
  ASSUME IInv, FoundOrDeleted, [Next]_vars
  PROVE  FoundOrDeleted'
<1>1. ConfirmedGoOn
  BY ConfirmedSets
<1>2. CASE \E d \in Deleters : RunHash(d)
  BY <1>1, <1>2, RunHashFound
<1>3. CASE \E c \in Scanners : SAddHash(c) \/ WriteFile(c)
  BY <1>1, <1>3, SAddHashFound, WriteFileFound
<1>4. CASE /\ \A c \in Scanners : ~ WriteFile(c) /\ ~ SAddHash(c)
           /\ \A d \in Deleters : ~ RunHash(d)
  <2>1. UNCHANGED hashes /\ FilingGoesOn /\ \A f \in FileIds : FileKept(f)
    BY <1>4, OtherStepsFound
  <2>2. ASSUME NEW f \in FileIds, FileExists(f)'
        PROVE  f \in hashes'[files'[f].hash] \/ Deleting(f)' \/ BeingFiled(f)'
    <3>1. FileExists(f) /\ FileKept(f)
      BY <2>1, <2>2 DEF FileKept
    <3>2. f \in hashes[files[f].hash] \/ Deleting(f) \/ BeingFiled(f)
      BY <3>1 DEF FoundOrDeleted
    <3>3. QED
      BY <1>1, <2>1, <2>2, <3>1, <3>2, FoundFrame DEF FilingGoesOn
  <2>3. QED
    BY <2>2 DEF FoundOrDeleted
<1>5. QED
  BY <1>2, <1>3, <1>4

(* A file is in the index of its hash from the SADD of its scan until the   *)
(* deletion of its own set: no deletion of another set takes it out, for    *)
(* any number of scans, deletions and files with the same contents.         *)
THEOREM FoundTheorem == Spec => []FilesFoundByHash
<1>1. Init => FoundOrDeleted
  BY DEF Init, StoreInit, FoundOrDeleted, FileExists, NoFile
<1>2. IInv /\ FoundOrDeleted /\ [Next]_vars => FoundOrDeleted'
  BY FoundStep
<1>3. FoundOrDeleted => FilesFoundByHash
  BY DEF FoundOrDeleted, Deleting, BeingFiled, FilesFoundByHash, Condemned
<1>4. QED
  BY Invariance, <1>1, <1>2, <1>3, PTL DEF Spec

-----------------------------------------------------------------------------
(* A scan that ended left a complete set.                                   *)

\* No deletion has come to the loop that removes records.
Untouched == \A d \in Deleters : dele[d].cur = NoRange

\* Whoever removes records has a set to remove.
DeletionsUnderWay ==
  \A d \in Deleters :
    pc[d] \in {"get_hashes", "run_hashes", "del_levels"} \/ dele[d].dels # <<>>
      => dele[d].cur # NoRange

\* Sets that do not exist yet have no levels.
LevelsCounted == \A g \in SetIds : g > indices.set => levels[g] = {}

\* How many files of scan c are in the levels of its set.
Levelled(c) == IF pc[c] \in {"sadd_hash", "zadd_level"}
                 THEN scan[c].written - 1 ELSE scan[c].written

\* What scan c has written so far is all there.
ScanSoFar(c) ==
  /\ Allocated(c) /\ pc[c] # "hmset_set" =>
       sets[scan[c].group] = [base |-> scan[c].base, count |-> DataSize(c)]
  /\ Named(c) => levels[scan[c].group] = IdRange(scan[c].base, Levelled(c))
  /\ \A f \in FileIds : Wrote(c, f) =>
       LET h == scan[c].disc[f - scan[c].base + 1] IN
       /\ files[f].group = scan[c].group /\ files[f].hash = h
       /\ f \in hashes[h] \/ (pc[c] = "sadd_hash" /\ f = LastWritten(c))
  /\ pc[c] = "done" /\ Named(c) => Allocated(c) /\ scan[c].written = DataSize(c)

ScansSoFar == Untouched => \A c \in Scanners : ScanSoFar(c)

CompleteInv == DeletionsUnderWay /\ LevelsCounted /\ ScansSoFar

\* A deletion that has a set to remove never goes back.
LEMMA DeletionsStep ==
  ASSUME IInv, DeletionsUnderWay, [Next]_vars
  PROVE  DeletionsUnderWay' /\ (Untouched' => Untouched)
<1> DEFINE Removing == {"get_hashes", "run_hashes", "del_levels"}
           GoesOn(d) == \/ dele'[d].cur # NoRange
                        \/ /\ pc'[d] \in Removing => pc'[d] = pc[d]
                           /\ dele'[d].dels = dele[d].dels
                           /\ dele'[d].cur = dele[d].cur
<1> USE DEF store, vars, At, Goto
<1>0. /\ pc \in [Clients -> Labels]
      /\ dele \in [Deleters -> DeleLocals]
      /\ \A d \in Deleters : d \in Clients /\ d \notin Scanners /\ d \notin Taggers
  BY DEF IInv, TypeOK, Clients, Editors
<1>1. SUFFICES \A d \in Deleters : GoesOn(d)
  BY <1>1 DEF DeletionsUnderWay, Untouched
<1>2. CASE UNCHANGED <<pc, dele>>
  BY <1>2
<1>3. ASSUME NEW c \in Scanners \cup Taggers, NEW l, pc' = [pc EXCEPT ![c] = l],
             UNCHANGED dele
      PROVE  \A d \in Deleters : GoesOn(d)
  BY <1>0, <1>3
<1>4. ASSUME NEW c \in Scanners, ScanStep(c)
      PROVE  \A d \in Deleters : GoesOn(d)
  <2>1. (\E l : pc' = [pc EXCEPT ![c] = l]) /\ UNCHANGED dele
    BY <1>4 DEF ScanStep, ConnectStep, Connect, LoadScripts, LoadScript,
      SRandMember, HScanFile, HScanSet, IncrSet, IncrFiles, HMSetSet,
      WriteFile, SAddHash, ZAddLevel
  <2>2. QED
    BY <1>3, <2>1
<1>5. ASSUME NEW c \in Taggers, TagStep(c)
      PROVE  \A d \in Deleters : GoesOn(d)
  <2>1. ((\E l : pc' = [pc EXCEPT ![c] = l]) /\ UNCHANGED dele) \/ UNCHANGED <<pc, dele>>
    BY <1>5 DEF TagStep, ConnectStep, Connect, LoadScripts, LoadScript,
      StartTag, GetTags, RunTagScript, EndTag
  <2>2. QED
    BY <1>2, <1>3, <2>1
<1>6. ASSUME NEW c \in Deleters, UNCHANGED dele,
             \E l \in Labels \ Removing : pc' = [pc EXCEPT ![c] = l]
      PROVE  \A d \in Deleters : GoesOn(d)
  BY <1>0, <1>6
<1>7. ASSUME NEW c \in Deleters, ConnectStep(c) \/ GetTags(c) \/ EndDelete(c)
      PROVE  \A d \in Deleters : GoesOn(d)
  <2>1. /\ UNCHANGED dele
        /\ \E l \in Labels \ Removing : pc' = [pc EXCEPT ![c] = l]
    BY <1>0, <1>7 DEF ConnectStep, Connect, LoadScripts, LoadScript, GetTags, EndDelete,
      Labels
  <2>2. QED
    BY <1>6, <2>1
<1>8. ASSUME NEW c \in Deleters, RunTagScript(c)
      PROVE  \A d \in Deleters : GoesOn(d)
  BY <1>2, <1>8 DEF RunTagScript
<1>9. ASSUME NEW c \in Deleters, NEW e,
             dele' = [dele EXCEPT ![c] = e],
             e.cur = dele[c].cur, e.dels = dele[c].dels,
             UNCHANGED pc \/ \E l \in Labels \ Removing : pc' = [pc EXCEPT ![c] = l]
      PROVE  \A d \in Deleters : GoesOn(d)
  BY <1>0, <1>9
<1>10. ASSUME NEW c \in Deleters,
              StartDelete(c) \/ ConfirmRead(c) \/ Refuse(c) \/ Confirm(c)
       PROVE  \A d \in Deleters : GoesOn(d)
  <2>1. /\ \/ \E a : dele' = [dele EXCEPT ![c].ask = a]
           \/ \E a, r : dele' = [dele EXCEPT ![c].ask = a, ![c].ranges = r]
           \/ \E r : dele' = [dele EXCEPT ![c].ranges = r]
           \/ \E r : dele' = [dele EXCEPT ![c].left = r]
        /\ UNCHANGED pc \/ \E l \in {"confirm", "done", "get_tags"} :
                             pc' = [pc EXCEPT ![c] = l]
    BY <1>10 DEF StartDelete, ConfirmRead, Refuse, Confirm, StartUntag
  <2>2. dele[c] \in DeleLocals
    BY <1>0
  <2>3. \A d \in Deleters \ {c} : dele'[d] = dele[d]
    BY <1>0, <2>1
  <2>4. dele'[c].cur = dele[c].cur /\ dele'[c].dels = dele[c].dels
    <3>1. ASSUME NEW a, NEW r,
                 \/ dele' = [dele EXCEPT ![c].ask = a]
                 \/ dele' = [dele EXCEPT ![c].ranges = r]
                 \/ dele' = [dele EXCEPT ![c].left = r]
          PROVE  dele'[c].cur = dele[c].cur /\ dele'[c].dels = dele[c].dels
      BY <1>0, <2>2, <3>1 DEF DeleLocals
    <3>2. ASSUME NEW a, NEW r, dele' = [dele EXCEPT ![c].ask = a, ![c].ranges = r]
          PROVE  dele'[c].cur = dele[c].cur /\ dele'[c].dels = dele[c].dels
      BY <1>0, <2>2, <3>2 DEF DeleLocals
    <3>3. QED
      BY <2>1, <3>1, <3>2
  <2>5. pc'[c] \notin Removing /\ \A d \in Deleters \ {c} : pc'[d] = pc[d]
    BY <1>0, <1>10, <2>1 DEF StartDelete, ConfirmRead, Refuse, Confirm
  <2>6. QED
    BY <2>3, <2>4, <2>5
<1>11. ASSUME NEW c \in Deleters, NextUntag(c)
       PROVE  \A d \in Deleters : GoesOn(d)
  <2>1. /\ UNCHANGED dele \/ \E r : dele' = [dele EXCEPT ![c].left = r]
        /\ \E l \in {"failed", "get_tags", "del_files"} : pc' = [pc EXCEPT ![c] = l]
    BY <1>11 DEF NextUntag, StartUntag
  <2>2. CASE UNCHANGED dele
    BY <1>6, <2>1, <2>2 DEF Labels
  <2>3. CASE \E r : dele' = [dele EXCEPT ![c].left = r]
    <3>1. PICK e : /\ dele' = [dele EXCEPT ![c] = e]
                   /\ e.cur = dele[c].cur /\ e.dels = dele[c].dels
      BY <1>0, <2>3 DEF DeleLocals
    <3>2. QED
      BY <1>9, <2>1, <3>1 DEF Labels
  <2>4. QED
    BY <2>1, <2>2, <2>3
<1>12. ASSUME NEW c \in Deleters, dele'[c].cur # NoRange,
              \A d \in Deleters \ {c} : pc'[d] = pc[d] /\ dele'[d] = dele[d]
       PROVE  \A d \in Deleters : GoesOn(d)
  BY <1>12
<1>13. ASSUME NEW c \in Deleters, NextSet(c)
       PROVE  \A d \in Deleters : GoesOn(d)
  <2>1. /\ \E s : \E r \in dele[c].left : dele' = [dele EXCEPT ![c].left = s, ![c].cur = r]
        /\ pc' = [pc EXCEPT ![c] = "get_hashes"]
    BY <1>13 DEF NextSet
  <2>2. dele'[c].cur \in IDRange
    BY <1>0, <2>1 DEF DeleLocals
  <2>3. dele'[c].cur # NoRange
    BY <2>2 DEF IDRange, NoRange, SetIds, InvalidGroupID
  <2>4. QED
    BY <1>0, <1>12, <2>1, <2>3
<1>14. ASSUME NEW c \in Deleters, GetHash(c) \/ RunHash(c)
       PROVE  \A d \in Deleters : GoesOn(d)
  <2>1. /\ \E s : dele' = [dele EXCEPT ![c].calls = s]
        /\ UNCHANGED pc \/ \E l : pc' = [pc EXCEPT ![c] = l]
        /\ pc[c] \in Removing
    BY <1>14 DEF GetHash, RunHash
  <2>2. dele'[c].cur # NoRange
    BY <1>0, <2>1 DEF DeleLocals, DeletionsUnderWay
  <2>3. QED
    BY <1>0, <1>12, <2>1, <2>2
<1>15. ASSUME NEW c \in Deleters, DelSet(c)
       PROVE  \A d \in Deleters : GoesOn(d)
  <2>1. UNCHANGED dele /\ pc' = [pc EXCEPT ![c] = "del_levels"] /\ pc[c] \in Removing
    BY <1>15 DEF DelSet
  <2>2. QED
    BY <1>0, <1>12, <2>1 DEF DeletionsUnderWay
<1>16. ASSUME NEW c \in Deleters, DelLevels(c) \/ DelFiles(c)
       PROVE  \A d \in Deleters : GoesOn(d)
  <2>1. /\ \E s : dele' = [dele EXCEPT ![c].dels = s]
        /\ UNCHANGED pc \/ \E l : pc' = [pc EXCEPT ![c] = l]
        /\ pc[c] \in Removing \/ dele[c].dels # <<>>
    BY <1>16 DEF DelLevels, DelFiles
  <2>2. dele'[c].cur # NoRange
    BY <1>0, <2>1 DEF DeleLocals, DeletionsUnderWay
  <2>3. QED
    BY <1>0, <1>12, <2>1, <2>2
<1>17. CASE Terminated \/ UNCHANGED vars
  BY <1>2, <1>17 DEF Terminated
<1>18. QED
  BY <1>4, <1>5, <1>7, <1>8, <1>10, <1>11, <1>13, <1>14, <1>15, <1>16, <1>17
  DEF Next, DeleteStep

\* Levels of a set that is there are those its scan counted, from step to step.
LEMMA LevelsStep ==
  ASSUME IInv, LevelsCounted, [Next]_vars
  PROVE  LevelsCounted'
<1> USE DEF store, vars, LevelsCounted
<1>0. /\ levels \in [SetIds -> SUBSET FileIds]
      /\ indices \in [set : 0 .. MaxSets, files : 0 .. MaxFiles]
  BY DEF IInv, TypeOK, StoreTypeOK
<1>1. CASE UNCHANGED <<indices, levels>>
  BY <1>1
<1>2. ASSUME NEW c \in Scanners, IncrSet(c) \/ IncrFiles(c)
      PROVE  LevelsCounted'
  <2>1. UNCHANGED levels /\ (indices'.set = indices.set \/ indices'.set = indices.set + 1)
    BY <1>0, <1>2 DEF IncrSet, IncrFiles
  <2>2. indices.set \in Int
    BY <1>0
  <2>3. QED
    BY <2>1, <2>2 DEF SetIds
<1>3. ASSUME NEW c \in Scanners, ZAddLevel(c)
      PROVE  LevelsCounted'
  <2>1. /\ UNCHANGED indices
        /\ \E ids : levels' = [levels EXCEPT ![scan[c].group] = ids]
    BY <1>3 DEF ZAddLevel
  <2>2. scan[c].group <= indices.set /\ scan[c].group \in Nat /\ indices.set \in Nat
    BY <1>0, ScanNats DEF IInv, IdsCounted
  <2>3. QED
    BY <1>0, <2>1, <2>2 DEF SetIds
<1>4. ASSUME NEW c \in Deleters, DelLevels(c)
      PROVE  LevelsCounted'
  BY <1>0, <1>4 DEF DelLevels
<1>5. ASSUME NEW c \in Scanners, ScanStep(c), ~ IncrSet(c), ~ IncrFiles(c), ~ ZAddLevel(c)
      PROVE  UNCHANGED <<indices, levels>>
  BY <1>5 DEF ScanStep, ConnectStep, Connect, LoadScripts, LoadScript,
    SRandMember, HScanFile, HScanSet, HMSetSet, WriteFile, SAddHash
<1>6. ASSUME NEW c \in Taggers, TagStep(c)
      PROVE  UNCHANGED <<indices, levels>>
  BY <1>6 DEF TagStep, ConnectStep, Connect, LoadScripts, LoadScript,
    StartTag, GetTags, RunTagScript, EndTag
<1>7. ASSUME NEW c \in Deleters, DeleteStep(c), ~ DelLevels(c)
      PROVE  UNCHANGED <<indices, levels>>
  BY <1>7 DEF DeleteStep, ConnectStep, Connect, LoadScripts, LoadScript,
    GetTags, RunTagScript, StartDelete, ConfirmRead, Refuse, Confirm, NextUntag,
    NextSet, GetHash, RunHash, DelSet, DelFiles, EndDelete
<1>8. CASE Terminated \/ UNCHANGED vars
  BY <1>1, <1>8 DEF Terminated
<1>9. QED
  BY <1>1, <1>2, <1>3, <1>4, <1>5, <1>6, <1>7, <1>8 DEF Next

\* Steps of others that leave the set and the files of scan s alone.
LEMMA SoFarFrame ==
  ASSUME IInv, NEW s \in Scanners, ScanSoFar(s),
         scan'[s] = scan[s], pc'[s] = pc[s],
         Allocated(s) => sets'[scan[s].group] = sets[scan[s].group],
         Named(s) => levels'[scan[s].group] = levels[scan[s].group],
         \A f \in FileIds : Wrote(s, f) =>
           files'[f].group = files[f].group /\ files'[f].hash = files[f].hash,
         \A h \in Hashes : hashes[h] \subseteq hashes'[h]
  PROVE  ScanSoFar(s)'
<1>1. \A f : Wrote(s, f)' <=> Wrote(s, f)
  BY DEF Wrote, Allocated
<1>2. (Allocated(s)' <=> Allocated(s)) /\ (Named(s)' <=> Named(s))
        /\ DataSize(s)' = DataSize(s) /\ Levelled(s)' = Levelled(s)
        /\ LastWritten(s)' = LastWritten(s)
  BY DEF Allocated, Named, DataSize, Levelled, LastWritten
<1>3. ASSUME NEW f \in FileIds, Wrote(s, f)
      PROVE  LET h == scan[s].disc[f - scan[s].base + 1] IN
             /\ files'[f].group = scan[s].group /\ files'[f].hash = h
             /\ f \in hashes'[h] \/ (pc[s] = "sadd_hash" /\ f = LastWritten(s))
  BY <1>3, WrittenHash DEF ScanSoFar
<1>4. QED
  BY <1>1, <1>2, <1>3 DEF ScanSoFar

\* A scan that has no ids has nothing to leave behind.
LEMMA SoFarUnnamed ==
  ASSUME NEW s \in Scanners, ~ Named(s), ~ Allocated(s)
  PROVE  ScanSoFar(s)
BY DEF ScanSoFar, Wrote

\* The ids of sets are in order, and so is the type of what scans move.
LEMMA ScanTypes ==
  ASSUME IInv, NEW c \in Scanners
  PROVE  /\ c \in Clients /\ pc \in [Clients -> Labels]
         /\ scan \in [Scanners -> ScanLocals] /\ scan[c] \in ScanLocals
         /\ sets \in [SetIds -> [base : 0 .. MaxFiles, count : 0 .. MaxFiles]]
         /\ levels \in [SetIds -> SUBSET FileIds]
         /\ hashes \in [Hashes -> SUBSET FileIds]
         /\ files \in [FileIds -> [group : 0 .. MaxSets, hash : Hashes \cup {NoHash},
                                   tags : SUBSET Tags]]
         /\ indices \in [set : 0 .. MaxSets, files : 0 .. MaxFiles]
         /\ Named(c) => scan[c].group \in SetIds
<1>1. scan \in [Scanners -> ScanLocals]
  BY DEF IInv, TypeOK
<1>2. Named(c) => scan[c].group \in SetIds
  BY <1>1 DEF Named, ScanLocals, SetIds, InvalidGroupID
<1>3. QED
  BY <1>1, <1>2 DEF IInv, TypeOK, StoreTypeOK, Clients

LEMMA SoFarIncrSet ==
  ASSUME IInv, LevelsCounted, \A s \in Scanners : ScanSoFar(s),
         NEW c \in Scanners, IncrSet(c)
  PROVE  \A s \in Scanners : ScanSoFar(s)'
<1>1. /\ pc[c] = "incr_set" /\ indices.set < MaxSets
      /\ scan' = [scan EXCEPT ![c].group = indices.set + 1]
      /\ pc' = [pc EXCEPT ![c] = "incr_files"]
      /\ UNCHANGED <<sets, files, hashes, levels>>
  BY DEF IncrSet, At, Goto
<1>2. ~ Allocated(c) /\ scan[c].written = 0 /\ scan[c].base = 0
  BY <1>1 DEF IInv, ScanProgress, BeforeIncrSet, Allocated
<1>3. indices.set + 1 \in SetIds /\ levels[indices.set + 1] = {}
  <2>1. indices.set \in 0 .. MaxSets
    BY ScanTypes
  <2>2. indices.set + 1 \in 1 .. MaxSets /\ indices.set + 1 > indices.set
    BY <1>1, <2>1
  <2>3. QED
    BY <2>2 DEF LevelsCounted, SetIds
<1>4. ScanSoFar(c)'
  <2>1. /\ scan'[c].base = 0 /\ scan'[c].written = 0
        /\ scan'[c].group = indices.set + 1 /\ pc'[c] = "incr_files"
    BY <1>1, <1>2, ScanTypes DEF ScanLocals
  <2>2. ~ Allocated(c)' /\ Levelled(c)' = 0
    BY <2>1 DEF Allocated, Levelled
  <2>3. IdRange(0, 0) = {}
    BY DEF IdRange
  <2>4. QED
    BY <1>1, <1>3, <2>1, <2>2, <2>3 DEF ScanSoFar, Wrote
<1>5. ASSUME NEW s \in Scanners \ {c}
      PROVE  ScanSoFar(s)'
  <2>1. scan'[s] = scan[s] /\ pc'[s] = pc[s]
    BY <1>1, ScanTypes
  <2>2. QED
    BY <1>1, <2>1, SoFarFrame
<1>6. QED
  BY <1>4, <1>5

LEMMA SoFarIncrFiles ==
  ASSUME IInv, \A s \in Scanners : ScanSoFar(s), NEW c \in Scanners, IncrFiles(c)
  PROVE  \A s \in Scanners : ScanSoFar(s)'
<1>1. /\ pc[c] = "incr_files"
      /\ \E b : scan' = [scan EXCEPT ![c].base = b]
      /\ pc' = [pc EXCEPT ![c] = "hmset_set"]
      /\ UNCHANGED <<sets, files, hashes, levels>>
  BY DEF IncrFiles, At, Goto
<1>2. /\ Named(c) /\ scan[c].base = 0 /\ scan[c].written = 0
      /\ pc[c] \notin {"sadd_hash", "zadd_level"}
  BY <1>1 DEF IInv, ScanProgress, Allocated
<1>3. levels[scan[c].group] = {}
  <2>1. Levelled(c) = 0 /\ IdRange(0, 0) = {}
    BY <1>2 DEF Levelled, IdRange
  <2>2. QED
    BY <1>2, <2>1 DEF ScanSoFar
<1>4. /\ scan'[c].written = 0 /\ scan'[c].group = scan[c].group
      /\ pc'[c] = "hmset_set" /\ scan'[c].base \in Nat
  <2>1. scan'[c].base \in Nat
    BY IncrFilesOK, ScanNats DEF IInv, TypeOK, ScanLocals
  <2>2. QED
    BY <1>1, <1>2, <2>1, ScanTypes DEF ScanLocals
<1>5. ScanSoFar(c)'
  <2>1. Levelled(c)' = 0 /\ IdRange(scan'[c].base, 0) = {}
    BY <1>4 DEF Levelled, IdRange
  <2>2. \A f : ~ Wrote(c, f)'
    BY <1>4, <2>1 DEF Wrote
  <2>3. QED
    BY <1>1, <1>3, <1>4, <2>1, <2>2 DEF ScanSoFar
<1>6. ASSUME NEW s \in Scanners \ {c}
      PROVE  ScanSoFar(s)'
  <2>1. scan'[s] = scan[s] /\ pc'[s] = pc[s]
    BY <1>1, ScanTypes
  <2>2. QED
    BY <1>1, <2>1, SoFarFrame
<1>7. QED
  BY <1>5, <1>6

LEMMA SoFarHMSetSet ==
  ASSUME IInv, \A s \in Scanners : ScanSoFar(s), NEW c \in Scanners, HMSetSet(c)
  PROVE  \A s \in Scanners : ScanSoFar(s)'
<1>1. /\ pc[c] = "hmset_set"
      /\ sets' = [sets EXCEPT ![scan[c].group] =
                     [base |-> scan[c].base, count |-> DataSize(c)]]
      /\ pc' = [pc EXCEPT ![c] = "hmset_file"]
      /\ UNCHANGED <<scan, files, hashes, levels>>
  BY DEF HMSetSet, At, Goto
<1>2. /\ Allocated(c) /\ Named(c) /\ scan[c].group \in SetIds
      /\ scan[c].written = 0 /\ scan[c].base \in Nat
  BY <1>1, ScanTypes, ScanNats DEF IInv, ScanProgress
<1>3. ScanSoFar(c)'
  <2>1. /\ sets'[scan[c].group] = [base |-> scan[c].base, count |-> DataSize(c)]
        /\ pc'[c] = "hmset_file"
    BY <1>1, <1>2, ScanTypes
  <2>2. \A f : ~ Wrote(c, f)'
    BY <1>1, <1>2 DEF Wrote, IdRange
  <2>3. Levelled(c)' = Levelled(c) /\ DataSize(c)' = DataSize(c)
    BY <1>1, <2>1 DEF Levelled, DataSize
  <2>4. QED
    BY <1>1, <1>2, <2>1, <2>2, <2>3 DEF ScanSoFar, Named, Allocated
<1>4. ASSUME NEW s \in Scanners \ {c}
      PROVE  ScanSoFar(s)'
  <2>1. pc'[s] = pc[s]
    BY <1>1, ScanTypes
  <2>2. Allocated(s) => sets'[scan[s].group] = sets[scan[s].group]
    <3>1. Allocated(s) => scan[s].group \in SetIds /\ scan[s].group # scan[c].group
      BY <1>2, ScanTypes DEF IInv, ScanProgress, IdsDistinct
    <3>2. QED
      BY <1>1, <3>1, ScanTypes
  <2>3. QED
    BY <1>1, <2>1, <2>2, SoFarFrame
<1>5. QED
  BY <1>3, <1>4

LEMMA SoFarWriteFile ==
  ASSUME IInv, \A s \in Scanners : ScanSoFar(s), NEW c \in Scanners, WriteFile(c)
  PROVE  \A s \in Scanners : ScanSoFar(s)'
<1>0. PICK f : f = scan[c].base + scan[c].written
  OBVIOUS
<1> DEFINE h == scan[c].disc[scan[c].written + 1]
<1>1. /\ pc[c] = "hmset_file"
      /\ HMSetFile(f, scan[c].group, h)
      /\ scan' = [scan EXCEPT ![c].written = scan[c].written + 1]
      /\ pc' = [pc EXCEPT ![c] = "sadd_hash"]
      /\ UNCHANGED <<sets, hashes, levels>>
  BY <1>0 DEF WriteFile, At, Goto
<1>2. /\ Allocated(c) /\ Named(c)
      /\ scan[c].base \in Nat /\ scan[c].written \in Nat
  BY <1>1, ScanNats DEF IInv, ScanProgress
<1>3. f \in FileIds /\ \A s \in Scanners : ~ Wrote(s, f)
  BY <1>0, <1>1, NextFileFresh
<1>4. \A k \in FileIds \ {f} : files'[k] = files[k]
  BY <1>1, ScanTypes DEF HMSetFile
<1>5. files'[f].group = scan[c].group /\ files'[f].hash = h
  BY <1>1, <1>3, ScanTypes DEF HMSetFile
<1>6. /\ scan'[c].base = scan[c].base /\ scan'[c].group = scan[c].group
      /\ scan'[c].disc = scan[c].disc /\ scan'[c].written = scan[c].written + 1
      /\ pc'[c] = "sadd_hash"
  BY <1>1, ScanTypes DEF ScanLocals
<1>7. ScanSoFar(c)'
  <2>1. Levelled(c)' = Levelled(c) /\ LastWritten(c)' = f /\ DataSize(c)' = DataSize(c)
    BY <1>0, <1>1, <1>2, <1>6 DEF Levelled, LastWritten, DataSize
  <2>2. \A k \in FileIds : Wrote(c, k)' => Wrote(c, k) \/ k = f
    BY <1>0, <1>2, <1>6 DEF Wrote, Allocated, IdRange, FileIds
  <2>3. f - scan[c].base + 1 = scan[c].written + 1
    BY <1>0, <1>2
  <2>4. ASSUME NEW k \in FileIds, Wrote(c, k)'
        PROVE  LET g == scan[c].disc[k - scan[c].base + 1] IN
               /\ files'[k].group = scan[c].group /\ files'[k].hash = g
               /\ k \in hashes'[g] \/ (pc'[c] = "sadd_hash" /\ k = f)
    <3>1. CASE k = f
      BY <1>5, <1>6, <2>3, <3>1
    <3>2. CASE k # f
      <4>1. Wrote(c, k) /\ files'[k] = files[k]
        BY <1>4, <2>2, <2>4, <3>2
      <4>2. pc[c] # "sadd_hash" /\ hashes' = hashes
        BY <1>1
      <4>3. QED
        BY <4>1, <4>2 DEF ScanSoFar
    <3>3. QED
      BY <3>1, <3>2
  <2>5. QED
    BY <1>1, <1>2, <1>6, <2>1, <2>4 DEF ScanSoFar, Allocated, Named
<1>8. ASSUME NEW s \in Scanners \ {c}
      PROVE  ScanSoFar(s)'
  <2>1. scan'[s] = scan[s] /\ pc'[s] = pc[s]
    BY <1>1, ScanTypes
  <2>2. \A k \in FileIds : Wrote(s, k) => files'[k] = files[k]
    BY <1>3, <1>4
  <2>3. QED
    BY <1>1, <2>1, <2>2, SoFarFrame
<1>9. QED
  BY <1>7, <1>8

LEMMA SoFarSAddHash ==
  ASSUME IInv, \A s \in Scanners : ScanSoFar(s), NEW c \in Scanners, SAddHash(c)
  PROVE  \A s \in Scanners : ScanSoFar(s)'
<1>0. PICK f : f = LastWritten(c)
  OBVIOUS
<1> DEFINE h == scan[c].disc[scan[c].written]
<1>1. /\ pc[c] = "sadd_hash"
      /\ hashes' = [hashes EXCEPT ![h] = @ \cup {f}]
      /\ pc' = [pc EXCEPT ![c] = "zadd_level"]
      /\ UNCHANGED <<scan, sets, files, levels>>
  BY <1>0 DEF SAddHash, At, Goto
<1>2. \A k \in Hashes : hashes[k] \subseteq hashes'[k]
  BY <1>1, ScanTypes
<1>3. /\ Allocated(c) /\ Named(c) /\ scan[c].written > 0
      /\ scan[c].base \in Nat /\ scan[c].written \in Nat
  BY <1>1, ScanNats DEF IInv, ScanProgress
<1>4. ScanSoFar(c)'
  <2>1. pc'[c] = "zadd_level"
    BY <1>1, ScanTypes
  <2>2. /\ Levelled(c)' = Levelled(c)
        /\ DataSize(c)' = DataSize(c)
        /\ \A k : Wrote(c, k)' <=> Wrote(c, k)
    BY <1>1, <2>1 DEF Levelled, DataSize, Wrote, Allocated
  <2>3. ASSUME NEW k \in FileIds, Wrote(c, k)
        PROVE  LET g == scan[c].disc[k - scan[c].base + 1] IN
               /\ files'[k].group = scan[c].group /\ files'[k].hash = g
               /\ k \in hashes'[g]
    <3>1. scan[c].disc[k - scan[c].base + 1] \in Hashes
      BY <2>3, WrittenHash
    <3>2. k = f => k - scan[c].base + 1 = scan[c].written
      BY <1>0, <1>3 DEF LastWritten
    <3>3. k = f => k \in hashes'[scan[c].disc[k - scan[c].base + 1]]
      BY <1>1, <3>1, <3>2, ScanTypes
    <3>4. k # f => k \in hashes[scan[c].disc[k - scan[c].base + 1]]
      BY <1>0, <2>3 DEF ScanSoFar
    <3>5. QED
      BY <1>1, <1>2, <2>3, <3>1, <3>3, <3>4 DEF ScanSoFar
  <2>4. QED
    BY <1>1, <2>1, <2>2, <2>3 DEF ScanSoFar, Named, Allocated
<1>5. ASSUME NEW s \in Scanners \ {c}
      PROVE  ScanSoFar(s)'
  <2>1. scan'[s] = scan[s] /\ pc'[s] = pc[s]
    BY <1>1, ScanTypes
  <2>2. QED
    BY <1>1, <1>2, <2>1, SoFarFrame
<1>6. QED
  BY <1>4, <1>5

LEMMA SoFarZAddLevel ==
  ASSUME IInv, \A s \in Scanners : ScanSoFar(s), NEW c \in Scanners, ZAddLevel(c)
  PROVE  \A s \in Scanners : ScanSoFar(s)'
<1> DEFINE g == scan[c].group
           end == IF scan[c].written = DataSize(c) THEN "done" ELSE "hmset_file"
<1>1. /\ pc[c] = "zadd_level"
      /\ levels' = [levels EXCEPT ![g] = @ \cup {LastWritten(c)}]
      /\ pc' = [pc EXCEPT ![c] = end]
      /\ UNCHANGED <<scan, sets, files, hashes>>
  BY DEF ZAddLevel, At, Goto
<1>2. /\ Allocated(c) /\ Named(c) /\ g \in SetIds /\ scan[c].written > 0
      /\ scan[c].base \in Nat /\ scan[c].written \in Nat
  BY <1>1, ScanTypes, ScanNats DEF IInv, ScanProgress
<1>3. ScanSoFar(c)'
  <2>1. pc'[c] = end /\ pc'[c] \notin {"sadd_hash", "zadd_level", "hmset_set"}
    BY <1>1, ScanTypes
  <2>2. levels[g] = IdRange(scan[c].base, scan[c].written - 1)
    BY <1>1, <1>2 DEF ScanSoFar, Levelled
  <2>3. IdRange(scan[c].base, scan[c].written)
          = IdRange(scan[c].base, scan[c].written - 1) \cup {LastWritten(c)}
    <3>1. ASSUME NEW b \in Nat, NEW n \in Nat, n > 0
          PROVE  b .. b + n - 1 = (b .. b + (n - 1) - 1) \cup {b + n - 1}
      BY <3>1
    <3>2. QED
      BY <1>2, <3>1 DEF IdRange, LastWritten
  <2>4. levels'[g] = IdRange(scan[c].base, Levelled(c)')
    BY <1>1, <1>2, <2>1, <2>2, <2>3, ScanTypes DEF Levelled
  <2>5. \A f \in FileIds : Wrote(c, f)' =>
          LET h == scan[c].disc[f - scan[c].base + 1] IN
          files'[f].group = g /\ files'[f].hash = h /\ f \in hashes'[h]
    BY <1>1 DEF ScanSoFar, Wrote, Allocated
  <2>6. QED
    BY <1>1, <1>2, <2>1, <2>4, <2>5 DEF ScanSoFar, Allocated, Named, DataSize
<1>4. ASSUME NEW s \in Scanners \ {c}
      PROVE  ScanSoFar(s)'
  <2>1. scan'[s] = scan[s] /\ pc'[s] = pc[s]
    BY <1>1, ScanTypes
  <2>2. Named(s) => levels'[scan[s].group] = levels[scan[s].group]
    <3>1. Named(s) => scan[s].group \in SetIds /\ scan[s].group # g
      BY <1>2, ScanTypes DEF IInv, IdsDistinct
    <3>2. QED
      BY <1>1, <3>1, ScanTypes
  <2>3. QED
    BY <1>1, <2>1, <2>2, SoFarFrame
<1>5. QED
  BY <1>3, <1>4

\* Connecting and looking the root up, a scan has no ids yet.
LEMMA SoFarSearch ==
  ASSUME IInv, \A s \in Scanners : ScanSoFar(s), NEW c \in Scanners,
         ConnectStep(c) \/ SRandMember(c) \/ HScanFile(c) \/ HScanSet(c)
  PROVE  \A s \in Scanners : ScanSoFar(s)'
<1>1. /\ pc[c] \in BeforeIncrSet
      /\ \/ UNCHANGED scan
         \/ \E f : scan' = [scan EXCEPT ![c].hit = f]
         \/ \E o : scan' = [scan EXCEPT ![c].owner = o]
      /\ \E l : pc' = [pc EXCEPT ![c] = l]
      /\ UNCHANGED <<sets, files, hashes, levels>>
  BY DEF ConnectStep, Connect, LoadScripts, LoadScript, SRandMember, HScanFile,
    HScanSet, At, Goto, BeforeIncrSet, store
<1>2. ~ Named(c) /\ ~ Allocated(c)
  BY <1>1 DEF IInv, ScanProgress
<1>3. scan'[c].group = scan[c].group /\ scan'[c].base = scan[c].base
  <2>1. ASSUME NEW f, scan' = [scan EXCEPT ![c].hit = f]
        PROVE  scan'[c].group = scan[c].group /\ scan'[c].base = scan[c].base
    BY <2>1, ScanTypes DEF ScanLocals
  <2>2. ASSUME NEW o, scan' = [scan EXCEPT ![c].owner = o]
        PROVE  scan'[c].group = scan[c].group /\ scan'[c].base = scan[c].base
    BY <2>2, ScanTypes DEF ScanLocals
  <2>3. QED
    BY <1>1, <2>1, <2>2
<1>4. ScanSoFar(c)'
  BY <1>2, <1>3 DEF ScanSoFar, Wrote, Named, Allocated
<1>5. ASSUME NEW s \in Scanners \ {c}
      PROVE  ScanSoFar(s)'
  <2>1. scan'[s] = scan[s] /\ pc'[s] = pc[s]
    BY <1>1, ScanTypes
  <2>2. QED
    BY <1>1, <2>1, SoFarFrame
<1>6. QED
  BY <1>4, <1>5

\* What edits do, and deletions before their second loop.
LEMMA SoFarEdits ==
  ASSUME IInv, DeletionsUnderWay, Untouched, \A s \in Scanners : ScanSoFar(s),
         NEW c \in Editors,
         \/ c \in Taggers /\ TagStep(c)
         \/ c \in Deleters /\ DeleteStep(c)
  PROVE  \A s \in Scanners : ScanSoFar(s)'
<1> USE DEF store, At, Goto
<1>1. c \in Deleters => ~ RunHash(c) /\ ~ DelSet(c) /\ ~ DelLevels(c) /\ ~ DelFiles(c)
  BY DEF Untouched, DeletionsUnderWay, RunHash, DelSet, DelLevels, DelFiles
<1>2. /\ UNCHANGED <<scan, sets, hashes, levels>>
      /\ UNCHANGED pc \/ \E l : pc' = [pc EXCEPT ![c] = l]
      /\ UNCHANGED files \/ \E k, ts : files' = [files EXCEPT ![k].tags = ts]
  <2>1. CASE c \in Taggers /\ TagStep(c)
    BY <2>1 DEF TagStep, ConnectStep, Connect, LoadScripts, LoadScript,
      StartTag, GetTags, RunTagScript, EndTag, TagIfInSet, DeleTagIfInSet
  <2>2. CASE c \in Deleters /\ DeleteStep(c)
    BY <1>1, <2>2 DEF DeleteStep, ConnectStep, Connect, LoadScripts, LoadScript,
      GetTags, RunTagScript, StartDelete, ConfirmRead, Refuse, Confirm, StartUntag,
      NextUntag, NextSet, GetHash, EndDelete, TagIfInSet, DeleTagIfInSet
  <2>3. QED
    BY <2>1, <2>2
<1>3. \A s \in Scanners : pc'[s] = pc[s]
  BY <1>2 DEF IInv, TypeOK, Clients, Editors
<1>4. ASSUME NEW s \in Scanners
      PROVE  ScanSoFar(s)'
  <2>1. \A f \in FileIds : files'[f].group = files[f].group /\ files'[f].hash = files[f].hash
    <3>1. ASSUME NEW k, NEW ts, files' = [files EXCEPT ![k].tags = ts]
          PROVE  \A f \in FileIds : /\ files'[f].group = files[f].group
                                    /\ files'[f].hash = files[f].hash
      BY <3>1, ScanTypes
    <3>2. QED
      BY <1>2, <3>1
  <2>2. QED
    BY <1>2, <1>3, <2>1, SoFarFrame
<1>5. QED
  BY <1>4

LEMMA CompleteStep ==
  ASSUME IInv, CompleteInv, [Next]_vars
  PROVE  CompleteInv'
<1>1. DeletionsUnderWay' /\ (Untouched' => Untouched) /\ LevelsCounted'
  BY DeletionsStep, LevelsStep DEF CompleteInv
<1>2. ASSUME Untouched'
      PROVE  \A s \in Scanners : ScanSoFar(s)'
  <2>1. /\ Untouched /\ DeletionsUnderWay /\ LevelsCounted
        /\ \A s \in Scanners : ScanSoFar(s)
    BY <1>1, <1>2 DEF CompleteInv, ScansSoFar
  <2>2. ASSUME NEW c \in Scanners, ScanStep(c)
        PROVE  \A s \in Scanners : ScanSoFar(s)'
    BY <2>1, <2>2, SoFarSearch, SoFarIncrSet, SoFarIncrFiles, SoFarHMSetSet,
      SoFarWriteFile, SoFarSAddHash, SoFarZAddLevel DEF ScanStep
  <2>3. ASSUME NEW c \in Taggers, TagStep(c)
        PROVE  \A s \in Scanners : ScanSoFar(s)'
    BY <2>1, <2>3, SoFarEdits DEF Editors
  <2>4. ASSUME NEW c \in Deleters, DeleteStep(c)
        PROVE  \A s \in Scanners : ScanSoFar(s)'
    BY <2>1, <2>4, SoFarEdits DEF Editors
  <2>5. CASE Terminated \/ UNCHANGED vars
    BY <2>1, <2>5, SoFarFrame DEF Terminated, vars, store
  <2>6. QED
    BY <2>2, <2>3, <2>4, <2>5 DEF Next
<1>3. QED
  BY <1>1, <1>2 DEF CompleteInv, ScansSoFar

(* A scan that wrote and ended leaves its record, every file under its own  *)
(* hash, and the levels: for any number of scans whose HINCRBYs and batches *)
(* interleave, while tags are edited, until some deletion begins.           *)
THEOREM CompleteTheorem == Spec => []ScanComplete
<1>1. Init => CompleteInv
  <2>1. ASSUME Init
        PROVE  DeletionsUnderWay /\ LevelsCounted
    BY <2>1 DEF Init, StoreInit, DeletionsUnderWay, LevelsCounted, Clients, Editors
  <2>2. ASSUME Init, NEW s \in Scanners
        PROVE  ScanSoFar(s)
    BY <2>2, SoFarUnnamed DEF Init, Named, Allocated
  <2>3. QED
    BY <2>1, <2>2 DEF CompleteInv, ScansSoFar
<1>2. IInv /\ CompleteInv /\ [Next]_vars => CompleteInv'
  BY CompleteStep
<1>3. IInv /\ CompleteInv => ScanComplete
  <2> SUFFICES ASSUME IInv, CompleteInv, NEW c \in Scanners,
                      pc[c] = "done", scan[c].group # InvalidGroupID,
                      \A d \in Deleters : dele[d].cur = NoRange
               PROVE  LET g == scan[c].group IN
                      /\ sets[g] = [base |-> scan[c].base, count |-> DataSize(c)]
                      /\ levels[g] = ScanRange(c)
                      /\ \A f \in ScanRange(c) :
                           LET h == scan[c].disc[f - scan[c].base + 1] IN
                           files[f].group = g /\ files[f].hash = h /\ f \in hashes[h]
    BY DEF ScanComplete
  <2>1. ScanSoFar(c) /\ Named(c)
    BY DEF CompleteInv, ScansSoFar, Untouched, Named
  <2>2. Allocated(c) /\ scan[c].written = DataSize(c) /\ Levelled(c) = DataSize(c)
    BY <2>1 DEF ScanSoFar, Levelled
  <2>3. \A f \in ScanRange(c) : f \in FileIds /\ Wrote(c, f)
    <3>1. /\ scan[c].base \in Nat /\ scan[c].base # 0 /\ DataSize(c) \in Nat
          /\ scan[c].base + DataSize(c) - 1 <= indices.files
          /\ indices.files \in Nat /\ indices.files <= MaxFiles
      BY <2>2, ScanNats, DiscFacts DEF IInv, IdsCounted, Allocated, TypeOK, StoreTypeOK
    <3>2. \A f \in ScanRange(c) : f \in FileIds
      BY <3>1 DEF ScanRange, IdRange, FileIds
    <3>3. QED
      BY <2>2, <3>2 DEF ScanRange, Wrote
  <2>4. QED
    BY <2>1, <2>2, <2>3 DEF ScanSoFar, ScanRange
<1>4. QED
  BY Invariance, <1>1, <1>2, <1>3, PTL DEF Spec

-----------------------------------------------------------------------------
(* The keys a deletion removes.                                             *)

\* Where the whole chunks end.
ChunksEnd(from, count) == from + (count \div Chunk) * Chunk

\* What DELs name, all together; those of chunked_run.
KeysOf(dels) == UNION {dels[i] : i \in DOMAIN dels}
Deleted(from, count) == KeysOf(ChunkedRun(from, count))

\* How many chunks there are.
LEMMA ChunkFacts ==
  ASSUME NEW n \in Nat
  PROVE  /\ n \div Chunk \in Nat /\ (n \div Chunk) * Chunk \in Nat
         /\ (n \div Chunk) * Chunk <= n /\ n < (n \div Chunk) * Chunk + Chunk
<1>1. n \div Chunk \in Nat /\ n % Chunk \in 0 .. Chunk - 1 /\ n = (Chunk * (n \div Chunk)) + (n % Chunk)
  OBVIOUS
<1>2. \A q \in Nat : Chunk * q = q * Chunk /\ q * Chunk \in Nat
  OBVIOUS
<1> DEFINE q == n \div Chunk
           p == q * Chunk
<1>3. p \in Nat /\ n = p + (n % Chunk) /\ n % Chunk \in 0 .. Chunk - 1 /\ q \in Nat
  BY <1>1, <1>2
<1> HIDE DEF p
<1>4. p <= n /\ n < p + Chunk
  BY <1>3
<1> QED BY <1>3, <1>4 DEF p

\* Chunks of one length fill a range without a gap.
LEMMA ChunksFill ==
  ASSUME NEW from \in Nat, NEW k \in Nat, NEW x \in from .. from + k * Chunk - 1
  PROVE  \E i \in 1 .. k : x \in IdRange((i - 1) * Chunk + from, Chunk)
<1> DEFINE n == x - from
           q == n \div Chunk
<1>0. k * Chunk \in Nat
  OBVIOUS
<1>1. n \in Nat /\ x = from + n /\ n < k * Chunk
  BY <1>0
<1> HIDE DEF n
<1>2. q \in Nat /\ q * Chunk \in Nat /\ q * Chunk <= n /\ n < q * Chunk + Chunk
  BY <1>1, ChunkFacts
<1> HIDE DEF q
<1>3. q < k
  <2> SUFFICES ASSUME k <= q PROVE FALSE
    BY <1>2
  <2>1. \A a, b, c \in Nat : a <= b => a * c <= b * c
    OBVIOUS
  <2>2. k * Chunk <= q * Chunk
    BY <1>2, <2>1
  <2> QED BY <1>0, <1>1, <1>2, <2>2
<1>4. q + 1 \in 1 .. k /\ (q + 1) - 1 = q
  BY <1>2, <1>3
<1>5. x \in IdRange(q * Chunk + from, Chunk)
  BY <1>1, <1>2 DEF IdRange
<1> QED BY <1>4, <1>5

\* And nothing but it.
LEMMA ChunksWithin ==
  ASSUME NEW from \in Nat, NEW k \in Nat, NEW i \in 1 .. k
  PROVE  IdRange((i - 1) * Chunk + from, Chunk) \subseteq from .. from + k * Chunk - 1
<1>0. (i - 1) * Chunk \in Nat /\ k * Chunk \in Nat /\ i * Chunk \in Nat
  <2>1. \A a, c \in Nat : a * c \in Nat
    OBVIOUS
  <2>2. i - 1 \in Nat /\ i \in Nat
    OBVIOUS
  <2> QED BY <2>1, <2>2
<1>1. (i - 1) * Chunk + Chunk = i * Chunk
  OBVIOUS
<1>2. i * Chunk <= k * Chunk
  <2>1. \A a, b, c \in Nat : a <= b => a * c <= b * c
    OBVIOUS
  <2> QED BY <2>1
<1> QED BY <1>0, <1>1, <1>2 DEF IdRange

(* The DELs of chunked_run (redis/delete.cpp:67) name the whole chunks from *)
(* the first id on, and then what lies between the last multiple of the     *)
(* length of a chunk and the end, whether or not the chunks end there: for  *)
(* every first id, count and length of a chunk.                             *)
THEOREM ChunkedRunNames ==
  ASSUME NEW from \in Nat, NEW count \in Nat
  PROVE  Deleted(from, count) =
           (from .. ChunksEnd(from, count) - 1) \cup (TailStart(from, count) .. from + count - 1)
<1> DEFINE k == count \div Chunk
           start == TailStart(from, count)
           n == from + count - start
           full == [i \in 1 .. k |-> IdRange((i - 1) * Chunk + from, Chunk)]
           tail == [i \in 1 .. n |-> {start + i - 1}]
<1>1. k \in Nat
  BY ChunkFacts
<1>2. start \in Nat /\ start <= from + count /\ n \in Nat
  BY ChunkFacts DEF TailStart
<1>3. ChunkedRun(from, count) = full \o tail
  BY DEF ChunkedRun
<1>4. ChunksEnd(from, count) = from + k * Chunk
  BY DEF ChunksEnd
<1> HIDE DEF k, start
<1>5. full \in Seq(SUBSET Nat) /\ Len(full) = k /\ tail \in Seq(SUBSET Nat) /\ Len(tail) = n
  <2>1. \A i \in 1 .. k : IdRange((i - 1) * Chunk + from, Chunk) \in SUBSET Nat
    <3> SUFFICES ASSUME NEW i \in 1 .. k PROVE IdRange((i - 1) * Chunk + from, Chunk) \in SUBSET Nat
      OBVIOUS
    <3>1. k * Chunk \in Nat
      BY <1>1
    <3>2. from .. from + k * Chunk - 1 \subseteq Nat
      BY <3>1
    <3> QED BY <1>1, <3>2, ChunksWithin
  <2>6. full \in [1 .. k -> SUBSET Nat]
    BY <2>1
  <2>2. full \in Seq(SUBSET Nat) /\ Len(full) = k
    <3> HIDE DEF full
    <3> QED BY <1>1, <2>6
  <2>3. \A i \in 1 .. n : start + i - 1 \in Nat
    BY <1>2
  <2>4. tail \in [1 .. n -> SUBSET Nat]
    BY <2>3
  <2>5. tail \in Seq(SUBSET Nat) /\ Len(tail) = n
    BY <1>2, <2>4
  <2> QED BY <2>2, <2>5
<1>6. /\ \A i \in 1 .. k : (full \o tail)[i] = full[i]
      /\ \A i \in 1 .. n : (full \o tail)[k + i] = tail[i]
      /\ DOMAIN (full \o tail) = 1 .. k + n
  BY <1>1, <1>2, <1>5
<1>7. KeysOf(full \o tail) = KeysOf(full) \cup KeysOf(tail)
  <2>1. \A j \in 1 .. k + n : j \in 1 .. k \/ \E i \in 1 .. n : j = k + i
    <3> SUFFICES ASSUME NEW j \in 1 .. k + n, j \notin 1 .. k PROVE \E i \in 1 .. n : j = k + i
      OBVIOUS
    <3>1. j - k \in 1 .. n /\ j = k + (j - k)
      BY <1>1, <1>2
    <3> QED BY <3>1
  <2>2. \A i \in 1 .. k : i \in 1 .. k + n
    BY <1>1, <1>2
  <2>3. \A i \in 1 .. n : k + i \in 1 .. k + n
    BY <1>1, <1>2
  <2>4. DOMAIN full = 1 .. k /\ DOMAIN tail = 1 .. n
    OBVIOUS
  <2> HIDE DEF full, tail, n
  <2>5. KeysOf(full \o tail) \subseteq KeysOf(full) \cup KeysOf(tail)
    <3> SUFFICES ASSUME NEW j \in 1 .. k + n
                 PROVE  (full \o tail)[j] \subseteq KeysOf(full) \cup KeysOf(tail)
      BY <1>6 DEF KeysOf
    <3>1. CASE j \in 1 .. k
      BY <1>6, <2>4, <3>1 DEF KeysOf
    <3>2. CASE \E i \in 1 .. n : j = k + i
      BY <1>6, <2>4, <3>2 DEF KeysOf
    <3> QED BY <2>1, <3>1, <3>2
  <2>6. KeysOf(full) \subseteq KeysOf(full \o tail) /\ KeysOf(tail) \subseteq KeysOf(full \o tail)
    BY <1>6, <2>2, <2>3, <2>4 DEF KeysOf
  <2> QED BY <2>5, <2>6
<1>8. KeysOf(full) = from .. (from + k * Chunk) - 1
  <2>1. KeysOf(full) = UNION {IdRange((i - 1) * Chunk + from, Chunk) : i \in 1 .. k}
    BY DEF KeysOf
  <2>2. \A i \in 1 .. k : IdRange((i - 1) * Chunk + from, Chunk) \subseteq from .. from + k * Chunk - 1
    BY <1>1, ChunksWithin
  <2>3. \A x \in from .. from + k * Chunk - 1 : \E i \in 1 .. k : x \in IdRange((i - 1) * Chunk + from, Chunk)
    BY <1>1, ChunksFill
  <2>4. KeysOf(full) = from .. from + k * Chunk - 1
    BY <2>1, <2>2, <2>3
  <2>5. k * Chunk \in Nat
    BY <1>1
  <2> QED BY <2>4, <2>5
<1>9. KeysOf(tail) = start .. from + count - 1
  <2>1. KeysOf(tail) = {start + i - 1 : i \in 1 .. n}
    BY DEF KeysOf
  <2>2. \A i \in 1 .. n : start + i - 1 \in start .. from + count - 1
    BY <1>2
  <2>3. \A x \in start .. from + count - 1 : x - start + 1 \in 1 .. n /\ x = start + (x - start + 1) - 1
    BY <1>2
  <2> HIDE DEF n
  <2>4. {start + i - 1 : i \in 1 .. n} \subseteq start .. from + count - 1
    BY <2>2
  <2>5. start .. from + count - 1 \subseteq {start + i - 1 : i \in 1 .. n}
    BY <2>3
  <2> QED BY <2>1, <2>4, <2>5
<1>10. Deleted(from, count) = KeysOf(full \o tail)
  BY <1>3 DEF Deleted
<1> HIDE DEF full, tail, n
<1>11. KeysOf(full) = from .. ChunksEnd(from, count) - 1
  BY <1>4, <1>8
<1>12. KeysOf(tail) = TailStart(from, count) .. from + count - 1
  BY <1>9 DEF start
<1> QED BY <1>7, <1>10, <1>11, <1>12, Zenon

(* The DELs name the files of the set, all of them and no others, if and    *)
(* only if the tail begins in the set and not behind the last whole chunk:  *)
(* else files before the set are named too, or files of the set are not.    *)
THEOREM ChunkedRunExact ==
  ASSUME NEW from \in Nat, NEW count \in Nat \ {0}
  PROVE  Deleted(from, count) = IdRange(from, count)
           <=> TailStart(from, count) \in from .. ChunksEnd(from, count)
<1> DEFINE s == TailStart(from, count)
           e == ChunksEnd(from, count)
           D == Deleted(from, count)
<1>1. /\ s \in Nat /\ s <= from + count /\ from + count < s + Chunk
      /\ e \in Nat /\ from <= e /\ e <= from + count
  BY ChunkFacts DEF TailStart, ChunksEnd
<1>2. \A x \in Nat : x \in D <=> (from <= x /\ x < e) \/ (s <= x /\ x < from + count)
  <2>1. D = (from .. e - 1) \cup (s .. from + count - 1)
    BY ChunkedRunNames
  <2> HIDE DEF D, e, s
  <2> QED BY <1>1, <2>1
<1>3. D \subseteq Nat
  <2>1. D = (from .. e - 1) \cup (s .. from + count - 1)
    BY ChunkedRunNames
  <2> HIDE DEF D, e, s
  <2> QED BY <1>1, <2>1
<1>4. \A x \in Nat : x \in IdRange(from, count) <=> from <= x /\ x < from + count
  BY DEF IdRange
<1>5. IdRange(from, count) \subseteq Nat
  BY DEF IdRange
<1> HIDE DEF D, e, s
<1>6. ASSUME s \in from .. e
      PROVE  D = IdRange(from, count)
  <2>1. \A x \in Nat : x \in D <=> x \in IdRange(from, count)
    BY <1>1, <1>2, <1>4, <1>6
  <2> QED BY <1>3, <1>5, <2>1
<1>7. ASSUME s < from
      PROVE  D # IdRange(from, count)
  <2>1. s \in D /\ s \notin IdRange(from, count)
    BY <1>1, <1>2, <1>4, <1>7
  <2> QED BY <2>1
<1>8. ASSUME e < s
      PROVE  D # IdRange(from, count)
  <2>1. e \notin D /\ e \in IdRange(from, count)
    BY <1>1, <1>2, <1>4, <1>8
  <2> QED BY <2>1
<1>9. s \in from .. e \/ s < from \/ e < s
  BY <1>1
<1> QED BY <1>6, <1>7, <1>8, <1>9 DEF D, e, s

\* What a deletion of set r may remove: its files, and fewer than Chunk of the
\* ids before them.
Removable(r) ==
  FilesOf(r) \cup {f \in FileIds : f < r.base /\ r.base + r.count < f + Chunk}

\* The DELs name nothing else that a file may have for an id.
LEMMA DeletedNear ==
  ASSUME NEW r, r.base \in Nat, r.count \in Nat
  PROVE  Deleted(r.base, r.count) \cap FileIds \subseteq Removable(r)
<1> DEFINE s == TailStart(r.base, r.count)
           e == ChunksEnd(r.base, r.count)
           b == r.base
           n == r.count
<1>0. b \in Nat /\ n \in Nat
  OBVIOUS
<1>1. s \in Nat /\ b + n < s + Chunk /\ e \in Nat /\ e <= b + n
  BY ChunkFacts DEF TailStart, ChunksEnd
<1>2. Deleted(b, n) = (b .. e - 1) \cup (s .. b + n - 1)
  BY ChunkedRunNames
<1>3. Removable(r) = (b .. b + n - 1) \cup {f \in FileIds : f < b /\ b + n < f + Chunk}
  BY DEF Removable, FilesOf, IdRange
<1> HIDE DEF s, e, b, n
<1>4. ASSUME NEW f \in FileIds, f \in Deleted(b, n)
      PROVE  f \in Removable(r)
  <2>1. f \in Nat
    BY DEF FileIds
  <2> QED BY <1>0, <1>1, <1>2, <1>3, <1>4, <2>1
<1> QED BY <1>4 DEF b, n

-----------------------------------------------------------------------------
(* Files that vanish.                                                       *)

\* The DELs still to run are of the set the second loop is at.
DelsOfCurrentSet ==
  \A d \in Deleters : \A i \in DOMAIN dele[d].dels :
    pc[d] = "del_files" /\ dele[d].dels[i] \subseteq Deleted(dele[d].cur.base, dele[d].cur.count)

\* DELs left alone are of the same set.
DelsKept(d) ==
  /\ dele'[d].dels = dele[d].dels
  /\ dele[d].dels # <<>> => dele'[d].cur = dele[d].cur /\ pc'[d] = pc[d]

\* Only two commands change what DELs are left.
LEMMA DelsElsewhere ==
  ASSUME IInv, DelsOfCurrentSet, [Next]_vars, \A c \in Deleters : ~ DelLevels(c) /\ ~ DelFiles(c)
  PROVE  \A d \in Deleters : DelsKept(d)
<1> USE DEF store, vars, At, Goto
<1>0. /\ pc \in [Clients -> Labels]
      /\ dele \in [Deleters -> DeleLocals]
      /\ \A d \in Deleters : d \in Clients /\ d \notin Scanners /\ d \notin Taggers
  BY DEF IInv, TypeOK, Clients, Editors
<1>1. \A d \in Deleters : dele[d].dels # <<>> => pc[d] = "del_files"
  <2> SUFFICES ASSUME NEW d \in Deleters, dele[d].dels # <<>> PROVE pc[d] = "del_files"
    OBVIOUS
  <2>1. dele[d].dels \in Seq(SUBSET Nat)
    BY <1>0 DEF DeleLocals
  <2>2. 1 \in DOMAIN dele[d].dels
    BY <2>1
  <2> QED BY <2>2 DEF DelsOfCurrentSet
<1>2. CASE UNCHANGED <<pc, dele>>
  BY <1>2 DEF DelsKept
<1>3. ASSUME NEW c \in Scanners \cup Taggers, UNCHANGED dele,
             UNCHANGED pc \/ \E l : pc' = [pc EXCEPT ![c] = l]
      PROVE  \A d \in Deleters : DelsKept(d)
  BY <1>0, <1>3 DEF DelsKept
<1>4. ASSUME NEW c \in Scanners, ScanStep(c)
      PROVE  \A d \in Deleters : DelsKept(d)
  <2>1. (\E l : pc' = [pc EXCEPT ![c] = l]) /\ UNCHANGED dele
    BY <1>4 DEF ScanStep, ConnectStep, Connect, LoadScripts, LoadScript,
      SRandMember, HScanFile, HScanSet, IncrSet, IncrFiles, HMSetSet,
      WriteFile, SAddHash, ZAddLevel
  <2> QED BY <1>3, <2>1
<1>5. ASSUME NEW c \in Taggers, TagStep(c)
      PROVE  \A d \in Deleters : DelsKept(d)
  <2>1. (UNCHANGED pc \/ \E l : pc' = [pc EXCEPT ![c] = l]) /\ UNCHANGED dele
    BY <1>5 DEF TagStep, ConnectStep, Connect, LoadScripts, LoadScript,
      StartTag, GetTags, RunTagScript, EndTag
  <2> QED BY <1>3, <2>1
<1>6. ASSUME NEW c \in Deleters, dele[c].dels = <<>>, dele'[c].dels = dele[c].dels,
             UNCHANGED pc \/ \E l : pc' = [pc EXCEPT ![c] = l],
             \A d \in Deleters \ {c} : dele'[d] = dele[d]
      PROVE  \A d \in Deleters : DelsKept(d)
  BY <1>0, <1>6 DEF DelsKept
<1>7. ASSUME NEW c \in Deleters, DeleteStep(c)
      PROVE  \A d \in Deleters : DelsKept(d)
  <2>1. dele[c].dels = <<>>
    <3>1. pc[c] # "del_files" \/ dele[c].dels = <<>>
      BY <1>7 DEF DeleteStep, ConnectStep, Connect, LoadScripts, LoadScript,
        GetTags, RunTagScript, StartDelete, ConfirmRead, Refuse, Confirm, NextUntag,
        NextSet, GetHash, RunHash, DelSet, EndDelete
    <3> QED BY <1>1, <3>1
  <2>2. UNCHANGED pc \/ \E l : pc' = [pc EXCEPT ![c] = l]
    BY <1>7 DEF DeleteStep, ConnectStep, Connect, LoadScripts, LoadScript,
      GetTags, RunTagScript, StartDelete, ConfirmRead, Refuse, Confirm, StartUntag, NextUntag,
      NextSet, GetHash, RunHash, DelSet, EndDelete
  <2>3. \/ UNCHANGED dele
        \/ \E a : dele' = [dele EXCEPT ![c].ask = a]
        \/ \E a, r : dele' = [dele EXCEPT ![c].ask = a, ![c].ranges = r]
        \/ \E r : dele' = [dele EXCEPT ![c].ranges = r]
        \/ \E r : dele' = [dele EXCEPT ![c].left = r]
        \/ \E s, r : dele' = [dele EXCEPT ![c].left = s, ![c].cur = r]
        \/ \E s : dele' = [dele EXCEPT ![c].calls = s]
    BY <1>7 DEF DeleteStep, ConnectStep, Connect, LoadScripts, LoadScript,
      GetTags, RunTagScript, StartDelete, ConfirmRead, Refuse, Confirm, NextUntag,
      NextSet, GetHash, RunHash, DelSet, EndDelete
  <2>4. \A d \in Deleters \ {c} : dele'[d] = dele[d]
    BY <1>0, <2>3
  <2>5. dele'[c].dels = dele[c].dels
    <3>1. dele[c] \in DeleLocals
      BY <1>0
    <3>2. ASSUME NEW a, NEW r,
                 \/ UNCHANGED dele
                 \/ dele' = [dele EXCEPT ![c].ask = a]
                 \/ dele' = [dele EXCEPT ![c].ranges = r]
                 \/ dele' = [dele EXCEPT ![c].left = r]
                 \/ dele' = [dele EXCEPT ![c].calls = r]
          PROVE  dele'[c].dels = dele[c].dels
      BY <1>0, <3>1, <3>2 DEF DeleLocals
    <3>3. ASSUME NEW a, NEW r, dele' = [dele EXCEPT ![c].ask = a, ![c].ranges = r]
          PROVE  dele'[c].dels = dele[c].dels
      BY <1>0, <3>1, <3>3 DEF DeleLocals
    <3>4. ASSUME NEW a, NEW r, dele' = [dele EXCEPT ![c].left = a, ![c].cur = r]
          PROVE  dele'[c].dels = dele[c].dels
      BY <1>0, <3>1, <3>4 DEF DeleLocals
    <3> QED BY <2>3, <3>2, <3>3, <3>4
  <2> QED BY <1>6, <2>1, <2>2, <2>4, <2>5
<1>8. CASE Terminated \/ UNCHANGED vars
  BY <1>2, <1>8 DEF Terminated
<1> QED BY <1>4, <1>5, <1>7, <1>8 DEF Next

\* Those of the set the loop is at take their places.
LEMMA DelsStep ==
  ASSUME IInv, DelsOfCurrentSet, [Next]_vars
  PROVE  DelsOfCurrentSet'
<1> USE DEF At, Goto
<1>0. /\ pc \in [Clients -> Labels]
      /\ dele \in [Deleters -> DeleLocals]
      /\ \A d \in Deleters : d \in Clients /\ dele[d] \in DeleLocals
  BY DEF IInv, TypeOK, Clients, Editors
<1>1. CASE \A c \in Deleters : ~ DelLevels(c) /\ ~ DelFiles(c)
  <2>1. \A d \in Deleters : DelsKept(d)
    BY <1>1, DelsElsewhere
  <2> SUFFICES ASSUME NEW d \in Deleters, NEW i \in DOMAIN dele'[d].dels
               PROVE  /\ pc'[d] = "del_files"
                      /\ dele'[d].dels[i] \subseteq Deleted(dele'[d].cur.base, dele'[d].cur.count)
    BY DEF DelsOfCurrentSet
  <2>2. dele[d].dels # <<>> /\ dele'[d].dels = dele[d].dels /\ dele'[d].cur = dele[d].cur /\ pc'[d] = pc[d]
    <3>1. dele'[d].dels = dele[d].dels
      BY <2>1 DEF DelsKept
    <3>2. dele[d].dels # <<>>
      BY <3>1
    <3> QED BY <2>1, <3>1, <3>2 DEF DelsKept
  <2> QED BY <2>2 DEF DelsOfCurrentSet
<1>2. ASSUME NEW c \in Deleters, DelLevels(c)
      PROVE  DelsOfCurrentSet'
  <2> DEFINE r == dele[c].cur
             run == ChunkedRun(r.base, r.count)
  <2>1. dele' = [dele EXCEPT ![c].dels = run] /\ pc' = [pc EXCEPT ![c] = "del_files"]
    BY <1>2 DEF DelLevels
  <2>2. \A i \in DOMAIN run : run[i] \subseteq Deleted(r.base, r.count)
    BY DEF Deleted, KeysOf
  <2>3. dele'[c].dels = run /\ dele'[c].cur = r
    <3> HIDE DEF run
    <3> QED BY <1>0, <2>1 DEF DeleLocals
  <2>4. \A d \in Deleters \ {c} : dele'[d] = dele[d] /\ pc'[d] = pc[d]
    BY <1>0, <2>1
  <2>5. pc'[c] = "del_files"
    BY <1>0, <2>1
  <2> HIDE DEF r, run
  <2>6. \A d \in Deleters : \A i \in DOMAIN dele'[d].dels :
          /\ pc'[d] = "del_files"
          /\ dele'[d].dels[i] \subseteq Deleted(dele'[d].cur.base, dele'[d].cur.count)
    BY <2>2, <2>3, <2>4, <2>5 DEF DelsOfCurrentSet
  <2> QED BY <2>6 DEF DelsOfCurrentSet
<1>3. ASSUME NEW c \in Deleters, DelFiles(c)
      PROVE  DelsOfCurrentSet'
  <2>1. /\ dele[c].dels # <<>> /\ dele' = [dele EXCEPT ![c].dels = Tail(dele[c].dels)] /\ pc' = pc
    BY <1>3 DEF DelFiles
  <2>2. dele'[c].dels = Tail(dele[c].dels) /\ dele'[c].cur = dele[c].cur
    BY <1>0, <2>1 DEF DeleLocals
  <2>3. \A d \in Deleters \ {c} : dele'[d] = dele[d]
    BY <1>0, <2>1
  <2>4. \A i \in DOMAIN Tail(dele[c].dels) : \E j \in DOMAIN dele[c].dels : Tail(dele[c].dels)[i] = dele[c].dels[j]
    <3> DEFINE s == dele[c].dels
    <3>1. s \in Seq(SUBSET Nat) /\ s # <<>>
      BY <1>0, <2>1 DEF DeleLocals
    <3> HIDE DEF s
    <3>2. \A i \in DOMAIN Tail(s) : i + 1 \in DOMAIN s /\ Tail(s)[i] = s[i + 1]
      BY <3>1
    <3>3. \A i \in DOMAIN Tail(s) : \E j \in DOMAIN s : Tail(s)[i] = s[j]
      BY <3>2
    <3> QED BY <3>3 DEF s
  <2>5. \A d \in Deleters : \A i \in DOMAIN dele'[d].dels :
          /\ pc'[d] = "del_files"
          /\ dele'[d].dels[i] \subseteq Deleted(dele'[d].cur.base, dele'[d].cur.count)
    BY <2>1, <2>2, <2>3, <2>4 DEF DelsOfCurrentSet
  <2> QED BY <2>5 DEF DelsOfCurrentSet
<1> QED BY <1>1, <1>2, <1>3

\* A step that removes a file is a DEL of a deletion.
LEMMA RemovedByDel ==
  ASSUME IInv, [Next]_vars, NEW f \in FileIds, FileExists(f), ~ FileExists(f)'
  PROVE  \E c \in Deleters : DelFiles(c) /\ f \in Head(dele[c].dels)
<1> USE DEF store, vars
<1>0. files \in [FileIds -> [group : 0 .. MaxSets, hash : Hashes \cup {NoHash}, tags : SUBSET Tags]]
  BY DEF IInv, TypeOK, StoreTypeOK
<1>1. ASSUME UNCHANGED files
      PROVE  FALSE
  BY <1>1 DEF FileExists
<1>2. ASSUME NEW c \in Scanners, WriteFile(c)
      PROVE  FALSE
  <2>1. pc[c] = "hmset_file" /\ files' = [files EXCEPT ![scan[c].base + scan[c].written] =
          [group |-> scan[c].group, hash |-> scan[c].disc[scan[c].written + 1], tags |-> @.tags]]
    BY <1>2 DEF WriteFile, HMSetFile, At
  <2>2. scan[c].group # InvalidGroupID
    BY <2>1 DEF IInv, ScanProgress, Named
  <2>3. files'[f] = files[f] \/ files'[f].group = scan[c].group
    BY <1>0, <2>1
  <2> QED BY <2>2, <2>3 DEF FileExists
<1>3. ASSUME NEW c \in Scanners, ScanStep(c), ~ WriteFile(c)
      PROVE  UNCHANGED files
  BY <1>3 DEF ScanStep, ConnectStep, Connect, LoadScripts, LoadScript,
    SRandMember, HScanFile, HScanSet, IncrSet, IncrFiles, HMSetSet,
    SAddHash, ZAddLevel
<1>4. ASSUME NEW c \in Taggers, TagStep(c), ~ RunTagScript(c)
      PROVE  UNCHANGED files
  BY <1>4 DEF TagStep, ConnectStep, Connect, LoadScripts, LoadScript,
    StartTag, GetTags, EndTag
<1>5. ASSUME NEW c \in Deleters, DeleteStep(c), ~ RunTagScript(c), ~ DelFiles(c)
      PROVE  UNCHANGED files
  BY <1>5 DEF DeleteStep, ConnectStep, Connect, LoadScripts, LoadScript,
    GetTags, StartDelete, ConfirmRead, Refuse, Confirm, NextUntag, NextSet, GetHash,
    RunHash, DelSet, DelLevels, EndDelete
<1>6. ASSUME NEW c \in Editors, RunTagScript(c)
      PROVE  FALSE
  <2>1. UNCHANGED files \/ \E k, ts : files' = [files EXCEPT ![k].tags = ts]
    BY <1>6 DEF RunTagScript, TagIfInSet, DeleTagIfInSet
  <2>2. ASSUME NEW k, NEW ts, files' = [files EXCEPT ![k].tags = ts]
        PROVE  FALSE
    <3>1. files'[f].group = files[f].group
      BY <1>0, <2>2
    <3> QED BY <3>1 DEF FileExists
  <2> QED BY <1>1, <2>1, <2>2
<1>7. ASSUME NEW c \in Deleters, DelFiles(c)
      PROVE  f \in Head(dele[c].dels)
  <2>1. files' = [k \in FileIds |-> IF k \in Head(dele[c].dels) THEN NoFile ELSE files[k]]
    BY <1>7 DEF DelFiles, DelFileKeys
  <2> QED BY <2>1 DEF FileExists
<1>8. CASE Terminated \/ UNCHANGED vars
  BY <1>1, <1>8 DEF Terminated
<1> QED BY <1>1, <1>2, <1>3, <1>4, <1>5, <1>6, <1>7, <1>8 DEF Next, Editors

\* So it is one of the set that deletion is at, or one of the few before it.
LEMMA RemovedNear ==
  ASSUME IInv, DelsOfCurrentSet, [Next]_vars, NEW f \in FileIds, FileExists(f), ~ FileExists(f)'
  PROVE  \E d \in Deleters : \E r \in dele[d].ranges : pc[d] = "del_files" /\ f \in Removable(r)
<1>1. PICK c \in Deleters : DelFiles(c) /\ f \in Head(dele[c].dels)
  BY RemovedByDel
<1> DEFINE s == dele[c].dels
           r == dele[c].cur
<1>2. s \in Seq(SUBSET Nat) /\ s # <<>> /\ r \in IDRange \cup {NoRange}
  BY <1>1 DEF DelFiles, IInv, TypeOK, DeleLocals
<1>3. 1 \in DOMAIN s /\ Head(s) = s[1]
  BY <1>2
<1>4. pc[c] = "del_files" /\ f \in Deleted(r.base, r.count)
  BY <1>1, <1>3 DEF DelsOfCurrentSet
<1>5. r.base \in Nat /\ r.count \in Nat
  BY <1>2 DEF IDRange, NoRange, FileIds
<1>6. f \in Removable(r)
  BY <1>4, <1>5, DeletedNear
<1>7. r # NoRange
  <2> SUFFICES ASSUME r = NoRange PROVE FALSE
    OBVIOUS
  <2>1. r.base = 0 /\ r.count = 0
    BY DEF NoRange
  <2> QED BY <1>6, <2>1 DEF Removable, FilesOf, IdRange, FileIds
<1>8. r \in dele[c].ranges
  BY <1>7 DEF IInv, RangesHaveWriters
<1> QED BY <1>4, <1>6, <1>8

(* A file vanishes only when a confirmed deletion comes to it: it is of a   *)
(* set that deletion names, or its id is less than a chunk in front of the  *)
(* files of one, of a set with fewer files than a chunk.  This is how far   *)
(* chunked_run's tail (redis/delete.cpp:67) can go wrong.                   *)
FilesVanishOnlyNearNamedSets ==
  [][\A f \in FileIds :
       FileExists(f) /\ ~ FileExists(f)' =>
         \E d \in Deleters : \E r \in dele[d].ranges : pc[d] = "del_files" /\ f \in Removable(r)]_vars

THEOREM VanishTheorem == Spec => FilesVanishOnlyNearNamedSets
<1>1. Init => DelsOfCurrentSet
  BY DEF Init, DelsOfCurrentSet
<1>2. IInv /\ DelsOfCurrentSet /\ [Next]_vars => DelsOfCurrentSet'
  BY DelsStep
<1>3. IInv /\ DelsOfCurrentSet /\ [Next]_vars =>
        [\A f \in FileIds :
           FileExists(f) /\ ~ FileExists(f)' =>
             \E d \in Deleters : \E r \in dele[d].ranges : pc[d] = "del_files" /\ f \in Removable(r)]_vars
  BY RemovedNear
<1> QED BY Invariance, <1>1, <1>2, <1>3, PTL DEF Spec, FilesVanishOnlyNearNamedSets
=============================================================================
