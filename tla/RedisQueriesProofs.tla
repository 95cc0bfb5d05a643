------------------------- MODULE RedisQueriesProofs --------------------------
(***************************************************************************)
(* What `dindexer tag` given globs and `dindexer locate` promise holds for *)
(* any number of queries, scans and deletions of any catalogue: every step *)
(* keeps QueriesInv.                                                       *)
(***************************************************************************)
EXTENDS RedisProofs, RedisQueriesInvariant, FiniteSetTheorems

USE StoreAssumption, ClientAssumption, QueriesAssumption

\* A process is of one kind.
LEMMA TaggerFacts ==
  ASSUME NEW c \in Taggers
  PROVE  c \in Clients /\ c \in Editors /\ c \notin Scanners /\ c \notin Deleters
BY DEF Clients, Editors

\* Scans, deletions and connections are those of the backend.
LEMMA BackendIsNext ==
  ASSUME BackendStep
  PROVE  [Next]_vars
BY DEF BackendStep, Next, TagStep

-----------------------------------------------------------------------------
(* What a step of a query leaves alone.                                    *)

\* Nothing but a script changes the store.
LEMMA QueryStore ==
  ASSUME NEW c \in Taggers, GlobStep(c) \/ LocateStep(c)
  PROVE  /\ UNCHANGED <<indices, sets, hashes, levels, scripts, scan, edit, dele>>
         /\ RunGlobScript(c) \/ UNCHANGED <<files, tags, err>>
<1> USE DEF vars, store
<1>1. CASE GlobStep(c)
  BY <1>1 DEF GlobStep, StartGlob, NextKey, HGetPath, RunGlobScript, EndKey,
    HMGetTags, EndGlob
<1>2. CASE LocateStep(c)
  BY <1>2 DEF LocateStep, StartLocate, QueueKey, HMGetFile, Flush, EndLocate,
    StartByHash, SMembers, EndMembers, EndByHash
<1>3. QED
  BY <1>1, <1>2

\* It moves its own process only, if not to its end.
LEMMA QueryPc ==
  ASSUME TypeOK, NEW c \in Taggers, GlobStep(c) \/ LocateStep(c)
  PROVE  /\ pc' = [pc EXCEPT ![c] = pc'[c]]
         /\ pc'[c] \in {pc[c], "done", "failed"}
<1> USE DEF vars, store, Goto
<1>1. c \in Clients /\ pc \in [Clients -> Labels]
  BY TaggerFacts DEF TypeOK
<1>2. UNCHANGED pc \/ \E l \in {"done", "failed"} : pc' = [pc EXCEPT ![c] = l]
  <2>1. CASE GlobStep(c)
    BY <2>1 DEF GlobStep, StartGlob, NextKey, HGetPath, RunGlobScript, EndKey,
      HMGetTags, EndGlob
  <2>2. CASE LocateStep(c)
    BY <2>2 DEF LocateStep, StartLocate, QueueKey, HMGetFile, Flush, EndLocate,
      StartByHash, SMembers, EndMembers, EndByHash
  <2>3. QED
    BY <2>1, <2>2
<1>3. QED
  BY <1>1, <1>2

\* Ids that were written are ids.
LEMMA WrittenId ==
  ASSUME IInv, NEW f, Written(f)
  PROVE  f \in FileIds
<1>1. PICK s \in Scanners : Wrote(s, f)
  BY DEF Written
<1>2. /\ scan[s].base \in Nat /\ scan[s].base # 0 /\ scan[s].written \in Nat
      /\ DataSize(s) \in Nat /\ scan[s].written <= DataSize(s)
      /\ scan[s].base + DataSize(s) - 1 <= indices.files
      /\ indices.files \in Nat /\ indices.files <= MaxFiles
  BY <1>1, ScanNats, DiscFacts
  DEF IInv, ScanProgress, IdsCounted, TypeOK, StoreTypeOK, Wrote, Allocated
<1>3. f \in scan[s].base .. scan[s].base + scan[s].written - 1
  BY <1>1 DEF Wrote, IdRange
<1>4. f \in Nat /\ f >= 1 /\ f <= indices.files
  BY <1>2, <1>3
<1>5. QED
  BY <1>2, <1>4 DEF FileIds

\* What a script of tag --globs does to the file it is run on.
LEMMA GlobScriptFacts ==
  ASSUME IInv, QueriesTypeOK, NEW c \in Taggers, RunGlobScript(c),
         SeenWritten(c), WorkMatches(c)
  PROVE  \E t \in glob[c].work :
           /\ glob[c].cur \in FileIds /\ t \in Tags
           /\ glob' = [glob EXCEPT ![c].work = glob[c].work \ {t}]
           /\ \/ /\ glob[c].mode = "add" /\ UNCHANGED err
                 /\ TagIfInSet(t, glob[c].cur, glob[c].owner)
              \/ /\ glob[c].mode = "dele" /\ UNCHANGED err
                 /\ DeleTagIfInSet(t, glob[c].cur, glob[c].owner)
              \/ err' = [err EXCEPT ![c] = TRUE] /\ UNCHANGED <<files, tags>>
<1>1. PICK t \in glob[c].work :
        /\ glob' = [glob EXCEPT ![c].work = @ \ {t}]
        /\ \/ /\ IF glob[c].mode = "add"
                 THEN TagIfInSet(t, glob[c].cur, glob[c].owner)
                 ELSE DeleTagIfInSet(t, glob[c].cur, glob[c].owner)
              /\ UNCHANGED err
           \/ err' = [err EXCEPT ![c] = TRUE] /\ UNCHANGED <<files, tags>>
  BY DEF RunGlobScript
<1>2. glob[c].at = "run"
  BY DEF RunGlobScript
<1>3. glob[c] \in GlobLocals
  BY DEF QueriesTypeOK
<1>4. glob[c].mode \in {"add", "dele"} /\ t \in Tags
  BY <1>2, <1>3 DEF WorkMatches, GlobLocals, Modes
<1>5. glob[c].cur \in FileIds
  BY <1>2, WrittenId DEF SeenWritten
<1>6. QED
  BY <1>1, <1>4, <1>5

\* A query keeps IInv.
LEMMA QueryOK ==
  ASSUME IInv, QueriesTypeOK, NEW c \in Taggers, GlobStep(c) \/ LocateStep(c),
         SeenWritten(c), WorkMatches(c)
  PROVE  IInv'
<1> USE TaggerFacts
<1>1. CASE RunGlobScript(c)
  <2>1. PICK t \in Tags :
          /\ glob[c].cur \in FileIds
          /\ \/ TagIfInSet(t, glob[c].cur, glob[c].owner)
             \/ DeleTagIfInSet(t, glob[c].cur, glob[c].owner)
             \/ UNCHANGED <<files, tags>>
          /\ UNCHANGED err \/ err' = [err EXCEPT ![c] = TRUE]
    BY <1>1, GlobScriptFacts
  <2>2. UNCHANGED <<indices, sets, hashes, levels, scripts, pc, scan, edit, dele>>
    BY <1>1 DEF RunGlobScript
  <2>3. err' \in [Clients -> BOOLEAN] /\ edit' \in [Editors -> EditLocals]
    BY <2>1, <2>2 DEF IInv, TypeOK
  <2>4. QED
    BY <2>1, <2>2, <2>3, TagScriptOK
<1>2. CASE UNCHANGED <<files, tags, err>>
  <2>1. UNCHANGED <<indices, sets, hashes, levels, scripts, scan, edit, dele>>
    BY QueryStore
  <2>2. pc' = [pc EXCEPT ![c] = pc'[c]] /\ pc'[c] \in {pc[c], "done", "failed"}
    BY QueryPc DEF IInv
  <2>3. TypeOK'
    BY <1>2, <2>1, <2>2 DEF IInv, TypeOK, StoreTypeOK, Labels
  <2>4. TagIndexExact'
    BY <1>2 DEF IInv, TagIndexExact, FileExists
  <2>5. QED
    BY <1>2, <2>1, <2>2, <2>3, <2>4, EditorFrame
<1>3. QED
  BY <1>1, <1>2, QueryStore

\* Every step, of a query or not, keeps IInv.
LEMMA AnyStepOK ==
  ASSUME IInv, QueriesInv, [QNext]_queryVars
  PROVE  IInv'
<1>1. CASE BackendStep \/ UNCHANGED queryVars
  BY <1>1, BackendIsNext, InductiveStep DEF queryVars
<1>2. ASSUME NEW c \in Taggers, GlobStep(c) \/ LocateStep(c)
      PROVE  IInv'
  BY <1>2, QueryOK DEF QueriesInv
<1>3. QED
  BY <1>1, <1>2 DEF QNext

-----------------------------------------------------------------------------
(* What any step keeps of the store, as far as queries are concerned.      *)

\* A scan writes one file after the other, from when it was given its ids.
LEMMA ScanMoves ==
  ASSUME IInv, [Next]_vars, NEW s \in Scanners
  PROVE  \/ /\ scan'[s].base = scan[s].base
            /\ scan'[s].written = scan[s].written
         \/ /\ Allocated(s) /\ scan'[s].base = scan[s].base
            /\ scan'[s].written = scan[s].written + 1
         \/ ~ Allocated(s) /\ scan[s].written = 0 /\ scan'[s].written = 0
<1> USE DEF vars
<1> DEFINE Moves == \/ /\ scan'[s].base = scan[s].base
                       /\ scan'[s].written = scan[s].written
                    \/ /\ Allocated(s) /\ scan'[s].base = scan[s].base
                       /\ scan'[s].written = scan[s].written + 1
                    \/ /\ ~ Allocated(s)
                       /\ scan[s].written = 0 /\ scan'[s].written = 0
<1>1. scan \in [Scanners -> ScanLocals] /\ scan[s] \in ScanLocals
  BY DEF IInv, TypeOK
<1>2. CASE UNCHANGED scan
  BY <1>2
<1>3. ASSUME NEW c \in Scanners, ScanStep(c)
      PROVE  Moves
  <2>1. CASE c # s
    <3>1. \A x \in Scanners \ {c} : scan'[x] = scan[x]
      BY <1>1, <1>3 DEF ScanStep, ConnectStep, Connect, LoadScripts, LoadScript,
        SRandMember, HScanFile, HScanSet, IncrSet, IncrFiles, HMSetSet,
        WriteFile, SAddHash, ZAddLevel
    <3>2. QED
      BY <2>1, <3>1
  <2>2. CASE c = s /\ IncrFiles(c)
    <3>1. pc[s] = "incr_files"
      BY <2>2 DEF IncrFiles, At
    <3>2. ~ Allocated(s) /\ scan[s].written = 0
      BY <3>1 DEF IInv, ScanProgress
    <3>3. PICK v : scan' = [scan EXCEPT ![s].base = v]
      BY <2>2 DEF IncrFiles
    <3>4. scan'[s].written = scan[s].written
      BY <1>1, <3>3 DEF ScanLocals
    <3>5. QED
      BY <3>2, <3>4
  <2>3. CASE c = s /\ WriteFile(c)
    <3>1. scan' = [scan EXCEPT ![s].written = scan[s].written + 1]
      BY <2>3 DEF WriteFile
    <3>2. scan'[s].base = scan[s].base /\ scan'[s].written = scan[s].written + 1
      BY <1>1, <3>1 DEF ScanLocals
    <3>3. Allocated(s)
      BY <2>3 DEF IInv, ScanProgress, WriteFile, At
    <3>4. QED
      BY <3>2, <3>3
  <2>4. CASE c = s /\ ~IncrFiles(c) /\ ~WriteFile(c)
    <3>1. \/ UNCHANGED scan
          \/ \E v : scan' = [scan EXCEPT ![s].hit = v]
          \/ \E v : scan' = [scan EXCEPT ![s].owner = v]
          \/ \E v : scan' = [scan EXCEPT ![s].group = v]
      BY <1>3, <2>4 DEF ScanStep, ConnectStep, Connect, LoadScripts, LoadScript,
        SRandMember, HScanFile, HScanSet, IncrSet, HMSetSet, SAddHash, ZAddLevel
    <3>2. ASSUME NEW v, scan' = [scan EXCEPT ![s].hit = v]
          PROVE  Moves
      BY <1>1, <3>2 DEF ScanLocals
    <3>3. ASSUME NEW v, scan' = [scan EXCEPT ![s].owner = v]
          PROVE  Moves
      BY <1>1, <3>3 DEF ScanLocals
    <3>4. ASSUME NEW v, scan' = [scan EXCEPT ![s].group = v]
          PROVE  Moves
      BY <1>1, <3>4 DEF ScanLocals
    <3>5. QED
      BY <1>2, <3>1, <3>2, <3>3, <3>4
  <2>5. QED
    BY <2>1, <2>2, <2>3, <2>4
<1>4. ASSUME NEW c \in Taggers, TagStep(c)
      PROVE  UNCHANGED scan
  BY <1>4 DEF TagStep, ConnectStep, Connect, LoadScripts, LoadScript,
    StartTag, GetTags, RunTagScript, EndTag
<1>5. ASSUME NEW c \in Deleters, DeleteStep(c)
      PROVE  UNCHANGED scan
  BY <1>5 DEF DeleteStep, ConnectStep, Connect, LoadScripts, LoadScript,
    GetTags, RunTagScript, StartDelete, ConfirmRead, Refuse, Confirm, NextUntag,
    NextSet, GetHash, RunHash, DelSet, DelLevels, DelFiles, EndDelete
<1>6. CASE Terminated \/ UNCHANGED vars
  BY <1>2, <1>6 DEF Terminated
<1>7. QED
  BY <1>2, <1>3, <1>4, <1>5, <1>6 DEF Next

\* What a scan has to write does not change.
LEMMA DiscKept ==
  ASSUME IInv, [Next]_vars, NEW s \in Scanners
  PROVE  scan'[s].disc = scan[s].disc
<1> USE DEF vars
<1>1. scan \in [Scanners -> ScanLocals] /\ scan[s] \in ScanLocals
  BY DEF IInv, TypeOK
<1>2. ASSUME NEW c \in Scanners, ScanStep(c)
      PROVE  scan'[s].disc = scan[s].disc
  <2>1. CASE UNCHANGED scan
    BY <2>1
  <2>2. CASE \E v : \/ scan' = [scan EXCEPT ![c].hit = v]
                    \/ scan' = [scan EXCEPT ![c].owner = v]
                    \/ scan' = [scan EXCEPT ![c].group = v]
                    \/ scan' = [scan EXCEPT ![c].base = v]
                    \/ scan' = [scan EXCEPT ![c].written = v]
    <3>1. ASSUME NEW v, scan' = [scan EXCEPT ![c].hit = v]
          PROVE  scan'[s].disc = scan[s].disc
      BY <1>1, <3>1 DEF ScanLocals
    <3>2. ASSUME NEW v, scan' = [scan EXCEPT ![c].owner = v]
          PROVE  scan'[s].disc = scan[s].disc
      BY <1>1, <3>2 DEF ScanLocals
    <3>3. ASSUME NEW v, scan' = [scan EXCEPT ![c].group = v]
          PROVE  scan'[s].disc = scan[s].disc
      BY <1>1, <3>3 DEF ScanLocals
    <3>4. ASSUME NEW v, scan' = [scan EXCEPT ![c].base = v]
          PROVE  scan'[s].disc = scan[s].disc
      BY <1>1, <3>4 DEF ScanLocals
    <3>5. ASSUME NEW v, scan' = [scan EXCEPT ![c].written = v]
          PROVE  scan'[s].disc = scan[s].disc
      BY <1>1, <3>5 DEF ScanLocals
    <3>6. QED
      BY <2>2, <3>1, <3>2, <3>3, <3>4, <3>5
  <2>3. CASE WriteFile(c)
    <3>1. scan' = [scan EXCEPT ![c].written = scan[c].written + 1]
      BY <2>3 DEF WriteFile
    <3>2. QED
      BY <2>2, <3>1
  <2>4. CASE IncrFiles(c)
    <3>1. PICK v : scan' = [scan EXCEPT ![c].base = v]
      BY <2>4 DEF IncrFiles
    <3>2. QED
      BY <2>2, <3>1
  <2>5. QED
    BY <1>2, <2>1, <2>2, <2>3, <2>4 DEF ScanStep, ConnectStep, Connect,
      LoadScripts, LoadScript, SRandMember, HScanFile, HScanSet, IncrSet,
      HMSetSet, SAddHash, ZAddLevel
<1>3. CASE UNCHANGED scan
  BY <1>3
<1>4. ASSUME NEW c \in Taggers, TagStep(c)
      PROVE  UNCHANGED scan
  BY <1>4 DEF TagStep, ConnectStep, Connect, LoadScripts, LoadScript,
    StartTag, GetTags, RunTagScript, EndTag
<1>5. ASSUME NEW c \in Deleters, DeleteStep(c)
      PROVE  UNCHANGED scan
  BY <1>5 DEF DeleteStep, ConnectStep, Connect, LoadScripts, LoadScript,
    GetTags, RunTagScript, StartDelete, ConfirmRead, Refuse, Confirm, NextUntag,
    NextSet, GetHash, RunHash, DelSet, DelLevels, DelFiles, EndDelete
<1>6. CASE Terminated \/ UNCHANGED vars
  BY <1>3, <1>6 DEF Terminated
<1>7. QED
  BY <1>2, <1>3, <1>4, <1>5, <1>6 DEF Next

\* An id that was written stays so.
LEMMA WrittenStays ==
  ASSUME IInv, [Next]_vars, NEW f \in FileIds, Written(f)
  PROVE  Written(f)'
<1>1. PICK s \in Scanners : Wrote(s, f)
  BY DEF Written
<1>2. /\ scan[s].base \in Nat /\ scan[s].base # 0 /\ scan[s].written \in Nat
      /\ f \in scan[s].base .. scan[s].base + scan[s].written - 1
  BY <1>1, ScanNats DEF IInv, TypeOK, Wrote, Allocated, IdRange
<1>3. /\ scan'[s].base = scan[s].base
      /\ \/ scan'[s].written = scan[s].written
         \/ scan'[s].written = scan[s].written + 1
  BY <1>2, ScanMoves DEF Allocated
<1>4. f \in scan'[s].base .. scan'[s].base + scan'[s].written - 1
  BY <1>2, <1>3
<1>5. Wrote(s, f)'
  BY <1>2, <1>3, <1>4 DEF Wrote, Allocated, IdRange
<1>6. QED
  BY <1>5 DEF Written

\* And it stays one of its hash.
LEMMA WrittenAsStays ==
  ASSUME IInv, QueriesInv, [QNext]_queryVars, NEW f \in FileIds, NEW h, WrittenAs(f, h)
  PROVE  WrittenAs(f, h)'
<1>1. PICK s \in Scanners : /\ f \in IdRange(scan[s].base, scan[s].written)
                             /\ scan[s].disc[f - scan[s].base + 1] = h
  BY DEF WrittenAs
<1>2. scan[s].base \in Nat /\ scan[s].written \in Nat
  BY ScanNats DEF IInv
<1>3. Allocated(s)
  <2>1. scan[s].written # 0
    BY <1>1, <1>2 DEF IdRange
  <2>2. QED
    BY <2>1 DEF QueriesInv, WrittenAllocated
<1>4. CASE BackendStep \/ UNCHANGED queryVars
  <2>1. [Next]_vars
    BY <1>4, BackendIsNext DEF queryVars
  <2>2. /\ scan'[s].base = scan[s].base
        /\ \/ scan'[s].written = scan[s].written
           \/ scan'[s].written = scan[s].written + 1
    BY <1>3, <2>1, ScanMoves
  <2>3. scan'[s].disc = scan[s].disc
    BY <2>1, DiscKept
  <2>4. f \in IdRange(scan'[s].base, scan'[s].written)
    BY <1>1, <1>2, <2>2 DEF IdRange
  <2>5. QED
    BY <1>1, <2>2, <2>3, <2>4 DEF WrittenAs
<1>5. ASSUME NEW c \in Taggers, GlobStep(c) \/ LocateStep(c)
      PROVE  WrittenAs(f, h)'
  <2>1. UNCHANGED scan
    BY <1>5, QueryStore
  <2>2. QED
    BY <2>1 DEF WrittenAs
<1>6. QED
  BY <1>4, <1>5 DEF QNext

\* What was sent was sent with an id.
LEMMA WrittenAllocatedKept ==
  ASSUME IInv, QueriesInv, [QNext]_queryVars
  PROVE  WrittenAllocated'
<1> SUFFICES ASSUME NEW s \in Scanners, scan'[s].written # 0
             PROVE  scan'[s].base # 0
  BY DEF WrittenAllocated, Allocated
<1>1. CASE BackendStep \/ UNCHANGED queryVars
  BY <1>1, BackendIsNext, ScanMoves
  DEF queryVars, QueriesInv, WrittenAllocated, Allocated
<1>2. ASSUME NEW c \in Taggers, GlobStep(c) \/ LocateStep(c)
      PROVE  UNCHANGED scan
  BY <1>2, QueryStore
<1>3. QED
  BY <1>1, <1>2 DEF QNext, QueriesInv, WrittenAllocated, Allocated

\* What SCAN may return beside what is there was written.
LEMMA WasWrittenIs ==
  ASSUME QueriesInv, TypeOK, NEW f \in FileIds, WasWritten(f)
  PROVE  Written(f)
<1>1. PICK s \in Scanners : f \in IdRange(scan[s].base, scan[s].written)
  BY DEF WasWritten
<1>2. scan[s].base \in Nat /\ scan[s].written \in Nat
  BY ScanNats
<1>3. scan[s].written # 0
  BY <1>1, <1>2 DEF IdRange
<1>4. QED
  BY <1>1, <1>3 DEF QueriesInv, WrittenAllocated, Wrote, Written

\* A record that is there is as it was: no other file takes an id again.
LEMMA RecordStays ==
  ASSUME IInv, [Next]_vars, NEW f \in FileIds, Written(f)
  PROVE  FileKept(f)
<1>1. ASSUME NEW c \in Scanners, WriteFile(c)
      PROVE  FileKept(f)
  <2>1. pc[c] = "hmset_file"
    BY <1>1 DEF WriteFile, At
  <2>2. f # scan[c].base + scan[c].written
    BY <2>1, NextFileFresh DEF Written
  <2>3. files' = [files EXCEPT ![scan[c].base + scan[c].written] =
                    [group |-> scan[c].group,
                     hash  |-> scan[c].disc[scan[c].written + 1],
                     tags  |-> @.tags]]
    BY <1>1 DEF WriteFile, HMSetFile
  <2>4. files'[f] = files[f]
    BY <2>2, <2>3 DEF IInv, TypeOK, StoreTypeOK
  <2>5. QED
    BY <2>4 DEF FileKept, FileExists
<1>2. ASSUME UNCHANGED files
      PROVE  FileKept(f)
  BY <1>2 DEF FileKept, FileExists
<1>3. CASE \E c \in Scanners : SAddHash(c)
  BY <1>2, <1>3 DEF SAddHash
<1>4. CASE \E d \in Deleters : RunHash(d)
  BY <1>2, <1>4 DEF RunHash
<1>5. QED
  BY <1>1, <1>3, <1>4, OtherStepsFound

\* The same of any step.
LEMMA IdsKept ==
  ASSUME IInv, QueriesInv, [QNext]_queryVars, NEW f \in FileIds, Written(f)
  PROVE  Written(f)' /\ FileKept(f)
<1>1. CASE BackendStep \/ UNCHANGED queryVars
  BY <1>1, BackendIsNext, WrittenStays, RecordStays DEF queryVars
<1>2. ASSUME NEW c \in Taggers, GlobStep(c) \/ LocateStep(c)
      PROVE  Written(f)' /\ FileKept(f)
  <2>1. UNCHANGED scan
    BY <1>2, QueryStore
  <2>2. Written(f)'
    BY <2>1 DEF Written, Wrote, Allocated
  <2>3. UNCHANGED files \/ \E k, ts : files' = [files EXCEPT ![k].tags = ts]
    <3>1. CASE RunGlobScript(c)
      <4>1. PICK t \in glob[c].work :
              \/ TagIfInSet(t, glob[c].cur, glob[c].owner)
              \/ DeleTagIfInSet(t, glob[c].cur, glob[c].owner)
              \/ UNCHANGED <<files, tags>>
        BY <3>1, GlobScriptFacts DEF QueriesInv
      <4>2. QED
        BY <4>1 DEF TagIfInSet, DeleTagIfInSet
    <3>2. QED
      BY <1>2, <3>1, QueryStore
  <2>4. ASSUME NEW k, NEW ts, files' = [files EXCEPT ![k].tags = ts]
        PROVE  FileKept(f)
    <3>1. files \in [FileIds -> [group : 0 .. MaxSets, hash : Hashes \cup {NoHash},
                                 tags : SUBSET Tags]]
      BY DEF IInv, TypeOK, StoreTypeOK
    <3>2. files'[f].group = files[f].group /\ files'[f].hash = files[f].hash
      BY <2>4, <3>1
    <3>3. QED
      BY <3>2 DEF FileKept, FileExists
  <2>5. QED
    BY <2>2, <2>3, <2>4 DEF FileKept, FileExists
<1>3. QED
  BY <1>1, <1>2 DEF QNext

\* A confirmed deletion goes on, whatever step is taken.
LEMMA DeletionsGoOn ==
  ASSUME IInv, [QNext]_queryVars
  PROVE  ConfirmedGoOn
<1>1. CASE BackendStep \/ UNCHANGED queryVars
  BY <1>1, BackendIsNext, ConfirmedSets DEF queryVars
<1>2. ASSUME NEW c \in Taggers, GlobStep(c) \/ LocateStep(c)
      PROVE  ConfirmedGoOn
  <2>1. UNCHANGED dele /\ pc' = [pc EXCEPT ![c] = pc'[c]]
    BY <1>2, QueryStore, QueryPc DEF IInv
  <2>2. \A d \in Deleters : pc'[d] = pc[d]
    BY <2>1, TaggerFacts DEF IInv, TypeOK, Clients, Editors
  <2>3. QED
    BY <2>1, <2>2 DEF ConfirmedGoOn
<1>3. QED
  BY <1>1, <1>2 DEF QNext

\* A file whose set is being deleted stays that, as long as it is there.
LEMMA DeletingStays ==
  ASSUME IInv, QueriesInv, [QNext]_queryVars,
         NEW f \in FileIds, Written(f), FileExists(f)', Deleting(f)
  PROVE  Deleting(f)'
BY IdsKept, DeletionsGoOn DEF Deleting, ConfirmedGoOn, FileKept

\* A file leaves the index of its hash only when its set is being deleted.
LEMMA IndexKept ==
  ASSUME IInv, QueriesInv, [QNext]_queryVars,
         NEW f \in FileIds, FileExists(f), f \in hashes[files[f].hash]
  PROVE  f \in hashes'[files[f].hash] \/ Deleting(f)'
<1>1. ConfirmedGoOn
  BY DeletionsGoOn
<1>2. CASE \E d \in Deleters : RunHash(d)
  BY <1>1, <1>2, RunHashKeeps
<1>3. ASSUME NEW c \in Scanners, SAddHash(c)
      PROVE  f \in hashes'[files[f].hash]
  <2>1. \E h, k : hashes' = [hashes EXCEPT ![h] = @ \cup {k}]
    BY <1>3 DEF SAddHash
  <2>2. hashes \in [Hashes -> SUBSET FileIds]
    BY DEF IInv, TypeOK, StoreTypeOK
  <2>3. QED
    BY <2>1, <2>2
<1>4. CASE \E c \in Scanners : WriteFile(c)
  BY <1>4 DEF WriteFile
<1>5. CASE /\ BackendStep \/ UNCHANGED queryVars
           /\ \A c \in Scanners : ~ WriteFile(c) /\ ~ SAddHash(c)
           /\ \A d \in Deleters : ~ RunHash(d)
  BY <1>5, BackendIsNext, OtherStepsFound DEF queryVars
<1>6. ASSUME NEW c \in Taggers, GlobStep(c) \/ LocateStep(c)
      PROVE  UNCHANGED hashes
  BY <1>6, QueryStore
<1>7. QED
  BY <1>2, <1>3, <1>4, <1>5, <1>6 DEF QNext

\* A file that is there was written.
LEMMA ExistsWritten ==
  ASSUME IInv, NEW f \in FileIds, FileExists(f)
  PROVE  Written(f)
BY DEF IInv, FilesHaveWriters, Written

-----------------------------------------------------------------------------
(* Processes between their steps.                                          *)

\* The backend connects a tagger, and leaves one that is connected alone.
LEMMA TaggersElsewhere ==
  ASSUME IInv, BackendStep \/ UNCHANGED queryVars, NEW c \in Taggers
  PROVE  /\ err'[c] = err[c]
         /\ pc[c] \notin Connecting => pc'[c] = pc[c]
         /\ pc[c] \in Connecting => pc'[c] \in Connecting \cup {"start"}
<1> USE DEF store, vars, queryVars, At, Goto, Connecting
<1>0. /\ pc \in [Clients -> Labels] /\ err \in [Clients -> BOOLEAN]
      /\ c \in Clients /\ c \notin Scanners /\ c \notin Deleters
      /\ \A d \in Scanners \cup Deleters : d \in Clients
  BY TaggerFacts DEF IInv, TypeOK, Clients, Editors
<1>1. ASSUME NEW d \in Scanners \cup Deleters,
             UNCHANGED pc \/ \E l : pc' = [pc EXCEPT ![d] = l],
             UNCHANGED err \/ err' = [err EXCEPT ![d] = TRUE]
      PROVE  pc'[c] = pc[c] /\ err'[c] = err[c]
  BY <1>0, <1>1
<1>2. ASSUME NEW d \in Scanners, ScanStep(d)
      PROVE  pc'[c] = pc[c] /\ err'[c] = err[c]
  <2>1. UNCHANGED err /\ \E l : pc' = [pc EXCEPT ![d] = l]
    BY <1>2 DEF ScanStep, ConnectStep, Connect, LoadScripts, LoadScript,
      SRandMember, HScanFile, HScanSet, IncrSet, IncrFiles, HMSetSet,
      WriteFile, SAddHash, ZAddLevel
  <2>2. QED
    BY <1>1, <2>1
<1>3. ASSUME NEW d \in Deleters, DeleteStep(d)
      PROVE  pc'[c] = pc[c] /\ err'[c] = err[c]
  <2>1. /\ UNCHANGED pc \/ \E l : pc' = [pc EXCEPT ![d] = l]
        /\ UNCHANGED err \/ err' = [err EXCEPT ![d] = TRUE]
    BY <1>3 DEF DeleteStep, ConnectStep, Connect, LoadScripts, LoadScript,
      GetTags, RunTagScript, StartDelete, ConfirmRead, Refuse, Confirm,
      StartUntag, NextUntag, NextSet, GetHash, RunHash, DelSet, DelLevels,
      DelFiles, EndDelete
  <2>2. QED
    BY <1>1, <2>1
<1>4. ASSUME NEW d \in Taggers, ConnectStep(d)
      PROVE  /\ err'[c] = err[c]
             /\ pc[c] \notin Connecting => pc'[c] = pc[c]
             /\ pc[c] \in Connecting => pc'[c] \in Connecting \cup {"start"}
  <2>1. /\ UNCHANGED err /\ pc[d] \in Connecting
        /\ \E l \in Connecting \cup {"start"} : pc' = [pc EXCEPT ![d] = l]
    BY <1>4, TaggerFacts DEF ConnectStep, Connect, LoadScripts, LoadScript
  <2>2. QED
    BY <1>0, <2>1
<1>5. CASE Terminated \/ UNCHANGED queryVars
  BY <1>5 DEF Terminated
<1>6. QED
  BY <1>2, <1>3, <1>4, <1>5 DEF BackendStep

\* What a deletion is to clear, for one deletion.
ClearOK(d) ==
  /\ edit[d].mode = "clear"
  /\ pc[d] \in {"get_tags", "run_tags"} =>
       \E r \in dele[d].ranges : edit[d].owner = r.group

\* A deletion moves on with what it clears, or to another of its sets.
LEMMA ClearStep ==
  ASSUME IInv, ConfirmedGoOn, NEW d \in Deleters, ClearOK(d), DeleteStep(d)
  PROVE  ClearOK(d)'
<1> USE DEF store, vars, At, Goto
<1>0. /\ d \in Editors /\ d \in Clients /\ pc \in [Clients -> Labels]
      /\ edit \in [Editors -> EditLocals] /\ edit[d] \in EditLocals
      /\ dele \in [Deleters -> DeleLocals] /\ dele[d] \in DeleLocals
      /\ RangesOK(d)
  BY DeleterFacts
<1>1. ASSUME pc[d] \in {"get_tags", "run_tags"},
             edit'[d].mode = edit[d].mode, edit'[d].owner = edit[d].owner
      PROVE  ClearOK(d)'
  BY <1>1 DEF ClearOK, ConfirmedGoOn, BeforeConfirm
<1>2. ASSUME pc'[d] \notin {"get_tags", "run_tags"},
             edit'[d].mode = edit[d].mode
      PROVE  ClearOK(d)'
  BY <1>2 DEF ClearOK
<1>3. ASSUME NEW r \in dele[d].ranges, StartUntag(d, r),
             dele'[d].ranges = dele[d].ranges
      PROVE  ClearOK(d)'
  <2>1. edit'[d].mode = "clear" /\ edit'[d].owner = r.group
    BY <1>0, <1>3 DEF StartUntag
  <2>2. QED
    BY <1>3, <2>1 DEF ClearOK
<1>4. CASE GetTags(d) \/ RunTagScript(d)
  <2>1. /\ pc[d] \in {"get_tags", "run_tags"}
        /\ \/ \E x, y, z : edit' = [edit EXCEPT ![d].reads = x, ![d].seen = y,
                                                ![d].work = z]
           \/ \E z : edit' = [edit EXCEPT ![d].work = z]
    BY <1>4 DEF GetTags, RunTagScript
  <2>2. edit'[d].mode = edit[d].mode /\ edit'[d].owner = edit[d].owner
    <3>1. ASSUME NEW x, NEW y, NEW z,
                 edit' = [edit EXCEPT ![d].reads = x, ![d].seen = y, ![d].work = z]
          PROVE  edit'[d].mode = edit[d].mode /\ edit'[d].owner = edit[d].owner
      BY <1>0, <3>1 DEF EditLocals
    <3>2. ASSUME NEW z, edit' = [edit EXCEPT ![d].work = z]
          PROVE  edit'[d].mode = edit[d].mode /\ edit'[d].owner = edit[d].owner
      BY <1>0, <3>2 DEF EditLocals
    <3>3. QED
      BY <2>1, <3>1, <3>2
  <2>3. QED
    BY <1>1, <2>1, <2>2
<1>5. CASE NextSet(d) \/ GetHash(d)
  <2>1. PICK x : edit' = [edit EXCEPT ![d].reads = x]
    BY <1>5 DEF NextSet, GetHash
  <2>2. edit'[d].mode = edit[d].mode
    BY <1>0, <2>1 DEF EditLocals
  <2>3. pc'[d] \notin {"get_tags", "run_tags"}
    BY <1>0, <1>5 DEF NextSet, GetHash
  <2>4. QED
    BY <1>2, <2>2, <2>3
<1>6. CASE Confirm(d)
  <2>1. PICK r \in dele[d].ranges : /\ StartUntag(d, r)
                                    /\ dele' = [dele EXCEPT ![d].left = dele[d].ranges \ {r}]
    BY <1>6 DEF Confirm
  <2>2. dele'[d].ranges = dele[d].ranges
    BY <1>0, <2>1 DEF DeleLocals
  <2>3. QED
    BY <1>3, <2>1, <2>2
<1>7. CASE NextUntag(d)
  <2>1. CASE /\ UNCHANGED edit
             /\ \E l \in {"failed", "del_files"} : pc' = [pc EXCEPT ![d] = l]
    BY <1>0, <1>2, <2>1
  <2>2. ASSUME NEW r \in dele[d].left, StartUntag(d, r),
               dele' = [dele EXCEPT ![d].left = @ \ {r}]
        PROVE  ClearOK(d)'
    <3>1. r \in dele[d].ranges
      BY <1>0 DEF RangesOK
    <3>2. dele'[d].ranges = dele[d].ranges
      BY <1>0, <2>2 DEF DeleLocals
    <3>3. QED
      BY <1>3, <2>2, <3>1, <3>2
  <2>3. QED
    BY <1>7, <2>1, <2>2 DEF NextUntag
<1>8. CASE \/ ConnectStep(d) \/ StartDelete(d) \/ ConfirmRead(d) \/ Refuse(d)
           \/ RunHash(d) \/ DelSet(d) \/ DelLevels(d) \/ DelFiles(d) \/ EndDelete(d)
  <2>1. /\ UNCHANGED edit
        /\ pc'[d] \notin {"get_tags", "run_tags"}
    BY <1>0, <1>8 DEF ConnectStep, Connect, LoadScripts, LoadScript, StartDelete,
      ConfirmRead, Refuse, RunHash, DelSet, DelLevels, DelFiles, EndDelete
  <2>2. QED
    BY <1>2, <2>1
<1>9. QED
  BY <1>4, <1>5, <1>6, <1>7, <1>8 DEF DeleteStep

\* Deletions only take tags, of their own sets.
LEMMA ClearKept ==
  ASSUME IInv, QueriesInv, [QNext]_queryVars
  PROVE  DeletersClear'
<1> SUFFICES ASSUME NEW d \in Deleters
             PROVE  ClearOK(d)'
  BY DEF DeletersClear, ClearOK
<1> USE DEF store, vars, queryVars, At, Goto
<1>0. /\ ClearOK(d) /\ ConfirmedGoOn
      /\ pc \in [Clients -> Labels] /\ edit \in [Editors -> EditLocals]
      /\ dele \in [Deleters -> DeleLocals]
      /\ d \in Editors /\ d \in Clients /\ d \notin Scanners /\ d \notin Taggers
  BY DeletionsGoOn, DeleterFacts
  DEF QueriesInv, DeletersClear, ClearOK, IInv, TypeOK, Clients, Editors
<1>1. ASSUME edit'[d] = edit[d], pc'[d] = pc[d], dele'[d] = dele[d]
      PROVE  ClearOK(d)'
  BY <1>0, <1>1 DEF ClearOK
<1>2. ASSUME NEW c \in Scanners, ScanStep(c)
      PROVE  ClearOK(d)'
  <2>1. UNCHANGED <<edit, dele>> /\ \E l : pc' = [pc EXCEPT ![c] = l]
    BY <1>2 DEF ScanStep, ConnectStep, Connect, LoadScripts, LoadScript,
      SRandMember, HScanFile, HScanSet, IncrSet, IncrFiles, HMSetSet,
      WriteFile, SAddHash, ZAddLevel
  <2>2. QED
    BY <1>0, <1>1, <2>1
<1>3. ASSUME NEW c \in Taggers, ConnectStep(c)
      PROVE  ClearOK(d)'
  <2>1. UNCHANGED <<edit, dele>> /\ \E l : pc' = [pc EXCEPT ![c] = l]
    BY <1>3 DEF ConnectStep, Connect, LoadScripts, LoadScript
  <2>2. QED
    BY <1>0, <1>1, <2>1
<1>4. ASSUME NEW c \in Deleters, DeleteStep(c), c # d
      PROVE  ClearOK(d)'
  <2>1. edit'[d] = edit[d] /\ dele'[d] = dele[d]
    <3>1. CASE \/ ConnectStep(c) \/ StartDelete(c) \/ ConfirmRead(c) \/ Refuse(c)
               \/ Confirm(c) \/ GetTags(c) \/ RunTagScript(c) \/ NextUntag(c)
      BY <1>0, <1>4, <3>1 DEF ConnectStep, Connect, LoadScripts, LoadScript,
        StartDelete, ConfirmRead, Refuse, Confirm, StartUntag, GetTags,
        RunTagScript, NextUntag
    <3>2. CASE \/ NextSet(c) \/ GetHash(c) \/ RunHash(c) \/ DelSet(c)
               \/ DelLevels(c) \/ DelFiles(c) \/ EndDelete(c)
      BY <1>0, <1>4, <3>2 DEF NextSet, GetHash, RunHash, DelSet, DelLevels,
        DelFiles, EndDelete
    <3>3. QED
      BY <1>4, <3>1, <3>2 DEF DeleteStep
  <2>2. UNCHANGED pc \/ \E l : pc' = [pc EXCEPT ![c] = l]
    BY <1>4 DEF DeleteStep, ConnectStep, Connect, LoadScripts, LoadScript,
      GetTags, RunTagScript, StartDelete, ConfirmRead, Refuse, Confirm,
      StartUntag, NextUntag, NextSet, GetHash, RunHash, DelSet, DelLevels,
      DelFiles, EndDelete
  <2>3. QED
    BY <1>0, <1>1, <1>4, <2>1, <2>2
<1>5. ASSUME NEW c \in Taggers, GlobStep(c) \/ LocateStep(c)
      PROVE  ClearOK(d)'
  BY <1>0, <1>1, <1>5, QueryStore, QueryPc DEF IInv
<1>6. CASE Terminated \/ UNCHANGED queryVars
  BY <1>1, <1>6 DEF Terminated
<1>7. QED
  BY <1>0, <1>2, <1>3, <1>4, <1>5, <1>6, ClearStep DEF QNext, BackendStep

-----------------------------------------------------------------------------
(* What steps do to tags.                                                  *)

\* The backend only clears tags of sets being deleted.
LEMMA BackendTags ==
  ASSUME IInv, QueriesInv, BackendStep \/ UNCHANGED queryVars,
         NEW f \in FileIds, FileExists(f), FileExists(f)'
  PROVE  \/ files'[f].tags = files[f].tags
         \/ files'[f].tags \subseteq files[f].tags /\ Deleting(f)
<1>1. [Next]_vars
  BY BackendIsNext DEF queryVars
<1>2. ASSUME NEW c \in Taggers
      PROVE  ~ RunTagScript(c)
  BY DEF QueriesInv, OneRequest, RunTagScript, At, Connecting
<1>3. ASSUME NEW d \in Deleters, RunTagScript(d), files'[f].tags # files[f].tags
      PROVE  files'[f].tags \subseteq files[f].tags /\ Deleting(f)
  <2>1. PICK r \in dele[d].ranges : edit[d].owner = r.group
    BY <1>3 DEF QueriesInv, DeletersClear, RunTagScript, At
  <2>2. edit[d].mode = "clear" /\ pc[d] = "run_tags"
    BY <1>3 DEF QueriesInv, DeletersClear, RunTagScript, At
  <2>3. PICK p \in edit[d].work :
          DeleTagIfInSet(p[2], p[1], edit[d].owner) \/ UNCHANGED <<files, tags>>
    BY <1>3, <2>2 DEF RunTagScript
  <2>4. /\ MatchesOwner(p[1], edit[d].owner)
        /\ files' = [files EXCEPT ![p[1]].tags = @ \ {p[2]}]
    BY <1>3, <2>3 DEF DeleTagIfInSet
  <2>5. files \in [FileIds -> [group : 0 .. MaxSets, hash : Hashes \cup {NoHash},
                              tags : SUBSET Tags]]
    BY DEF IInv, TypeOK, StoreTypeOK
  <2>6. f = p[1] /\ files'[f].tags \subseteq files[f].tags
    BY <1>3, <2>4, <2>5
  <2>7. Deleting(f)
    BY <2>1, <2>2, <2>4, <2>6 DEF Deleting, BeforeConfirm, MatchesOwner
  <2>8. QED
    BY <2>6, <2>7
<1>4. QED
  BY <1>1, <1>2, <1>3, TagsOnlyByScripts DEF Editors

\* A query gives or takes only what it was asked to, of files that match.
LEMMA QueryTags ==
  ASSUME IInv, QueriesInv, NEW c \in Taggers, GlobStep(c) \/ LocateStep(c),
         NEW f \in FileIds, FileExists(f), FileExists(f)', NEW t \in Tags
  PROVE  /\ t \in files'[f].tags \ files[f].tags => Acts(c, "add", f, t)
         /\ t \in files[f].tags \ files'[f].tags => Acts(c, "dele", f, t)
<1> SUFFICES ASSUME RunGlobScript(c)
             PROVE  /\ t \in files'[f].tags \ files[f].tags => Acts(c, "add", f, t)
                    /\ t \in files[f].tags \ files'[f].tags => Acts(c, "dele", f, t)
  BY QueryStore
<1> DEFINE k == glob[c].cur
<1>1. PICK u \in glob[c].work :
        /\ k \in FileIds /\ u \in Tags
        /\ \/ glob[c].mode = "add" /\ TagIfInSet(u, k, glob[c].owner)
           \/ glob[c].mode = "dele" /\ DeleTagIfInSet(u, k, glob[c].owner)
           \/ UNCHANGED <<files, tags>>
  BY GlobScriptFacts DEF QueriesInv
<1>2. u \in glob[c].tags /\ (FileExists(k) => files[k].hash \in glob[c].pattern)
  BY <1>1 DEF QueriesInv, WorkMatches
<1>3. files \in [FileIds -> [group : 0 .. MaxSets, hash : Hashes \cup {NoHash},
                            tags : SUBSET Tags]]
  BY DEF IInv, TypeOK, StoreTypeOK
<1>4. CASE UNCHANGED files
  BY <1>4
<1>5. CASE /\ glob[c].mode = "add" /\ MatchesOwner(k, glob[c].owner)
           /\ files' = [files EXCEPT ![k].tags = @ \cup {u}]
  BY <1>1, <1>2, <1>3, <1>5 DEF Acts, MatchesOwner
<1>6. CASE /\ glob[c].mode = "dele" /\ MatchesOwner(k, glob[c].owner)
           /\ files' = [files EXCEPT ![k].tags = @ \ {u}]
  BY <1>1, <1>2, <1>3, <1>6 DEF Acts, MatchesOwner
<1>7. QED
  BY <1>1, <1>4, <1>5, <1>6 DEF TagIfInSet, DeleTagIfInSet

\* Everything that a step does to the tags of a file that stays.
LEMMA TagChanges ==
  ASSUME IInv, QueriesInv, [QNext]_queryVars,
         NEW f \in FileIds, FileExists(f), FileExists(f)', NEW t \in Tags
  PROVE  /\ t \in files'[f].tags \ files[f].tags =>
              \E c \in Taggers : Acts(c, "add", f, t)
         /\ t \in files[f].tags \ files'[f].tags =>
              (\E c \in Taggers : Acts(c, "dele", f, t)) \/ Deleting(f)
BY BackendTags, QueryTags DEF QNext

-----------------------------------------------------------------------------
(* What stays true while others take steps.                                *)

\* A query leaves the locals of the others alone.
LEMMA LocalsElsewhere ==
  ASSUME QueriesTypeOK, NEW c \in Taggers, GlobStep(c) \/ LocateStep(c),
         NEW d \in Taggers, d # c
  PROVE  cursor'[d] = cursor[d] /\ glob'[d] = glob[d] /\ find'[d] = find[d]
<1>1. /\ cursor \in [Taggers -> CursorLocals]
      /\ glob \in [Taggers -> GlobLocals]
      /\ find \in [Taggers -> FindLocals]
  BY DEF QueriesTypeOK
<1>2. CASE GlobStep(c)
  BY <1>1, <1>2 DEF GlobStep, StartGlob, NextKey, HGetPath, RunGlobScript, EndKey,
    HMGetTags, EndGlob, OpenScan, Yield
<1>3. CASE StartLocate(c) \/ QueueKey(c) \/ HMGetFile(c) \/ Flush(c) \/ EndLocate(c)
  BY <1>1, <1>3 DEF StartLocate, QueueKey, HMGetFile, Flush, EndLocate,
    OpenScan, Yield
<1>4. CASE StartByHash(c) \/ SMembers(c) \/ EndMembers(c) \/ EndByHash(c)
  BY <1>1, <1>4 DEF StartByHash, SMembers, EndMembers, EndByHash
<1>5. QED
  BY <1>2, <1>3, <1>4 DEF LocateStep

\* The request of tag --globs does not change once it was read.
LEMMA RequestStays ==
  ASSUME QueriesTypeOK, [QNext]_queryVars, NEW d \in Taggers, glob[d].at # "idle"
  PROVE  /\ glob'[d].at # "idle"
         /\ glob'[d].mode = glob[d].mode /\ glob'[d].pattern = glob[d].pattern
         /\ glob'[d].owner = glob[d].owner /\ glob'[d].tags = glob[d].tags
<1>1. glob \in [Taggers -> GlobLocals] /\ glob[d] \in GlobLocals
  BY DEF QueriesTypeOK
<1>2. CASE BackendStep \/ UNCHANGED queryVars
  BY <1>2 DEF BackendStep, queryVars
<1>3. ASSUME NEW c \in Taggers, GlobStep(c) \/ LocateStep(c), c # d
      PROVE  glob'[d] = glob[d]
  BY <1>3, LocalsElsewhere
<1>4. CASE GlobStep(d)
  <2> DEFINE Same == /\ glob'[d].at # "idle"
                     /\ glob'[d].mode = glob[d].mode
                     /\ glob'[d].pattern = glob[d].pattern
                     /\ glob'[d].owner = glob[d].owner
                     /\ glob'[d].tags = glob[d].tags
  <2>1. ASSUME StartGlob(d)
        PROVE  FALSE
    BY <2>1 DEF StartGlob, Unasked
  <2>2. CASE NextKey(d)
    <3>1. PICK k : glob' = [glob EXCEPT ![d].at = "hget", ![d].cur = k]
      BY <2>2 DEF NextKey
    <3>2. QED
      BY <1>1, <3>1 DEF GlobLocals
  <2>3. CASE HGetPath(d)
    <3>1. PICK w : glob' = [glob EXCEPT ![d].at = "run", ![d].work = w]
      BY <2>3 DEF HGetPath
    <3>2. QED
      BY <1>1, <3>1 DEF GlobLocals
  <2>4. CASE RunGlobScript(d)
    <3>1. PICK t : glob' = [glob EXCEPT ![d].work = @ \ {t}]
      BY <2>4 DEF RunGlobScript
    <3>2. QED
      BY <1>1, <3>1 DEF GlobLocals
  <2>5. CASE EndKey(d) \/ HMGetTags(d) \/ EndGlob(d)
    <3>1. PICK a \in {"scan", "ended"} : glob' = [glob EXCEPT ![d].at = a]
      BY <2>5 DEF EndKey, HMGetTags, EndGlob
    <3>2. QED
      BY <1>1, <3>1 DEF GlobLocals
  <2>6. QED
    BY <1>4, <2>1, <2>2, <2>3, <2>4, <2>5 DEF GlobStep
<1>5. CASE LocateStep(d)
  BY <1>5 DEF LocateStep, StartLocate, QueueKey, HMGetFile, Flush, EndLocate,
    StartByHash, SMembers, EndMembers, EndByHash
<1>6. QED
  BY <1>2, <1>3, <1>4, <1>5 DEF QNext

\* Who gives or takes a tag of a file goes on doing so.
LEMMA ActsStay ==
  ASSUME IInv, QueriesInv, [QNext]_queryVars, NEW d \in Taggers, NEW m,
         NEW f \in FileIds, Written(f), FileExists(f)', NEW t, Acts(d, m, f, t)
  PROVE  Acts(d, m, f, t)'
<1>1. glob[d].at # "idle"
  BY DEF QueriesInv, OneRequest, Acts
<1>2. /\ glob'[d].mode = glob[d].mode /\ glob'[d].pattern = glob[d].pattern
      /\ glob'[d].owner = glob[d].owner /\ glob'[d].tags = glob[d].tags
  BY <1>1, RequestStays DEF QueriesInv
<1>3. files'[f].group = files[f].group /\ files'[f].hash = files[f].hash
  BY IdsKept DEF FileKept
<1>4. QED
  BY <1>2, <1>3 DEF Acts

\* A file with its tag has it until somebody is to take it.
LEMMA ReachedStays ==
  ASSUME IInv, QueriesInv, [QNext]_queryVars, NEW c \in Taggers,
         glob[c].mode = "add",
         NEW f \in FileIds, Written(f), FileExists(f)', NEW t \in Tags,
         Reached(c, f, t)
  PROVE  Reached(c, f, t)'
<1>1. FileExists(f)
  BY IdsKept DEF FileKept
<1>2. CASE Deleting(f)
  BY <1>2, DeletingStays DEF Reached
<1>3. CASE \E d \in Taggers \ {c} : Acts(d, "dele", f, t)
  BY <1>3, ActsStay DEF Reached
<1>4. CASE t \in files[f].tags /\ t \notin files'[f].tags
  <2>1. \A d \in Taggers : Acts(d, "dele", f, t) => d # c
    BY DEF Acts
  <2>2. QED
    BY <1>1, <1>2, <1>3, <1>4, <2>1, TagChanges
<1>5. CASE t \in files'[f].tags
  BY <1>5 DEF Reached
<1>6. QED
  BY <1>2, <1>3, <1>4, <1>5 DEF Reached

-----------------------------------------------------------------------------
(* What QueriesInv says of one process, and what others leave of it.       *)

RowsTrue(c) == \A r \in find[c].rows : Agrees(r.id, r.group, r.hash)

TaggerOK(c) ==
  /\ OneRequest(c) /\ SeenWritten(c) /\ RowsTrue(c)
  /\ RepliesTrue(c) /\ WorkMatches(c)
  /\ GlobProgress(c) /\ WalkProgress(c) /\ ByHashProgress(c)

\* QueriesInv is about the store, and then about each process.
LEMMA TaggersOK ==
  QueriesInv <=> /\ QueriesTypeOK /\ WrittenAllocated /\ DeletersClear
                 /\ \A c \in Taggers : TaggerOK(c)
BY DEF QueriesInv, TaggerOK, RowsTrue, LocatedRowsTrue, Agrees

\* What was read of an id stays true of it.
LEMMA AgreesStays ==
  ASSUME IInv, QueriesInv, [QNext]_queryVars,
         NEW f, Written(f), NEW g, NEW h, Agrees(f, g, h)
  PROVE  Agrees(f, g, h)'
<1>1. f \in FileIds
  BY WrittenId
<1>2. FileKept(f)
  BY <1>1, IdsKept
<1>3. QED
  BY <1>2 DEF FileKept, Agrees

\* What a process has come by stays written, and true.
LEMMA SeenStays ==
  ASSUME IInv, QueriesInv, [QNext]_queryVars, NEW f, Written(f)
  PROVE  f \in FileIds /\ Written(f)' /\ FileKept(f)
BY WrittenId, IdsKept

\* The scripts of a file that matched are still about one that matches.
LEMMA GlobFrame ==
  ASSUME IInv, QueriesInv, [QNext]_queryVars, NEW c \in Taggers,
         glob'[c] = glob[c],
         \/ glob[c].at = "idle"
         \/ pc'[c] = pc[c] /\ err'[c] = err[c] /\ cursor'[c] = cursor[c]
  PROVE  WorkMatches(c)' /\ GlobProgress(c)'
<1>1. TaggerOK(c)
  BY TaggersOK
<1>2. CASE glob[c].at = "idle"
  BY <1>1, <1>2 DEF TaggerOK, WorkMatches, GlobProgress
<1>3. CASE glob[c].at # "idle"
  <2>1. pc'[c] = pc[c] /\ err'[c] = err[c] /\ cursor'[c] = cursor[c]
    BY <1>3
  <2>2. WorkMatches(c)'
    <3>1. CASE glob[c].work # {}
      <4>1. Written(glob[c].cur)
        BY <1>1, <3>1 DEF TaggerOK, SeenWritten, WorkMatches
      <4>2. FileKept(glob[c].cur)
        BY <4>1, SeenStays
      <4>3. QED
        BY <1>1, <4>2 DEF TaggerOK, WorkMatches, FileKept
    <3>2. QED
      BY <1>1, <3>1 DEF TaggerOK, WorkMatches
  <2>3. GlobProgress(c)'
    <3>1. SUFFICES ASSUME glob[c].mode = "add", ~err[c], pc[c] # "failed",
                          NEW f \in Targets(c)',
                          ~ (glob[c].at # "ended" /\ f \in cursor[c].must),
                          ~ (glob[c].at = "hget" /\ f = glob[c].cur),
                          NEW t \in glob[c].tags,
                          ~ (/\ glob[c].at = "run" /\ f = glob[c].cur
                             /\ t \in glob[c].work)
                   PROVE  Reached(c, f, t)'
      BY <2>1 DEF GlobProgress
    <3>2. f \in FileIds /\ Written(f) /\ FileExists(f)' /\ FileKept(f)
      BY <1>1, <2>1, <3>1, SeenStays DEF Targets, TaggerOK, SeenWritten
    <3>3. f \in Targets(c)
      BY <2>1, <3>1, <3>2 DEF Targets, FileKept
    <3>4. Reached(c, f, t)
      BY <1>1, <1>3, <3>1, <3>3 DEF TaggerOK, GlobProgress
    <3>5. t \in Tags
      BY <3>1 DEF QueriesInv, QueriesTypeOK, GlobLocals
    <3>6. QED
      BY <3>1, <3>2, <3>4, <3>5, ReachedStays
  <2>4. QED
    BY <2>2, <2>3
<1>4. QED
  BY <1>2, <1>3

\* The hashes asked for stay answered or pending, and those that are added
\* are pending.
LEMMA AskingKept ==
  ASSUME NEW c, NEW asked, NEW more, Asking(c, asked), more \subseteq Pending(c)',
         \A h : Covered(c, h) => Covered(c, h)',
         \A h : NoResult(c, h)' => NoResult(c, h),
         \A h \in Pending(c) :
           \/ h \in Pending(c)'
           \/ Covered(c, h)' /\ (NoResult(c, h)' => Inside[h] \subseteq more)
  PROVE  Asking(c, asked \cup more)'
BY DEF Asking

\* What a search was told stays true, and what it has to report remains so.
LEMMA FindFrame ==
  ASSUME IInv, QueriesInv, [QNext]_queryVars, NEW c \in Taggers,
         find'[c] = find[c],
         \/ find[c].at = "idle"
         \/ pc'[c] = pc[c] /\ cursor'[c] = cursor[c]
  PROVE  /\ RowsTrue(c)' /\ RepliesTrue(c)'
         /\ WalkProgress(c)' /\ ByHashProgress(c)'
<1>1. TaggerOK(c)
  BY TaggersOK
<1>2. CASE find[c].at = "idle"
  <2>1. /\ find[c].root = NoHash /\ find[c].rows = {}
        /\ find[c].burst = <<>> /\ find[c].replies = <<>>
    BY <1>1, <1>2 DEF TaggerOK, OneRequest
  <2>2. QED
    BY <1>2, <2>1 DEF RowsTrue, RepliesTrue, WalkProgress, ByHashProgress
<1>3. CASE find[c].at # "idle"
  <2>1. pc'[c] = pc[c] /\ cursor'[c] = cursor[c]
    BY <1>3
  <2>2. RowsTrue(c)'
    <3>1. \A r \in find[c].rows : Agrees(r.id, r.group, r.hash)'
      BY <1>1, AgreesStays DEF TaggerOK, SeenWritten, RowsTrue
    <3>2. QED
      BY <3>1 DEF RowsTrue, Agrees, FileExists
  <2>3. RepliesTrue(c)'
    <3>1. find[c].burst \in Seq(FileIds) /\ find[c].replies \in Seq(Replies)
      BY DEF QueriesInv, QueriesTypeOK, FindLocals
    <3>2. /\ Len(find[c].replies) <= Len(find[c].burst)
          /\ find[c].at = "scan" => Len(find[c].burst) <= Prefetch
      BY <1>1 DEF TaggerOK, RepliesTrue
    <3>3. \A i \in DOMAIN find[c].replies : i \in DOMAIN find[c].burst
      BY <3>1, <3>2
    <3>4. \A i \in DOMAIN find[c].replies :
            Agrees(find[c].burst[i], find[c].replies[i].group, find[c].replies[i].hash)'
      BY <1>1, <3>3, AgreesStays DEF TaggerOK, SeenWritten, RepliesTrue
    <3>5. QED
      BY <3>2, <3>4 DEF RepliesTrue, Agrees, FileExists
  <2>4. ASSUME NEW f \in cursor[c].since, FileExists(f)'
        PROVE  /\ f \in FileIds /\ FileExists(f) /\ files'[f].hash = files[f].hash
               /\ Deleting(f) => Deleting(f)'
    BY <1>1, <2>4, SeenStays, DeletingStays DEF TaggerOK, SeenWritten, FileKept
  <2>5. WalkProgress(c)'
    BY <1>1, <2>1, <2>4
    DEF TaggerOK, WalkProgress, Matched, InBurst, Found
  <2>6. ByHashProgress(c)'
    <3>1. SUFFICES ASSUME find[c].root # NoHash
                   PROVE  ByHashProgress(c)'
      BY DEF ByHashProgress
    <3>2. \A f \in cursor[c].since :
            FileExists(f)' => f \in hashes'[files'[f].hash] \/ Deleting(f)'
      BY <1>1, <2>4, <3>1, IndexKept DEF TaggerOK, ByHashProgress
    <3>3. \A h : \A f \in SinceOf(c, h)' : f \in SinceOf(c, h)
      BY <2>1, <2>4 DEF SinceOf
    <3>4. \A h : Covered(c, h) => Covered(c, h)'
      BY <2>1, <2>4, <3>3 DEF Covered, Found, SinceOf
    <3>5. Pending(c)' = Pending(c)
      BY DEF Pending
    <3>6. find[c].at = "members" =>
            \A h \in find[c].pattern :
              /\ \A f \in SinceOf(c, h)' : InBurst(c, f)' \/ Deleting(f)'
              /\ \A i \in DOMAIN find[c].burst : WrittenAs(find[c].burst[i], h)'
      <4>1. SUFFICES ASSUME find[c].at = "members", NEW h \in find[c].pattern
                     PROVE  /\ \A f \in SinceOf(c, h)' : InBurst(c, f)' \/ Deleting(f)'
                            /\ \A i \in DOMAIN find[c].burst :
                                 WrittenAs(find[c].burst[i], h)'
        OBVIOUS
      <4>2. /\ \A f \in SinceOf(c, h) : InBurst(c, f) \/ Deleting(f)
            /\ \A i \in DOMAIN find[c].burst : WrittenAs(find[c].burst[i], h)
        BY <1>1, <3>1, <4>1 DEF TaggerOK, ByHashProgress
      <4>3. \A f \in SinceOf(c, h)' : InBurst(c, f)' \/ Deleting(f)'
        BY <2>1, <2>4, <3>3, <4>2 DEF InBurst, SinceOf
      <4>4. \A i \in DOMAIN find[c].burst : find[c].burst[i] \in FileIds
        BY <1>1, WrittenId DEF TaggerOK, SeenWritten
      <4>5. \A i \in DOMAIN find[c].burst : WrittenAs(find[c].burst[i], h)'
        BY <4>2, <4>4, WrittenAsStays
      <4>6. QED
        BY <4>3, <4>5
    <3>7. \A h : NoResult(c, h)' => NoResult(c, h)
      <4>1. \A r \in find[c].rows : r.id \in FileIds
        BY <1>1, WrittenId DEF TaggerOK, SeenWritten
      <4>2. QED
        BY <4>1, WrittenAsStays DEF NoResult
    <3>8. ASSUME pc[c] # "failed"
          PROVE  \E asked \in SUBSET Hashes : find[c].root \in asked /\ Asking(c, asked)'
      <4>1. PICK asked \in SUBSET Hashes : find[c].root \in asked /\ Asking(c, asked)
        BY <1>1, <3>1, <3>8 DEF TaggerOK, ByHashProgress
      <4>2. Asking(c, asked \cup {})'
        BY <3>4, <3>5, <3>7, <4>1, AskingKept
      <4>3. asked \cup {} = asked
        OBVIOUS
      <4>4. QED
        BY <4>1, <4>2, <4>3
    <3>9. find[c].at = "ended" /\ pc[c] # "failed" => find[c].todo = {}
      BY <1>1, <3>1 DEF TaggerOK, ByHashProgress
    <3>10. QED
      BY <2>1, <3>2, <3>6, <3>8, <3>9 DEF ByHashProgress
  <2>7. QED
    BY <2>2, <2>3, <2>5, <2>6
<1>4. QED
  BY <1>2, <1>3

\* A process that takes no step: its queries go on as they were.
LEMMA OthersOK ==
  ASSUME IInv, QueriesInv, [QNext]_queryVars, NEW c \in Taggers,
         cursor'[c] = cursor[c], glob'[c] = glob[c], find'[c] = find[c],
         err'[c] = err[c],
         \/ pc'[c] = pc[c]
         \/ pc[c] \in Connecting /\ pc'[c] \in Connecting \cup {"start"}
  PROVE  TaggerOK(c)'
<1>1. TaggerOK(c)
  BY TaggersOK
<1>2. pc[c] \in Connecting => glob[c].at = "idle" /\ find[c].at = "idle"
  <2>1. glob[c] \in GlobLocals /\ find[c] \in FindLocals
    BY DEF QueriesInv, QueriesTypeOK
  <2>2. QED
    BY <1>1, <2>1 DEF TaggerOK, OneRequest, Connecting, Ended, GlobLocals, FindLocals
<1>3. WorkMatches(c)' /\ GlobProgress(c)'
  BY <1>2, GlobFrame
<1>4. RowsTrue(c)' /\ RepliesTrue(c)' /\ WalkProgress(c)' /\ ByHashProgress(c)'
  BY <1>2, FindFrame
<1>5. SeenWritten(c)'
  BY <1>1, SeenStays DEF TaggerOK, SeenWritten
<1>6. OneRequest(c)'
  BY <1>1, <1>2 DEF TaggerOK, OneRequest, Ended, Connecting, GlobActive, FindActive
<1>7. QED
  BY <1>3, <1>4, <1>5, <1>6 DEF TaggerOK

\* A process whose query takes no step goes on as it was.
LEMMA ElsewhereOK ==
  ASSUME IInv, QueriesInv, [QNext]_queryVars, NEW c \in Taggers,
         ~ GlobStep(c), ~ LocateStep(c)
  PROVE  TaggerOK(c)'
<1>1. CASE BackendStep \/ UNCHANGED queryVars
  <2>1. cursor' = cursor /\ glob' = glob /\ find' = find
    BY <1>1 DEF BackendStep, queryVars
  <2>2. QED
    BY <1>1, <2>1, TaggersElsewhere, OthersOK
<1>2. ASSUME NEW d \in Taggers, GlobStep(d) \/ LocateStep(d)
      PROVE  TaggerOK(c)'
  <2>1. c # d
    BY <1>2
  <2>2. cursor'[c] = cursor[c] /\ glob'[c] = glob[c] /\ find'[c] = find[c]
    BY <1>2, <2>1, LocalsElsewhere DEF QueriesInv
  <2>3. pc'[c] = pc[c]
    BY <1>2, <2>1, QueryPc, TaggerFacts DEF IInv, TypeOK
  <2>4. UNCHANGED err \/ err' = [err EXCEPT ![d] = TRUE]
    <3>1. CASE RunGlobScript(d)
      BY <3>1 DEF RunGlobScript
    <3>2. QED
      BY <1>2, <3>1, QueryStore
  <2>5. err'[c] = err[c]
    BY <2>1, <2>4, TaggerFacts DEF IInv, TypeOK
  <2>6. QED
    BY <2>2, <2>3, <2>5, OthersOK
<1>3. QED
  BY <1>1, <1>2 DEF QNext

-----------------------------------------------------------------------------
(* The steps of tag --globs.                                               *)

\* Where a process is that takes a step of tag --globs.
LEMMA GlobFacts ==
  ASSUME IInv, QueriesInv, NEW c \in Taggers, GlobStep(c)
  PROVE  /\ [QNext]_queryVars /\ TaggerOK(c)
         /\ pc[c] = "start" /\ c \in Clients
         /\ pc \in [Clients -> Labels] /\ err \in [Clients -> BOOLEAN]
         /\ cursor \in [Taggers -> CursorLocals] /\ cursor[c] \in CursorLocals
         /\ glob \in [Taggers -> GlobLocals] /\ glob[c] \in GlobLocals
         /\ find[c].at = "idle" /\ UNCHANGED find
         /\ find[c].burst = <<>> /\ find[c].rows = {}
<1>1. TaggerOK(c) /\ [QNext]_queryVars
  BY TaggersOK DEF QNext
<1>2. /\ glob[c].at \in GlobActive \/ Unasked(c)
      /\ UNCHANGED find
  BY DEF GlobStep, StartGlob, NextKey, HGetPath, RunGlobScript, EndKey, HMGetTags,
    EndGlob, GlobActive
<1>3. pc[c] = "start" /\ find[c].at = "idle"
  BY <1>1, <1>2 DEF TaggerOK, OneRequest, Unasked, At, GlobActive
<1>4. QED
  BY <1>1, <1>2, <1>3, TaggerFacts
  DEF QueriesInv, QueriesTypeOK, IInv, TypeOK, TaggerOK, OneRequest

\* What is left to show of such a step.
LEMMA GlobOwn ==
  ASSUME IInv, QueriesInv, NEW c \in Taggers, GlobStep(c),
         /\ glob'[c].at # "idle"
         /\ glob'[c].at \in GlobActive => pc'[c] = "start"
         /\ glob'[c].at = "ended" => pc'[c] \in {"done", "failed"}
         /\ err'[c] => glob'[c].at = "run" \/ pc'[c] = "failed",
         /\ cursor'[c].must \subseteq cursor'[c].since
         /\ \A f \in cursor'[c].since : Written(f),
         glob'[c].at \in {"hget", "run"} => Written(glob'[c].cur),
         WorkMatches(c)', GlobProgress(c)'
  PROVE  TaggerOK(c)'
<1> USE GlobFacts
<1>1. /\ RowsTrue(c)' /\ RepliesTrue(c)'
      /\ WalkProgress(c)' /\ ByHashProgress(c)'
  BY FindFrame
<1>2. SeenWritten(c)'
  BY SeenStays DEF SeenWritten
<1>3. pc'[c] \in {"start", "done", "failed"}
  BY QueryPc DEF IInv
<1>4. OneRequest(c)'
  BY <1>3 DEF TaggerOK, OneRequest, Ended, FindActive
<1>5. QED
  BY <1>1, <1>2, <1>4 DEF TaggerOK

\* A file that tag --globs is to reach was to be reached, and stays reached.
LEMMA TargetStays ==
  ASSUME IInv, QueriesInv, [QNext]_queryVars, NEW c \in Taggers,
         glob[c].at # "idle", cursor'[c].since = cursor[c].since,
         NEW f, f \in Targets(c)'
  PROVE  /\ f \in Targets(c) /\ f \in FileIds /\ FileExists(f) /\ FileExists(f)'
         /\ \A t \in glob[c].tags :
              glob[c].mode = "add" /\ Reached(c, f, t) => Reached(c, f, t)'
<1>1. TaggerOK(c)
  BY TaggersOK
<1>2. f \in cursor[c].since /\ FileExists(f)'
  BY DEF Targets
<1>3. f \in FileIds /\ Written(f) /\ FileKept(f)
  BY <1>1, <1>2, SeenStays DEF TaggerOK, SeenWritten
<1>4. f \in Targets(c) /\ FileExists(f)
  BY <1>2, <1>3, RequestStays DEF Targets, FileKept, QueriesInv
<1>5. glob[c].tags \subseteq Tags
  BY DEF QueriesInv, QueriesTypeOK, GlobLocals
<1>6. QED
  BY <1>2, <1>3, <1>4, <1>5, ReachedStays

\* SCAN begins with all that is there.
LEMMA OpenScanFacts ==
  ASSUME IInv, QueriesInv, NEW c \in Taggers, OpenScan(c)
  PROVE  /\ cursor' \in [Taggers -> CursorLocals]
         /\ cursor'[c].since = Present /\ cursor'[c].must = Present
         /\ \A f \in Present : f \in FileIds /\ FileExists(f) /\ Written(f)
<1>1. cursor \in [Taggers -> CursorLocals]
  BY DEF QueriesInv, QueriesTypeOK
<1> DEFINE maybe == {f \in FileIds : FileExists(f) \/ ~WasWritten(f)}
<1>2. cursor' = [cursor EXCEPT ![c] = [since |-> Present, must |-> Present, maybe |-> maybe]]
  BY DEF OpenScan
<1>3. Present \subseteq FileIds /\ maybe \subseteq FileIds
  BY DEF Present
<1> HIDE DEF maybe
<1>4. /\ cursor' \in [Taggers -> CursorLocals]
      /\ cursor'[c].since = Present /\ cursor'[c].must = Present
  BY <1>1, <1>2, <1>3 DEF CursorLocals
<1>5. QED
  BY <1>4, ExistsWritten DEF Present

\* It yields ids that were written, each of those it must once.
LEMMA YieldFacts ==
  ASSUME IInv, QueriesInv, NEW c \in Taggers, NEW f \in FileIds, Yield(c, f)
  PROVE  /\ cursor' \in [Taggers -> CursorLocals] /\ Written(f)
         /\ cursor'[c].since = cursor[c].since
         /\ cursor'[c].must \subseteq cursor[c].must
         /\ \A g \in cursor[c].must : g = f \/ g \in cursor'[c].must
<1>1. cursor \in [Taggers -> CursorLocals] /\ TaggerOK(c)
  BY TaggersOK DEF QueriesInv, QueriesTypeOK
<1>2. CASE f \in cursor[c].must /\ cursor' = [cursor EXCEPT ![c].must = @ \ {f}]
  <2>1. Written(f)
    BY <1>1, <1>2 DEF TaggerOK, SeenWritten
  <2>2. QED
    BY <1>1, <1>2, <2>1 DEF CursorLocals
<1>3. CASE WasWritten(f) /\ cursor' = [cursor EXCEPT ![c].maybe = @ \ {f}]
  <2>1. Written(f)
    BY <1>3, WasWrittenIs DEF IInv
  <2>2. QED
    BY <1>1, <1>3, <2>1 DEF CursorLocals
<1>4. QED
  BY <1>2, <1>3 DEF Yield

\* A request is read: all its files are ahead of SCAN.
LEMMA StartGlobOK ==
  ASSUME IInv, QueriesInv, NEW c \in Taggers, StartGlob(c)
  PROVE  TaggerOK(c)' /\ QueriesTypeOK'
<1> GlobStep(c)
  BY DEF GlobStep
<1> glob \in [Taggers -> GlobLocals] /\ glob[c] \in GlobLocals
  BY DEF QueriesInv, QueriesTypeOK
<1>2. PICK mode \in Modes, p \in Patterns, g \in Owners,
           ts \in SUBSET Tags \ {{}} :
        glob' = [glob EXCEPT ![c].at = "scan", ![c].mode = mode,
                             ![c].pattern = p, ![c].owner = g, ![c].tags = ts]
  BY DEF StartGlob
<1>3. p \subseteq Hashes /\ g \in 0 .. MaxSets
  OBVIOUS
<1>4. glob' \in [Taggers -> GlobLocals] /\ glob'[c].at = "scan"
      /\ glob'[c].work = glob[c].work
  BY <1>2, <1>3 DEF GlobLocals, GlobActive
<1> USE GlobFacts
<1>5. QueriesTypeOK'
  BY <1>4, OpenScanFacts DEF StartGlob, QueriesTypeOK, QueriesInv
<1>6. UNCHANGED <<pc, err, files>> /\ glob[c].at = "idle"
  BY DEF StartGlob, vars, store, Unasked
<1>7. WorkMatches(c)'
  BY <1>4, <1>6 DEF TaggerOK, WorkMatches
<1>8. GlobProgress(c)'
  BY <1>4, OpenScanFacts DEF StartGlob, GlobProgress, Targets
<1>9. TaggerOK(c)'
  BY <1>4, <1>6, <1>7, <1>8, OpenScanFacts, GlobOwn
  DEF StartGlob, TaggerOK, OneRequest, GlobActive
<1>10. QED
  BY <1>5, <1>9

\* SCAN returns the next key, of a file that was written.
LEMMA NextKeyOK ==
  ASSUME IInv, QueriesInv, NEW c \in Taggers, NextKey(c)
  PROVE  TaggerOK(c)' /\ QueriesTypeOK'
<1> GlobStep(c)
  BY DEF GlobStep
<1> glob \in [Taggers -> GlobLocals] /\ glob[c] \in GlobLocals
  BY DEF QueriesInv, QueriesTypeOK
<1>2. PICK f \in FileIds :
        Yield(c, f) /\ glob' = [glob EXCEPT ![c].at = "hget", ![c].cur = f]
  BY DEF NextKey
<1>3. f \in 0 .. MaxFiles
  BY DEF FileIds
<1>4. /\ glob' \in [Taggers -> GlobLocals]
      /\ glob'[c].at = "hget" /\ glob'[c].cur = f /\ glob'[c].work = glob[c].work
  BY <1>2, <1>3 DEF GlobLocals, GlobActive
<1> USE GlobFacts
<1>5. QueriesTypeOK'
  BY <1>2, <1>4, YieldFacts DEF QueriesTypeOK, QueriesInv
<1>6. UNCHANGED <<pc, err, files>> /\ glob[c].at = "scan"
  BY DEF NextKey, vars, store
<1>7. glob[c].work = {} /\ WorkMatches(c)'
  BY <1>4, <1>6 DEF TaggerOK, WorkMatches
<1>8. GlobProgress(c)'
  <2>1. SUFFICES ASSUME glob'[c].mode = "add", ~err[c], NEW g \in Targets(c)',
                        g \notin cursor'[c].must, g # f,
                        NEW t \in glob'[c].tags
                 PROVE  Reached(c, g, t)'
    BY <1>4, <1>6 DEF GlobProgress
  <2>2. g \notin cursor[c].must
    BY <1>2, <2>1, YieldFacts
  <2>3. glob[c].mode = "add" /\ t \in glob[c].tags
    BY <1>6, <2>1, RequestStays DEF QueriesInv
  <2>4. g \in Targets(c) /\ (Reached(c, g, t) => Reached(c, g, t)')
    BY <1>2, <1>6, <2>3, YieldFacts, TargetStays
  <2>5. Reached(c, g, t)
    BY <1>6, <2>1, <2>2, <2>3, <2>4 DEF TaggerOK, GlobProgress
  <2>6. QED
    BY <2>4, <2>5
<1>9. /\ cursor'[c].must \subseteq cursor'[c].since
      /\ \A g \in cursor'[c].since : Written(g)
  BY <1>2, YieldFacts DEF TaggerOK, SeenWritten
<1>10. TaggerOK(c)'
  BY <1>2, <1>4, <1>6, <1>7, <1>8, <1>9, YieldFacts, GlobOwn
  DEF TaggerOK, OneRequest, GlobActive
<1>11. QED
  BY <1>5, <1>10

\* A file that matches has all its scripts ahead; others need none.
LEMMA HGetPathOK ==
  ASSUME IInv, QueriesInv, NEW c \in Taggers, HGetPath(c)
  PROVE  TaggerOK(c)' /\ QueriesTypeOK'
<1> GlobStep(c)
  BY DEF GlobStep
<1> glob \in [Taggers -> GlobLocals] /\ glob[c] \in GlobLocals
  BY DEF QueriesInv, QueriesTypeOK
<1>2. PICK w : /\ w = IF Matches(c) THEN glob[c].tags ELSE {}
               /\ glob' = [glob EXCEPT ![c].at = "run", ![c].work = w]
  BY DEF HGetPath
<1>3. /\ UNCHANGED <<pc, err, files, cursor>> /\ glob[c].at = "hget"
      /\ glob[c].mode # "clear"
  BY DEF HGetPath, vars, store
<1>4. Matches(c) => w = glob[c].tags
  BY <1>2
<1>5. /\ w # {} => Matches(c)
      /\ w \subseteq glob[c].tags /\ w \subseteq Tags
  BY <1>2 DEF GlobLocals
<1>6. /\ glob' \in [Taggers -> GlobLocals]
      /\ glob'[c].at = "run" /\ glob'[c].cur = glob[c].cur /\ glob'[c].work = w
      /\ glob'[c].mode = glob[c].mode /\ glob'[c].tags = glob[c].tags
      /\ glob'[c].pattern = glob[c].pattern
  BY <1>2, <1>5 DEF GlobLocals, GlobActive
<1> USE GlobFacts
<1>7. QueriesTypeOK'
  BY <1>3, <1>6 DEF QueriesTypeOK, QueriesInv
<1>8. WorkMatches(c)'
  BY <1>3, <1>5, <1>6 DEF WorkMatches, Matches
<1>9. GlobProgress(c)'
  <2>1. SUFFICES ASSUME glob[c].mode = "add", ~err[c], NEW g \in Targets(c)',
                        g \notin cursor[c].must, NEW t \in glob[c].tags,
                        ~ (g = glob[c].cur /\ t \in w)
                 PROVE  Reached(c, g, t)'
    BY <1>3, <1>6 DEF GlobProgress
  <2>2. g \in Targets(c) /\ (Reached(c, g, t) => Reached(c, g, t)')
    BY <1>3, <2>1, TargetStays
  <2>3. g # glob[c].cur
    BY <1>4, <2>1, <2>2 DEF Targets, Matches
  <2>4. Reached(c, g, t)
    BY <1>3, <2>1, <2>2, <2>3 DEF TaggerOK, GlobProgress
  <2>5. QED
    BY <2>2, <2>4
<1>10. TaggerOK(c)'
  BY <1>3, <1>6, <1>8, <1>9, GlobOwn
  DEF TaggerOK, OneRequest, SeenWritten, GlobActive
<1>11. QED
  BY <1>7, <1>10

\* A script that runs gives the file its tag; one that is lost is noticed.
LEMMA RunGlobScriptOK ==
  ASSUME IInv, QueriesInv, NEW c \in Taggers, RunGlobScript(c)
  PROVE  TaggerOK(c)' /\ QueriesTypeOK'
<1> GlobStep(c)
  BY DEF GlobStep
<1> glob \in [Taggers -> GlobLocals] /\ glob[c] \in GlobLocals
  BY DEF QueriesInv, QueriesTypeOK
<1>2. PICK t \in glob[c].work :
        /\ glob' = [glob EXCEPT ![c].work = glob[c].work \ {t}]
        /\ \/ /\ glob[c].mode = "add" /\ UNCHANGED err
              /\ TagIfInSet(t, glob[c].cur, glob[c].owner)
           \/ glob[c].mode = "dele" /\ UNCHANGED err
           \/ err' = [err EXCEPT ![c] = TRUE]
  BY GlobScriptFacts DEF QueriesInv, TaggerOK
<1>3. glob[c].at = "run" /\ UNCHANGED <<pc, cursor>>
  BY DEF RunGlobScript
<1>4. /\ glob' \in [Taggers -> GlobLocals]
      /\ glob'[c].at = "run" /\ glob'[c].cur = glob[c].cur
      /\ glob'[c].work = glob[c].work \ {t}
      /\ glob'[c].mode = glob[c].mode /\ glob'[c].tags = glob[c].tags
      /\ glob'[c].pattern = glob[c].pattern
  BY <1>2, <1>3 DEF GlobLocals, GlobActive
<1> USE GlobFacts
<1>5. QueriesTypeOK'
  BY <1>3, <1>4 DEF QueriesTypeOK, QueriesInv
<1>6. Written(glob[c].cur) /\ glob[c].cur \in FileIds /\ FileKept(glob[c].cur)
  BY <1>3, SeenStays DEF TaggerOK, SeenWritten
<1>7. WorkMatches(c)'
  BY <1>3, <1>4, <1>6 DEF TaggerOK, WorkMatches, FileKept
<1>8. GlobProgress(c)'
  <2>1. SUFFICES ASSUME glob[c].mode = "add", ~err'[c], NEW g \in Targets(c)',
                        g \notin cursor[c].must, NEW u \in glob[c].tags,
                        ~ (g = glob[c].cur /\ u \in glob[c].work \ {t})
                 PROVE  Reached(c, g, u)'
    BY <1>3, <1>4 DEF GlobProgress
  <2>2. /\ g \in Targets(c) /\ FileExists(g)
        /\ Reached(c, g, u) => Reached(c, g, u)'
    BY <1>3, <2>1, TargetStays
  <2>3. UNCHANGED err /\ TagIfInSet(t, glob[c].cur, glob[c].owner)
    BY <1>2, <2>1
  <2>4. CASE g = glob[c].cur /\ u = t
    <3>1. MatchesOwner(g, glob[c].owner)
      BY <2>2, <2>4 DEF Targets, MatchesOwner
    <3>2. files' = [files EXCEPT ![g].tags = @ \cup {t}]
      BY <2>3, <2>4, <3>1 DEF TagIfInSet
    <3>3. u \in files'[g].tags
      BY <1>6, <2>4, <3>2 DEF IInv, TypeOK, StoreTypeOK
    <3>4. QED
      BY <3>3 DEF Reached
  <2>5. CASE ~ (g = glob[c].cur /\ u = t)
    <3>1. ~ err[c]
      BY <2>1, <2>3
    <3>2. Reached(c, g, u)
      BY <1>3, <2>1, <2>2, <2>5, <3>1 DEF TaggerOK, GlobProgress
    <3>3. QED
      BY <2>2, <3>2
  <2>6. QED
    BY <2>4, <2>5
<1>9. TaggerOK(c)'
  BY <1>3, <1>4, <1>6, <1>7, <1>8, GlobOwn
  DEF TaggerOK, SeenWritten, GlobActive
<1>10. QED
  BY <1>5, <1>9

\* With its scripts all run, a file has its tags or the process fails.
LEMMA EndKeyOK ==
  ASSUME IInv, QueriesInv, NEW c \in Taggers, EndKey(c)
  PROVE  TaggerOK(c)' /\ QueriesTypeOK'
<1> GlobStep(c)
  BY DEF GlobStep
<1> glob \in [Taggers -> GlobLocals] /\ glob[c] \in GlobLocals
  BY DEF QueriesInv, QueriesTypeOK
<1>1. PICK a : /\ a = IF err[c] THEN "ended" ELSE "scan"
               /\ glob' = [glob EXCEPT ![c].at = a]
  BY DEF EndKey
<1>2. /\ glob' \in [Taggers -> GlobLocals]
      /\ glob'[c].at = a /\ glob'[c].work = glob[c].work
      /\ glob'[c].mode = glob[c].mode /\ glob'[c].tags = glob[c].tags
  BY <1>1 DEF GlobLocals, GlobActive
<1> USE GlobFacts
<1>3. /\ glob[c].at = "run" /\ glob[c].work = {}
      /\ UNCHANGED <<err, files, cursor>>
      /\ err[c] => pc'[c] = "failed"
      /\ ~ err[c] => pc'[c] = "start"
  BY DEF EndKey, store, Goto
<1>4. QueriesTypeOK'
  BY <1>2, <1>3 DEF QueriesTypeOK, QueriesInv
<1>5. WorkMatches(c)'
  BY <1>1, <1>2, <1>3 DEF WorkMatches
<1>6. GlobProgress(c)'
  <2>1. SUFFICES ASSUME glob[c].mode = "add", ~err[c], NEW f \in Targets(c)',
                        f \notin cursor[c].must, NEW t \in glob[c].tags
                 PROVE  Reached(c, f, t)'
    BY <1>1, <1>2, <1>3 DEF GlobProgress
  <2>2. f \in Targets(c) /\ (Reached(c, f, t) => Reached(c, f, t)')
    BY <1>3, <2>1, TargetStays
  <2>3. Reached(c, f, t)
    BY <1>3, <2>1, <2>2 DEF TaggerOK, GlobProgress
  <2>4. QED
    BY <2>2, <2>3
<1>7. TaggerOK(c)'
  BY <1>1, <1>2, <1>3, <1>5, <1>6, GlobOwn
  DEF TaggerOK, SeenWritten, GlobActive
<1>8. QED
  BY <1>4, <1>7

\* Clearing by regex promises nothing of files, and gives them nothing.
LEMMA HMGetTagsOK ==
  ASSUME IInv, QueriesInv, NEW c \in Taggers, HMGetTags(c)
  PROVE  TaggerOK(c)' /\ QueriesTypeOK'
<1> GlobStep(c)
  BY DEF GlobStep
<1> glob \in [Taggers -> GlobLocals] /\ glob[c] \in GlobLocals
  BY DEF QueriesInv, QueriesTypeOK
<1>1. PICK a \in {"scan", "ended"} :
        /\ glob' = [glob EXCEPT ![c].at = a]
        /\ a = "scan" => UNCHANGED pc
        /\ a = "ended" => Goto(c, "failed")
  BY DEF HMGetTags
<1>2. /\ glob' \in [Taggers -> GlobLocals]
      /\ glob'[c].at = a /\ glob'[c].work = glob[c].work
      /\ glob'[c].mode = glob[c].mode
  BY <1>1 DEF GlobLocals, GlobActive
<1> USE GlobFacts
<1>3. /\ glob[c].at = "hget" /\ glob[c].mode = "clear"
      /\ UNCHANGED <<err, files, cursor>>
      /\ a = "scan" => pc'[c] = "start"
      /\ a = "ended" => pc'[c] = "failed"
  BY <1>1 DEF HMGetTags, store, Goto
<1>4. QueriesTypeOK'
  BY <1>2, <1>3 DEF QueriesTypeOK, QueriesInv
<1>5. WorkMatches(c)'
  BY <1>1, <1>2, <1>3 DEF TaggerOK, WorkMatches
<1>6. GlobProgress(c)'
  BY <1>2, <1>3 DEF GlobProgress
<1>7. ~ err[c]
  BY <1>3 DEF TaggerOK, OneRequest
<1>8. TaggerOK(c)'
  BY <1>1, <1>2, <1>3, <1>5, <1>6, <1>7, GlobOwn
  DEF TaggerOK, SeenWritten, GlobActive
<1>9. QED
  BY <1>4, <1>8

\* When SCAN is over what was to be reached is gone or was reached.
LEMMA EndGlobOK ==
  ASSUME IInv, QueriesInv, NEW c \in Taggers, EndGlob(c)
  PROVE  TaggerOK(c)' /\ QueriesTypeOK'
<1> GlobStep(c)
  BY DEF GlobStep
<1> glob \in [Taggers -> GlobLocals] /\ glob[c] \in GlobLocals
  BY DEF QueriesInv, QueriesTypeOK
<1>1. glob' = [glob EXCEPT ![c].at = "ended"]
  BY DEF EndGlob
<1>2. /\ glob' \in [Taggers -> GlobLocals]
      /\ glob'[c].at = "ended" /\ glob'[c].work = glob[c].work
      /\ glob'[c].mode = glob[c].mode /\ glob'[c].tags = glob[c].tags
  BY <1>1 DEF GlobLocals, GlobActive
<1> USE GlobFacts
<1>3. /\ glob[c].at = "scan" /\ ScanOver(c) /\ pc'[c] = "done"
      /\ UNCHANGED <<err, files, cursor>>
  BY DEF EndGlob, store, Goto
<1>4. QueriesTypeOK'
  BY <1>2, <1>3 DEF QueriesTypeOK, QueriesInv
<1>5. WorkMatches(c)'
  BY <1>2, <1>3 DEF TaggerOK, WorkMatches
<1>6. GlobProgress(c)'
  <2>1. SUFFICES ASSUME glob[c].mode = "add", ~err[c], NEW f \in Targets(c)',
                        NEW t \in glob[c].tags
                 PROVE  Reached(c, f, t)'
    BY <1>2, <1>3 DEF GlobProgress
  <2>2. /\ f \in Targets(c) /\ FileExists(f)
        /\ Reached(c, f, t) => Reached(c, f, t)'
    BY <1>3, <2>1, TargetStays
  <2>3. f \notin cursor[c].must
    BY <1>3, <2>2 DEF ScanOver
  <2>4. Reached(c, f, t)
    BY <1>3, <2>1, <2>2, <2>3 DEF TaggerOK, GlobProgress
  <2>5. QED
    BY <2>2, <2>4
<1>7. ~ err[c]
  BY <1>3 DEF TaggerOK, OneRequest
<1>8. TaggerOK(c)'
  BY <1>2, <1>3, <1>5, <1>6, <1>7, GlobOwn
  DEF TaggerOK, SeenWritten, GlobActive
<1>9. QED
  BY <1>4, <1>8

\* Every step of tag --globs keeps what its process is to keep.
LEMMA GlobStepOK ==
  ASSUME IInv, QueriesInv, NEW c \in Taggers, GlobStep(c)
  PROVE  TaggerOK(c)' /\ QueriesTypeOK'
BY StartGlobOK, NextKeyOK, HGetPathOK, RunGlobScriptOK, EndKeyOK, HMGetTagsOK,
   EndGlobOK
DEF GlobStep

-----------------------------------------------------------------------------
(* The steps of locate.                                                    *)

\* Where a process is that takes a step of locate.
LEMMA FindFacts ==
  ASSUME IInv, QueriesInv, NEW c \in Taggers, LocateStep(c)
  PROVE  /\ [QNext]_queryVars /\ TaggerOK(c)
         /\ pc[c] = "start" /\ ~ err[c] /\ c \in Clients
         /\ pc \in [Clients -> Labels]
         /\ cursor \in [Taggers -> CursorLocals] /\ cursor[c] \in CursorLocals
         /\ find \in [Taggers -> FindLocals] /\ find[c] \in FindLocals
         /\ glob[c].at = "idle"
         /\ UNCHANGED <<glob, files, hashes, scan, dele, err>>
<1>1. TaggerOK(c) /\ [QNext]_queryVars
  BY TaggersOK DEF QNext
<1>2. find[c].at \in FindActive \/ Unasked(c)
  BY DEF LocateStep, StartLocate, QueueKey, HMGetFile, Flush, EndLocate,
    StartByHash, SMembers, EndMembers, EndByHash, FindActive
<1>3. UNCHANGED <<glob, files, hashes, scan, dele, err>>
  BY DEF LocateStep, StartLocate, QueueKey, HMGetFile, Flush, EndLocate,
    StartByHash, SMembers, EndMembers, EndByHash, vars, store
<1>4. pc[c] = "start" /\ glob[c].at = "idle"
  BY <1>1, <1>2 DEF TaggerOK, OneRequest, Unasked, At, FindActive
<1>5. ~ err[c]
  BY <1>1, <1>4 DEF TaggerOK, OneRequest
<1>6. QED
  BY <1>1, <1>3, <1>4, <1>5, TaggerFacts DEF QueriesInv, QueriesTypeOK, IInv, TypeOK

\* It leaves the files and what becomes of them as they are.
LEMMA FindQuiet ==
  ASSUME IInv, QueriesInv, NEW c \in Taggers, LocateStep(c), NEW f
  PROVE  /\ FileExists(f)' = FileExists(f)
         /\ Written(f)' = Written(f) /\ Deleting(f)' = Deleting(f)
         /\ \A g, h : Agrees(f, g, h)' = Agrees(f, g, h)
         /\ \A h : WrittenAs(f, h)' = WrittenAs(f, h)
<1>1. UNCHANGED <<files, scan, dele>>
  BY FindFacts
<1>2. \A d \in Deleters : pc'[d] = pc[d]
  BY QueryPc DEF IInv, TypeOK, Clients, Editors
<1>3. QED
  BY <1>1, <1>2
  DEF FileExists, Written, Wrote, Allocated, Deleting, Agrees, WrittenAs

\* A step that reports nothing keeps what was asked for as it is.
LEMMA AskingQuiet ==
  ASSUME IInv, QueriesInv, NEW c \in Taggers, LocateStep(c),
         find[c].root # NoHash, pc[c] # "failed",
         find'[c].root = find[c].root, find'[c].rows = find[c].rows,
         UNCHANGED cursor, Pending(c) \subseteq Pending(c)'
  PROVE  \E asked \in SUBSET Hashes : find'[c].root \in asked /\ Asking(c, asked)'
<1>1. PICK asked \in SUBSET Hashes : find[c].root \in asked /\ Asking(c, asked)
  BY FindFacts DEF TaggerOK, ByHashProgress
<1>2. \A f : /\ Deleting(f)' = Deleting(f) /\ FileExists(f)' = FileExists(f)
             /\ \A h : WrittenAs(f, h)' = WrittenAs(f, h)
  BY FindQuiet
<1>3. \A h : SinceOf(c, h)' = SinceOf(c, h)
  BY <1>2, FindFacts DEF SinceOf
<1>4. \A h : Covered(c, h)' = Covered(c, h) /\ NoResult(c, h)' = NoResult(c, h)
  BY <1>2, <1>3 DEF Covered, Found, NoResult
<1>5. Asking(c, asked \cup {})'
  BY <1>1, <1>4, AskingKept
<1>6. asked \cup {} = asked
  OBVIOUS
<1>7. QED
  BY <1>1, <1>5, <1>6

\* What is left to show of such a step.
LEMMA FindOwn ==
  ASSUME IInv, QueriesInv, NEW c \in Taggers, LocateStep(c),
         /\ find'[c].at # "idle"
         /\ find'[c].at \in FindActive => pc'[c] = "start"
         /\ find'[c].at = "ended" => pc'[c] \in {"done", "failed"}
         /\ find'[c].at = "scan" => find'[c].root = NoHash
         /\ find'[c].at \in {"hash", "members"} => find'[c].root # NoHash,
         /\ cursor'[c].must \subseteq cursor'[c].since
         /\ \A f \in cursor'[c].since : Written(f),
         \A i \in DOMAIN find'[c].burst : Written(find'[c].burst[i]),
         \A r \in find'[c].rows : Written(r.id) /\ Agrees(r.id, r.group, r.hash),
         RepliesTrue(c)', WalkProgress(c)', ByHashProgress(c)'
  PROVE  TaggerOK(c)'
<1> USE FindFacts
<1>1. WorkMatches(c)' /\ GlobProgress(c)'
  BY GlobFrame
<1>2. SeenWritten(c)' /\ RowsTrue(c)'
  <2>1. glob'[c].at = "idle"
    OBVIOUS
  <2>2. \A f : Written(f) => Written(f)'
    BY FindQuiet
  <2>3. \A f, g, h : Agrees(f, g, h) => Agrees(f, g, h)'
    BY FindQuiet
  <2>4. SeenWritten(c)'
    BY <2>1, <2>2 DEF SeenWritten
  <2>5. RowsTrue(c)'
    BY <2>3 DEF RowsTrue
  <2>6. QED
    BY <2>4, <2>5
<1>3. pc'[c] \in {"start", "done", "failed"}
  BY QueryPc DEF IInv
<1>4. OneRequest(c)'
  BY <1>3 DEF TaggerOK, OneRequest, Ended, GlobActive
<1>5. QED
  BY <1>1, <1>2, <1>4 DEF TaggerOK

\* The rows of a batch are true; an answered batch has one for each id.
LEMMA RowsFacts ==
  ASSUME IInv, QueriesInv, NEW c \in Taggers
  PROVE  /\ RowsOf(c) \subseteq Rows
         /\ \A r \in RowsOf(c) : Written(r.id) /\ Agrees(r.id, r.group, r.hash)
         /\ \A r \in RowsOf(c) : InBurst(c, r.id)
         /\ \A f : InBurst(c, f) /\ Answered(c) => \E r \in RowsOf(c) : r.id = f
<1>1. /\ find[c].burst \in Seq(FileIds) /\ find[c].replies \in Seq(Replies)
      /\ TaggerOK(c)
  BY TaggersOK DEF QueriesInv, QueriesTypeOK, FindLocals
<1>2. Len(find[c].replies) <= Len(find[c].burst)
  BY <1>1 DEF TaggerOK, RepliesTrue
<1>3. ASSUME NEW i \in DOMAIN find[c].replies
      PROVE  /\ i \in DOMAIN find[c].burst /\ find[c].burst[i] \in FileIds
             /\ find[c].replies[i] \in Replies
             /\ Written(find[c].burst[i])
             /\ Agrees(find[c].burst[i], find[c].replies[i].group, find[c].replies[i].hash)
  <2>1. i \in DOMAIN find[c].burst
    BY <1>1, <1>2
  <2>2. QED
    BY <1>1, <2>1 DEF TaggerOK, SeenWritten, RepliesTrue
<1>4. RowsOf(c) \subseteq Rows
  BY <1>3 DEF RowsOf, Rows, Replies
<1>5. \A r \in RowsOf(c) : Written(r.id) /\ Agrees(r.id, r.group, r.hash)
  BY <1>3 DEF RowsOf
<1> \A r \in RowsOf(c) : InBurst(c, r.id)
  BY <1>3 DEF RowsOf, InBurst
<1>6. ASSUME NEW f, InBurst(c, f), Answered(c)
      PROVE  \E r \in RowsOf(c) : r.id = f
  <2>1. PICK i \in DOMAIN find[c].burst : find[c].burst[i] = f
    BY <1>6 DEF InBurst
  <2>2. i \in DOMAIN find[c].replies
    BY <1>1, <1>6 DEF Answered
  <2>3. [id |-> find[c].burst[i], group |-> find[c].replies[i].group,
         hash |-> find[c].replies[i].hash] \in RowsOf(c)
    BY <2>2 DEF RowsOf
  <2>4. QED
    BY <2>1, <2>3
<1>7. QED
  BY <1>4, <1>5, <1>6

\* A search begins: all its files are ahead of SCAN.
LEMMA StartLocateOK ==
  ASSUME IInv, QueriesInv, NEW c \in Taggers, StartLocate(c)
  PROVE  TaggerOK(c)' /\ QueriesTypeOK'
<1> LocateStep(c)
  BY DEF LocateStep
<1> find \in [Taggers -> FindLocals] /\ find[c] \in FindLocals
  BY DEF QueriesInv, QueriesTypeOK
<1>1. PICK p \in Patterns : find' = [find EXCEPT ![c].at = "scan", ![c].pattern = p]
  BY DEF StartLocate
<1>2. p \subseteq Hashes
  OBVIOUS
<1>3. /\ find' \in [Taggers -> FindLocals]
      /\ find'[c].at = "scan" /\ find'[c].pattern = p
      /\ find'[c].root = find[c].root /\ find'[c].rows = find[c].rows
      /\ find'[c].burst = find[c].burst /\ find'[c].replies = find[c].replies
  BY <1>1, <1>2 DEF FindLocals, FindActive
<1> USE FindFacts
<1>4. OpenScan(c) /\ UNCHANGED pc /\ find[c].at = "idle"
  BY DEF StartLocate, Unasked, vars
<1>5. /\ find[c].root = NoHash /\ find[c].rows = {}
      /\ find[c].burst = <<>> /\ find[c].replies = <<>>
  BY <1>4 DEF TaggerOK, OneRequest
<1>6. QueriesTypeOK'
  BY <1>3, <1>4, OpenScanFacts DEF QueriesTypeOK, QueriesInv
<1>7. RepliesTrue(c)'
  BY <1>3, <1>5 DEF RepliesTrue
<1>8. WalkProgress(c)'
  BY <1>3, <1>4, OpenScanFacts DEF WalkProgress, Matched
<1>9. ByHashProgress(c)'
  BY <1>3, <1>5 DEF ByHashProgress
<1>10. TaggerOK(c)'
  BY <1>3, <1>4, <1>5, <1>7, <1>8, <1>9, OpenScanFacts, FindOwn DEF FindActive
<1>11. QED
  BY <1>6, <1>10

\* A key is queued: its file is in the batch.
LEMMA QueueKeyOK ==
  ASSUME IInv, QueriesInv, NEW c \in Taggers, QueueKey(c)
  PROVE  TaggerOK(c)' /\ QueriesTypeOK'
<1> LocateStep(c)
  BY DEF LocateStep
<1> find \in [Taggers -> FindLocals] /\ find[c] \in FindLocals
  BY DEF QueriesInv, QueriesTypeOK
<1>1. PICK f \in FileIds :
        Yield(c, f) /\ find' = [find EXCEPT ![c].burst = Append(find[c].burst, f)]
  BY DEF QueueKey
<1>2. PICK b : b = Append(find[c].burst, f)
  OBVIOUS
<1>3. /\ find[c].burst \in Seq(FileIds) /\ find[c].replies \in Seq(Replies)
      /\ b \in Seq(FileIds) /\ Len(b) = Len(find[c].burst) + 1
      /\ \A i \in DOMAIN find[c].burst : i \in DOMAIN b /\ b[i] = find[c].burst[i]
      /\ Len(b) \in DOMAIN b /\ b[Len(b)] = f
      /\ \A i \in DOMAIN b : i \in DOMAIN find[c].burst \/ b[i] = f
  BY <1>2 DEF FindLocals
<1>4. /\ find' \in [Taggers -> FindLocals]
      /\ find'[c].at = find[c].at /\ find'[c].pattern = find[c].pattern
      /\ find'[c].root = find[c].root /\ find'[c].rows = find[c].rows
      /\ find'[c].burst = b /\ find'[c].replies = find[c].replies
  BY <1>1, <1>2, <1>3 DEF FindLocals
<1> USE FindFacts
<1>5. /\ UNCHANGED pc /\ find[c].at = "scan" /\ Len(find[c].burst) < Prefetch
      /\ find[c].root = NoHash
  BY DEF QueueKey, vars, TaggerOK, OneRequest
<1>6. QueriesTypeOK'
  BY <1>1, <1>4, YieldFacts DEF QueriesTypeOK, QueriesInv
<1>7. RepliesTrue(c)'
  <2>1. /\ Len(find[c].replies) <= Len(find[c].burst)
        /\ \A i \in DOMAIN find[c].replies :
             Agrees(find[c].burst[i], find[c].replies[i].group, find[c].replies[i].hash)
    BY DEF TaggerOK, RepliesTrue
  <2>2. \A i \in DOMAIN find[c].replies : i \in DOMAIN find[c].burst
    BY <1>3, <2>1
  <2>3. \A i \in DOMAIN find[c].replies :
          Agrees(b[i], find[c].replies[i].group, find[c].replies[i].hash)'
    BY <1>3, <1>4, <2>1, <2>2 DEF Agrees, FileExists
  <2>4. Len(b) <= Prefetch /\ Len(find[c].replies) <= Len(b)
    BY <1>3, <1>5, <2>1
  <2>5. QED
    BY <1>4, <2>3, <2>4 DEF RepliesTrue, Agrees, FileExists
<1>8. WalkProgress(c)'
  <2>1. SUFFICES ASSUME NEW g \in Matched(c)', g \notin cursor'[c].must,
                        ~ InBurst(c, g)'
                 PROVE  Found(c, g)'
    BY <1>4, <1>5 DEF WalkProgress
  <2>2. g \in Matched(c)
    BY <1>1, <1>4, YieldFacts DEF Matched, FileExists
  <2>3. g # f /\ ~ InBurst(c, g)
    BY <1>3, <1>4, <2>1 DEF InBurst
  <2>4. g \notin cursor[c].must
    BY <1>1, <2>1, <2>3, YieldFacts
  <2>5. QED
    BY <1>4, <1>5, <2>2, <2>3, <2>4 DEF TaggerOK, WalkProgress, Found
<1>9. ByHashProgress(c)'
  BY <1>4, <1>5 DEF ByHashProgress
<1>10. \A i \in DOMAIN b : Written(b[i])
  BY <1>1, <1>3, YieldFacts DEF TaggerOK, SeenWritten
<1>11. /\ cursor'[c].must \subseteq cursor'[c].since
       /\ \A g \in cursor'[c].since : Written(g)
  BY <1>1, YieldFacts DEF TaggerOK, SeenWritten
<1>12. \A r \in find'[c].rows : Written(r.id) /\ Agrees(r.id, r.group, r.hash)
  BY <1>4 DEF TaggerOK, SeenWritten, RowsTrue
<1>13. TaggerOK(c)'
  BY <1>4, <1>5, <1>7, <1>8, <1>9, <1>10, <1>11, <1>12, FindOwn DEF FindActive
<1>14. QED
  BY <1>6, <1>13

\* A reply is put beside the id it was asked for.
LEMMA HMGetFileOK ==
  ASSUME IInv, QueriesInv, NEW c \in Taggers, HMGetFile(c)
  PROVE  TaggerOK(c)' /\ QueriesTypeOK'
<1> LocateStep(c)
  BY DEF LocateStep
<1> /\ find \in [Taggers -> FindLocals] /\ find[c] \in FindLocals
    /\ files \in [FileIds -> [group : 0 .. MaxSets, hash : Hashes \cup {NoHash},
                              tags : SUBSET Tags]]
  BY DEF QueriesInv, QueriesTypeOK, IInv, TypeOK, StoreTypeOK
<1>1. /\ find[c].burst \in Seq(FileIds) /\ find[c].replies \in Seq(Replies)
      /\ Len(find[c].replies) < Len(find[c].burst)
  BY DEF FindLocals, HMGetFile
<1> DEFINE n == Len(find[c].replies) + 1
<1>2. PICK f : f = find[c].burst[n]
  OBVIOUS
<1>3. n \in DOMAIN find[c].burst /\ f \in FileIds
  BY <1>1, <1>2
<1>4. PICK r : r = [group |-> files[f].group, hash |-> files[f].hash]
  OBVIOUS
<1>5. r \in Replies /\ Agrees(f, r.group, r.hash)
  BY <1>3, <1>4 DEF Replies, Agrees
<1>6. PICK q : q = Append(find[c].replies, r)
  OBVIOUS
<1>7. find' = [find EXCEPT ![c].replies = q]
  BY <1>2, <1>4, <1>6 DEF HMGetFile
<1>8. /\ q \in Seq(Replies) /\ Len(q) = n
      /\ \A i \in DOMAIN q : \/ i \in DOMAIN find[c].replies /\ q[i] = find[c].replies[i]
                             \/ i = n /\ q[i] = r
  BY <1>1, <1>5, <1>6
<1>9. /\ find' \in [Taggers -> FindLocals]
      /\ find'[c].at = find[c].at /\ find'[c].pattern = find[c].pattern
      /\ find'[c].root = find[c].root /\ find'[c].rows = find[c].rows
      /\ find'[c].todo = find[c].todo
      /\ find'[c].burst = find[c].burst /\ find'[c].replies = q
  BY <1>7, <1>8 DEF FindLocals
<1> USE FindFacts
<1>10. UNCHANGED <<pc, cursor>> /\ find[c].at \in {"scan", "members"}
  BY DEF HMGetFile, vars
<1>11. QueriesTypeOK'
  BY <1>9, <1>10 DEF QueriesTypeOK, QueriesInv
<1>12. RepliesTrue(c)'
  <2>1. \A i \in DOMAIN q : Agrees(find[c].burst[i], q[i].group, q[i].hash)
    BY <1>2, <1>5, <1>8 DEF TaggerOK, RepliesTrue
  <2>2. Len(q) <= Len(find[c].burst)
    BY <1>1, <1>8
  <2>3. QED
    BY <1>9, <2>1, <2>2 DEF TaggerOK, RepliesTrue, Agrees, FileExists
<1>13. WalkProgress(c)'
  <2>1. Matched(c)' = Matched(c)
    BY <1>9, <1>10 DEF Matched, FileExists
  <2>2. \A g : InBurst(c, g)' = InBurst(c, g) /\ Found(c, g)' = Found(c, g)
    BY <1>9 DEF InBurst, Found
  <2>3. SUFFICES ASSUME find[c].root = NoHash, NEW g \in Matched(c),
                        ~ (find[c].at = "scan" /\ (g \in cursor[c].must \/ InBurst(c, g)))
                 PROVE  Found(c, g)
    BY <1>9, <1>10, <2>1, <2>2 DEF WalkProgress
  <2>4. QED
    BY <1>10, <2>3 DEF TaggerOK, WalkProgress
<1>14. ByHashProgress(c)'
  <2>1. \A f1 : Deleting(f1)' = Deleting(f1) /\ FileExists(f1)' = FileExists(f1)
    BY FindQuiet
  <2>2. \A h : SinceOf(c, h)' = SinceOf(c, h)
    BY <1>10, <2>1 DEF SinceOf
  <2>3. Pending(c)' = Pending(c) /\ \A f1 : InBurst(c, f1)' = InBurst(c, f1)
    BY <1>9 DEF Pending, InBurst
  <2>4. \A f1, h : WrittenAs(f1, h)' = WrittenAs(f1, h)
    BY FindQuiet
  <2>5. SUFFICES ASSUME find[c].root # NoHash
                 PROVE  ByHashProgress(c)'
    BY <1>9 DEF ByHashProgress
  <2>6. \E asked \in SUBSET Hashes : find'[c].root \in asked /\ Asking(c, asked)'
    BY <1>9, <1>10, <2>3, <2>5, AskingQuiet
  <2>7. QED
    BY <1>9, <1>10, <2>1, <2>2, <2>3, <2>4, <2>5, <2>6 DEF TaggerOK, ByHashProgress
<1>15. /\ \A i \in DOMAIN find'[c].burst : Written(find'[c].burst[i])
       /\ \A x \in find'[c].rows : Written(x.id) /\ Agrees(x.id, x.group, x.hash)
       /\ cursor'[c].must \subseteq cursor'[c].since
       /\ \A g \in cursor'[c].since : Written(g)
  BY <1>9, <1>10 DEF TaggerOK, SeenWritten, RowsTrue
<1>16. TaggerOK(c)'
  BY <1>9, <1>10, <1>12, <1>13, <1>14, <1>15, FindOwn
  DEF FindActive, TaggerOK, OneRequest
<1>17. QED
  BY <1>11, <1>16

\* What a batch had to report is among its rows once it is answered.
LEMMA FilteredFacts ==
  ASSUME IInv, QueriesInv, NEW c \in Taggers, Answered(c),
         NEW f \in Matched(c), InBurst(c, f)
  PROVE  \E r \in Filtered(c) : r.id = f
<1>1. PICK r \in RowsOf(c) : r.id = f
  BY RowsFacts
<1>2. Agrees(r.id, r.group, r.hash)
  BY RowsFacts
<1>3. r.hash \in find[c].pattern
  BY <1>1, <1>2 DEF Agrees, Matched
<1>4. QED
  BY <1>1, <1>3 DEF Filtered

\* A full batch is answered: its rows are true, and none is missing.
LEMMA FlushOK ==
  ASSUME IInv, QueriesInv, NEW c \in Taggers, Flush(c)
  PROVE  TaggerOK(c)' /\ QueriesTypeOK'
<1> LocateStep(c)
  BY DEF LocateStep
<1> find \in [Taggers -> FindLocals] /\ find[c] \in FindLocals
  BY DEF QueriesInv, QueriesTypeOK
<1>1. PICK new : new = find[c].rows \cup Filtered(c)
  OBVIOUS
<1>2. find' = [find EXCEPT ![c].burst = <<>>, ![c].replies = <<>>, ![c].rows = new]
  BY <1>1 DEF Flush
<1>3. new \subseteq Rows
  BY <1>1, RowsFacts DEF FindLocals, Filtered
<1>4. <<>> \in Seq(FileIds) /\ <<>> \in Seq(Replies)
  OBVIOUS
<1>5. /\ find' \in [Taggers -> FindLocals]
      /\ find'[c].at = find[c].at /\ find'[c].pattern = find[c].pattern
      /\ find'[c].root = find[c].root /\ find'[c].rows = new
      /\ find'[c].burst = <<>> /\ find'[c].replies = <<>>
  BY <1>2, <1>3, <1>4 DEF FindLocals
<1> USE FindFacts
<1>6. /\ UNCHANGED <<pc, cursor>> /\ find[c].at = "scan" /\ find[c].root = NoHash
  BY DEF Flush, vars, TaggerOK, OneRequest
<1>7. Answered(c)
  <2>1. Len(find[c].replies) \in Nat /\ Len(find[c].burst) \in Nat
    BY DEF FindLocals
  <2>2. QED
    BY <1>6, <2>1 DEF Flush, TaggerOK, RepliesTrue, Answered
<1>8. QueriesTypeOK'
  BY <1>5, <1>6 DEF QueriesTypeOK, QueriesInv
<1>9. RepliesTrue(c)'
  BY <1>5 DEF RepliesTrue
<1>10. WalkProgress(c)'
  <2>1. SUFFICES ASSUME NEW f \in Matched(c)', f \notin cursor[c].must
                 PROVE  Found(c, f)'
    BY <1>5, <1>6 DEF WalkProgress
  <2>2. f \in Matched(c)
    BY <1>5, <1>6 DEF Matched, FileExists
  <2>3. Found(c, f) \/ InBurst(c, f)
    BY <1>6, <2>1, <2>2 DEF TaggerOK, WalkProgress
  <2>4. \E r \in new : r.id = f
    BY <1>1, <1>7, <2>2, <2>3, FilteredFacts DEF Found
  <2>5. QED
    BY <1>5, <2>4 DEF Found
<1>11. ByHashProgress(c)'
  BY <1>5, <1>6 DEF ByHashProgress
<1>12. /\ \A r \in new : Written(r.id) /\ Agrees(r.id, r.group, r.hash)
       /\ cursor'[c].must \subseteq cursor'[c].since
       /\ \A g \in cursor'[c].since : Written(g)
  BY <1>1, <1>6, RowsFacts DEF TaggerOK, SeenWritten, RowsTrue, Filtered
<1>13. TaggerOK(c)'
  BY <1>5, <1>6, <1>9, <1>10, <1>11, <1>12, FindOwn DEF FindActive
<1>14. QED
  BY <1>8, <1>13

\* The last batch, full or not, is reported like the others.
LEMMA EndLocateOK ==
  ASSUME IInv, QueriesInv, NEW c \in Taggers, EndLocate(c)
  PROVE  TaggerOK(c)' /\ QueriesTypeOK'
<1> LocateStep(c)
  BY DEF LocateStep
<1> find \in [Taggers -> FindLocals] /\ find[c] \in FindLocals
  BY DEF QueriesInv, QueriesTypeOK
<1>1. PICK new : new = find[c].rows \cup Filtered(c)
  OBVIOUS
<1>2. find' = [find EXCEPT ![c].at = "ended", ![c].rows = new]
  BY <1>1 DEF EndLocate
<1>3. new \subseteq Rows
  BY <1>1, RowsFacts DEF FindLocals, Filtered
<1>4. /\ find' \in [Taggers -> FindLocals]
      /\ find'[c].at = "ended" /\ find'[c].pattern = find[c].pattern
      /\ find'[c].root = find[c].root /\ find'[c].rows = new
      /\ find'[c].burst = find[c].burst /\ find'[c].replies = find[c].replies
  BY <1>2, <1>3 DEF FindLocals
<1> USE FindFacts
<1>5. /\ UNCHANGED cursor /\ pc'[c] = "done"
      /\ find[c].at = "scan" /\ find[c].root = NoHash /\ ScanOver(c) /\ Answered(c)
  BY DEF EndLocate, Goto, TaggerOK, OneRequest
<1>6. QueriesTypeOK'
  BY <1>4, <1>5 DEF QueriesTypeOK, QueriesInv
<1>7. RepliesTrue(c)'
  BY <1>4 DEF TaggerOK, RepliesTrue, Agrees, FileExists
<1>8. WalkProgress(c)'
  <2>1. SUFFICES ASSUME NEW f \in Matched(c)'
                 PROVE  Found(c, f)'
    BY <1>4, <1>5 DEF WalkProgress
  <2>2. f \in Matched(c) /\ FileExists(f)
    BY <1>4, <1>5 DEF Matched, FileExists
  <2>3. Found(c, f) \/ InBurst(c, f)
    BY <1>5, <2>2 DEF TaggerOK, WalkProgress, ScanOver
  <2>4. \E r \in new : r.id = f
    BY <1>1, <1>5, <2>2, <2>3, FilteredFacts DEF Found
  <2>5. QED
    BY <1>4, <2>4 DEF Found
<1>9. ByHashProgress(c)'
  BY <1>4, <1>5 DEF ByHashProgress
<1>10. /\ \A r \in new : Written(r.id) /\ Agrees(r.id, r.group, r.hash)
       /\ cursor'[c].must \subseteq cursor'[c].since
       /\ \A g \in cursor'[c].since : Written(g)
       /\ \A i \in DOMAIN find'[c].burst : Written(find'[c].burst[i])
  BY <1>1, <1>4, <1>5, RowsFacts DEF TaggerOK, SeenWritten, RowsTrue, Filtered
<1>11. TaggerOK(c)'
  BY <1>4, <1>5, <1>7, <1>8, <1>9, <1>10, FindOwn DEF FindActive
<1>12. QED
  BY <1>6, <1>11

\* The hash asked for is yet to be answered.
LEMMA StartByHashOK ==
  ASSUME IInv, QueriesInv, NEW c \in Taggers, StartByHash(c)
  PROVE  TaggerOK(c)' /\ QueriesTypeOK'
<1> LocateStep(c)
  BY DEF LocateStep
<1> /\ find \in [Taggers -> FindLocals] /\ find[c] \in FindLocals
    /\ cursor \in [Taggers -> CursorLocals]
  BY DEF QueriesInv, QueriesTypeOK
<1>1. PICK h \in Hashes :
        find' = [find EXCEPT ![c].at = "hash", ![c].root = h, ![c].todo = {h}]
  BY DEF StartByHash
<1>2. /\ find' \in [Taggers -> FindLocals]
      /\ find'[c].at = "hash" /\ find'[c].root = h /\ find'[c].todo = {h}
      /\ find'[c].rows = find[c].rows
      /\ find'[c].burst = find[c].burst /\ find'[c].replies = find[c].replies
  BY <1>1 DEF FindLocals, FindActive
<1>3. PICK s : /\ s = {f \in Present : f \in hashes[files[f].hash]}
               /\ cursor' = [cursor EXCEPT ![c].since = s]
  BY DEF StartByHash
<1>4. /\ s \subseteq FileIds
      /\ \A f \in s : Written(f) /\ f \in hashes[files[f].hash]
  BY <1>3, ExistsWritten DEF Present
<1>5. /\ cursor' \in [Taggers -> CursorLocals]
      /\ cursor'[c].since = s /\ cursor'[c].must = cursor[c].must
  BY <1>3, <1>4 DEF CursorLocals
<1> USE FindFacts
<1>6. UNCHANGED pc /\ find[c].at = "idle"
  BY DEF StartByHash, Unasked, vars
<1>7. /\ find[c].rows = {} /\ find[c].burst = <<>> /\ find[c].replies = <<>>
      /\ cursor[c].must = {}
  BY <1>6 DEF TaggerOK, OneRequest
<1>8. QueriesTypeOK'
  BY <1>2, <1>5 DEF QueriesTypeOK, QueriesInv
<1>9. h # NoHash
  OBVIOUS
<1>10. RepliesTrue(c)' /\ WalkProgress(c)'
  BY <1>2, <1>7, <1>9 DEF RepliesTrue, WalkProgress
<1>11. ByHashProgress(c)'
  <2>1. {h} \in SUBSET Hashes /\ Asking(c, {h})'
    BY <1>2 DEF Asking, Pending
  <2>2. QED
    BY <1>2, <1>4, <1>5, <2>1 DEF ByHashProgress
<1>12. TaggerOK(c)'
  BY <1>2, <1>4, <1>5, <1>6, <1>7, <1>9, <1>10, <1>11, FindOwn DEF FindActive
<1>13. QED
  BY <1>8, <1>12

\* A finite set is listed by its sequences.
LEMMA ListedAll ==
  ASSUME NEW S, IsFiniteSet(S), NEW q \in SetToSeqs(S)
  PROVE  q \in Seq(S) /\ \A x \in S : \E i \in DOMAIN q : q[i] = x
<1>1. PICK n : n = Cardinality(S)
  OBVIOUS
<1>2. n \in Nat /\ 1 .. n = 1 .. Cardinality(S)
  BY <1>1, FS_CardinalityType
<1>3. q \in [1 .. n -> S] /\ \A i, j \in 1 .. n : i # j => q[i] # q[j]
  BY <1>2 DEF SetToSeqs
<1>4. q \in Injection(1 .. n, S)
  BY <1>3 DEF Injection, IsInjective
<1>5. Cardinality(1 .. n) = Cardinality(S)
  BY <1>1, <1>2, FS_Interval
<1>6. q \in Surjection(1 .. n, S)
  BY <1>4, <1>5, FS_Injection
<1>7. q \in Seq(S)
  BY <1>2, <1>3
<1>8. QED
  BY <1>3, <1>6, <1>7 DEF Surjection

\* The members of an index are all the files there are under it.
LEMMA SMembersOK ==
  ASSUME IInv, QueriesInv, NEW c \in Taggers, SMembers(c)
  PROVE  TaggerOK(c)' /\ QueriesTypeOK'
<1> LocateStep(c)
  BY DEF LocateStep
<1> /\ find \in [Taggers -> FindLocals] /\ find[c] \in FindLocals
    /\ hashes \in [Hashes -> SUBSET FileIds]
  BY DEF QueriesInv, QueriesTypeOK, IInv, TypeOK, StoreTypeOK
<1>1. PICK h \in find[c].todo : \E ids \in SetToSeqs(hashes[h]) :
        find' = [find EXCEPT ![c].at = "members", ![c].pattern = {h},
                   ![c].todo = find[c].todo \ {h}, ![c].replies = <<>>,
                   ![c].burst = ids]
  BY DEF SMembers
<1>2. PICK ids \in SetToSeqs(hashes[h]) :
        find' = [find EXCEPT ![c].at = "members", ![c].pattern = {h},
                   ![c].todo = find[c].todo \ {h}, ![c].replies = <<>>,
                   ![c].burst = ids]
  BY <1>1
<1>3. h \in Hashes /\ find[c].todo \subseteq Hashes
  BY DEF FindLocals
<1>4. IsFiniteSet(hashes[h])
  <2>1. IsFiniteSet(FileIds)
    BY FS_Interval DEF FileIds
  <2>2. QED
    BY <1>3, <2>1, FS_Subset
<1>5. /\ ids \in Seq(hashes[h])
      /\ \A f \in hashes[h] : \E i \in DOMAIN ids : ids[i] = f
  BY <1>4, ListedAll
<1>6. ids \in Seq(FileIds) /\ \A i \in DOMAIN ids : ids[i] \in hashes[h]
  <2>1. hashes[h] \subseteq FileIds
    BY <1>3
  <2>2. \A i \in DOMAIN ids : ids[i] \in hashes[h]
    BY <1>5
  <2>3. Len(ids) \in Nat /\ DOMAIN ids = 1 .. Len(ids) /\ ids = [i \in 1 .. Len(ids) |-> ids[i]]
    BY <1>5
  <2>4. QED
    BY <2>1, <2>2, <2>3
<1>7. PICK p, todo, none : p = {h} /\ todo = find[c].todo \ {h} /\ none = <<>>
  OBVIOUS
<1>8. p \in SUBSET Hashes /\ todo \in SUBSET Hashes /\ none \in Seq(Replies)
  BY <1>3, <1>7
<1>9. find' = [find EXCEPT ![c].at = "members", ![c].pattern = p,
                  ![c].todo = todo, ![c].replies = none, ![c].burst = ids]
  BY <1>2, <1>7
<1>10. /\ find' \in [Taggers -> FindLocals]
       /\ find'[c].at = "members" /\ find'[c].pattern = p
       /\ find'[c].todo = todo
       /\ find'[c].root = find[c].root /\ find'[c].rows = find[c].rows
       /\ find'[c].burst = ids /\ find'[c].replies = none
  BY <1>6, <1>8, <1>9 DEF FindLocals, FindActive
<1>11. /\ find' \in [Taggers -> FindLocals]
      /\ find'[c].at = "members" /\ find'[c].pattern = {h}
      /\ find'[c].todo = find[c].todo \ {h}
      /\ find'[c].root = find[c].root /\ find'[c].rows = find[c].rows
      /\ find'[c].burst = ids /\ find'[c].replies = <<>>
  BY <1>7, <1>10
<1> USE FindFacts
<1>12. /\ UNCHANGED <<pc, cursor>> /\ find[c].at = "hash" /\ find[c].root # NoHash
  BY DEF SMembers, vars, TaggerOK, OneRequest
<1>13. QueriesTypeOK'
  BY <1>11, <1>12 DEF QueriesTypeOK, QueriesInv
<1>14. RepliesTrue(c)' /\ WalkProgress(c)'
  BY <1>6, <1>11, <1>12 DEF RepliesTrue, WalkProgress
<1>15. ByHashProgress(c)'
  <2>1. \A f : Deleting(f)' = Deleting(f) /\ FileExists(f)' = FileExists(f)
    BY FindQuiet
  <2>2. \A g : SinceOf(c, g)' = SinceOf(c, g)
    BY <1>12, <2>1 DEF SinceOf
  <2>3. Pending(c)' = Pending(c)
    BY <1>11, <1>12 DEF Pending
  <2>4. \A f \in SinceOf(c, h) : InBurst(c, f)' \/ Deleting(f)
    BY <1>5, <1>11, <1>12 DEF SinceOf, InBurst, TaggerOK, ByHashProgress
  <2>5. \A i \in DOMAIN ids : WrittenAs(ids[i], h)
    BY <1>3, <1>6 DEF IInv, HashedFilesWritten, Wrote, WrittenAs
  <2>6. \A i \in DOMAIN ids : WrittenAs(ids[i], h)'
    BY <2>5, FindQuiet
  <2>7. \E asked \in SUBSET Hashes : find'[c].root \in asked /\ Asking(c, asked)'
    BY <1>11, <1>12, <2>3, AskingQuiet
  <2>8. QED
    BY <1>11, <1>12, <2>1, <2>2, <2>4, <2>6, <2>7 DEF TaggerOK, ByHashProgress
<1>16. \A i \in DOMAIN ids : Written(ids[i])
  BY <1>3, <1>6 DEF IInv, HashedFilesWritten, Written
<1>17. /\ \A x \in find'[c].rows : Written(x.id) /\ Agrees(x.id, x.group, x.hash)
       /\ cursor'[c].must \subseteq cursor'[c].since
       /\ \A g \in cursor'[c].since : Written(g)
  BY <1>11, <1>12 DEF TaggerOK, SeenWritten, RowsTrue
<1>18. TaggerOK(c)'
  BY <1>11, <1>12, <1>14, <1>15, <1>16, <1>17, FindOwn DEF FindActive
<1>19. QED
  BY <1>13, <1>18

\* An answered hash is covered, or what is inside it is to be looked up.
LEMMA EndMembersOK ==
  ASSUME IInv, QueriesInv, NEW c \in Taggers, EndMembers(c)
  PROVE  TaggerOK(c)' /\ QueriesTypeOK'
<1> LocateStep(c)
  BY DEF LocateStep
<1> find \in [Taggers -> FindLocals] /\ find[c] \in FindLocals
  BY DEF QueriesInv, QueriesTypeOK
<1>1. PICK new, more, todo :
        /\ new = find[c].rows \cup RowsOf(c)
        /\ more = IF RowsOf(c) = {} THEN UNION {Inside[h] : h \in find[c].pattern} ELSE {}
        /\ todo = find[c].todo \cup more /\ todo = ToAsk(c)
  BY DEF ToAsk
<1>2. new \subseteq Rows /\ more \subseteq Hashes /\ todo \subseteq Hashes
  BY <1>1, RowsFacts DEF FindLocals
<1>3. /\ find[c].at = "members" /\ Answered(c) /\ UNCHANGED cursor
  BY DEF EndMembers
<1>4. CASE /\ find' = [find EXCEPT ![c].at = "hash", ![c].rows = new, ![c].todo = todo]
           /\ UNCHANGED pc
  <2>1. /\ find' \in [Taggers -> FindLocals]
        /\ find'[c].at = "hash" /\ find'[c].pattern = find[c].pattern
        /\ find'[c].root = find[c].root /\ find'[c].rows = new
        /\ find'[c].todo = todo
        /\ find'[c].burst = find[c].burst /\ find'[c].replies = find[c].replies
    BY <1>2, <1>4 DEF FindLocals, FindActive
  <2> USE FindFacts
  <2>2. find[c].root # NoHash /\ find[c].root \in Hashes
    BY <1>3 DEF TaggerOK, OneRequest, FindLocals
  <2>3. QueriesTypeOK'
    BY <1>3, <2>1 DEF QueriesTypeOK, QueriesInv
  <2>4. RepliesTrue(c)' /\ WalkProgress(c)'
    BY <1>3, <2>1, <2>2
    DEF TaggerOK, RepliesTrue, WalkProgress, Agrees, FileExists
  <2>5. ByHashProgress(c)'
    <3>1. \A f : Deleting(f)' = Deleting(f) /\ FileExists(f)' = FileExists(f)
      BY FindQuiet
    <3>2. \A g : SinceOf(c, g)' = SinceOf(c, g)
      BY <1>3, <3>1 DEF SinceOf
    <3>3. \A f : Found(c, f) \/ InBurst(c, f) => Found(c, f)'
      BY <1>1, <1>3, <2>1, RowsFacts DEF Found
    <3>4. \A g : Covered(c, g) => Covered(c, g)'
      BY <3>1, <3>2, <3>3 DEF Covered
    <3>5. \A g \in find[c].pattern : Covered(c, g)'
      BY <1>3, <2>2, <3>1, <3>2, <3>3 DEF Covered, TaggerOK, ByHashProgress
    <3>6. Pending(c) = find[c].todo \cup find[c].pattern /\ Pending(c)' = todo
      BY <1>3, <2>1 DEF Pending
    <3>7. \A g : NoResult(c, g)' => NoResult(c, g)
      BY <1>1, <2>1, FindQuiet DEF NoResult
    <3>8. \A g \in find[c].pattern : NoResult(c, g)' => Inside[g] \subseteq more
      <4>1. SUFFICES ASSUME NEW g \in find[c].pattern, NoResult(c, g)', RowsOf(c) # {}
                     PROVE  FALSE
        BY <1>1
      <4>2. PICK r \in RowsOf(c) : TRUE
        BY <4>1
      <4>3. WrittenAs(r.id, g)
        BY <1>3, <2>2, <4>2, RowsFacts DEF InBurst, TaggerOK, ByHashProgress
      <4>4. WrittenAs(r.id, g)' /\ r \in find'[c].rows
        BY <1>1, <2>1, <4>2, <4>3, FindQuiet
      <4>5. QED
        BY <4>1, <4>4 DEF NoResult
    <3>9. PICK asked \in SUBSET Hashes : find[c].root \in asked /\ Asking(c, asked)
      BY <2>2 DEF TaggerOK, ByHashProgress
    <3>10. Asking(c, asked \cup more)'
      BY <1>1, <3>4, <3>5, <3>6, <3>7, <3>8, <3>9, AskingKept
    <3>11. asked \cup more \in SUBSET Hashes /\ find'[c].root \in asked \cup more
      BY <1>2, <2>1, <3>9
    <3>12. QED
      BY <1>3, <2>1, <2>2, <3>1, <3>10, <3>11 DEF TaggerOK, ByHashProgress
  <2>6. \A r \in new : Written(r.id) /\ Agrees(r.id, r.group, r.hash)
    BY <1>1, RowsFacts DEF TaggerOK, SeenWritten, RowsTrue
  <2>7. /\ cursor'[c].must \subseteq cursor'[c].since
        /\ \A g \in cursor'[c].since : Written(g)
        /\ \A i \in DOMAIN find'[c].burst : Written(find'[c].burst[i])
    BY <1>3, <2>1 DEF TaggerOK, SeenWritten
  <2>8. TaggerOK(c)'
    BY <1>4, <2>1, <2>2, <2>4, <2>5, <2>6, <2>7, FindOwn DEF FindActive
  <2>9. QED
    BY <2>3, <2>8
<1>5. CASE find' = [find EXCEPT ![c].at = "ended"] /\ Goto(c, "failed")
  <2>1. /\ find' \in [Taggers -> FindLocals]
        /\ find'[c].at = "ended" /\ find'[c].pattern = find[c].pattern
        /\ find'[c].root = find[c].root /\ find'[c].rows = find[c].rows
        /\ find'[c].burst = find[c].burst /\ find'[c].replies = find[c].replies
    BY <1>5 DEF FindLocals, FindActive
  <2> USE FindFacts
  <2>2. find[c].root # NoHash /\ pc'[c] = "failed"
    BY <1>3, <1>5 DEF TaggerOK, OneRequest, Goto
  <2>3. QueriesTypeOK'
    BY <1>3, <2>1 DEF QueriesTypeOK, QueriesInv
  <2>4. RepliesTrue(c)' /\ WalkProgress(c)'
    BY <1>3, <2>1, <2>2
    DEF TaggerOK, RepliesTrue, WalkProgress, Agrees, FileExists
  <2>5. ByHashProgress(c)'
    <3>1. \A f : Deleting(f)' = Deleting(f) /\ FileExists(f)' = FileExists(f)
      BY FindQuiet
    <3>2. QED
      BY <1>3, <2>1, <2>2, <3>1 DEF TaggerOK, ByHashProgress
  <2>6. /\ \A x \in find'[c].rows : Written(x.id) /\ Agrees(x.id, x.group, x.hash)
        /\ cursor'[c].must \subseteq cursor'[c].since
        /\ \A g \in cursor'[c].since : Written(g)
        /\ \A i \in DOMAIN find'[c].burst : Written(find'[c].burst[i])
    BY <1>3, <2>1 DEF TaggerOK, SeenWritten, RowsTrue
  <2>7. TaggerOK(c)'
    BY <2>1, <2>2, <2>4, <2>5, <2>6, FindOwn DEF FindActive
  <2>8. QED
    BY <2>3, <2>7
<1>6. QED
  BY <1>1, <1>4, <1>5 DEF EndMembers

\* With no hash left to look up, all that were asked for are covered.
LEMMA EndByHashOK ==
  ASSUME IInv, QueriesInv, NEW c \in Taggers, EndByHash(c)
  PROVE  TaggerOK(c)' /\ QueriesTypeOK'
<1> LocateStep(c)
  BY DEF LocateStep
<1> find \in [Taggers -> FindLocals] /\ find[c] \in FindLocals
  BY DEF QueriesInv, QueriesTypeOK
<1>1. find' = [find EXCEPT ![c].at = "ended"]
  BY DEF EndByHash
<1>2. /\ find' \in [Taggers -> FindLocals]
      /\ find'[c].at = "ended" /\ find'[c].pattern = find[c].pattern
      /\ find'[c].root = find[c].root /\ find'[c].rows = find[c].rows
      /\ find'[c].todo = find[c].todo
      /\ find'[c].burst = find[c].burst /\ find'[c].replies = find[c].replies
  BY <1>1 DEF FindLocals, FindActive
<1> USE FindFacts
<1>3. /\ find[c].at = "hash" /\ find[c].todo = {} /\ UNCHANGED cursor
      /\ find[c].root # NoHash /\ pc'[c] = "done"
  BY DEF EndByHash, Goto, TaggerOK, OneRequest
<1>4. QueriesTypeOK'
  BY <1>2, <1>3 DEF QueriesTypeOK, QueriesInv
<1>5. RepliesTrue(c)' /\ WalkProgress(c)'
  BY <1>2, <1>3 DEF TaggerOK, RepliesTrue, WalkProgress, Agrees, FileExists
<1>6. ByHashProgress(c)'
  <2>1. \A f : Deleting(f)' = Deleting(f) /\ FileExists(f)' = FileExists(f)
    BY FindQuiet
  <2>2. Pending(c)' = {} /\ Pending(c) = {}
    BY <1>2, <1>3 DEF Pending
  <2>3. \E asked \in SUBSET Hashes : find'[c].root \in asked /\ Asking(c, asked)'
    BY <1>2, <1>3, <2>2, AskingQuiet
  <2>4. QED
    BY <1>2, <1>3, <2>1, <2>3 DEF TaggerOK, ByHashProgress
<1>7. /\ \A x \in find'[c].rows : Written(x.id) /\ Agrees(x.id, x.group, x.hash)
      /\ cursor'[c].must \subseteq cursor'[c].since
      /\ \A g \in cursor'[c].since : Written(g)
      /\ \A i \in DOMAIN find'[c].burst : Written(find'[c].burst[i])
  BY <1>2, <1>3 DEF TaggerOK, SeenWritten, RowsTrue
<1>8. TaggerOK(c)'
  BY <1>2, <1>3, <1>5, <1>6, <1>7, FindOwn DEF FindActive
<1>9. QED
  BY <1>4, <1>8

\* Every step of locate keeps what its process is to keep.
LEMMA LocateStepOK ==
  ASSUME IInv, QueriesInv, NEW c \in Taggers, LocateStep(c)
  PROVE  TaggerOK(c)' /\ QueriesTypeOK'
BY StartLocateOK, QueueKeyOK, HMGetFileOK, FlushOK, EndLocateOK,
   StartByHashOK, SMembersOK, EndMembersOK, EndByHashOK
DEF LocateStep

-----------------------------------------------------------------------------
(* The invariant and what follows from it.                                 *)

\* At the beginning nothing was asked.
LEMMA QueriesInitOK == QInit => QueriesInv
<1> SUFFICES ASSUME QInit
             PROVE  QueriesInv
  OBVIOUS
<1> USE DEF QInit, Init, QueriesInit
<1>1. QueriesTypeOK
  <2>1. cursor \in [Taggers -> CursorLocals]
    BY DEF CursorLocals
  <2>2. glob \in [Taggers -> GlobLocals]
    BY DEF GlobLocals, Modes, InvalidGroupID
  <2>3. find \in [Taggers -> FindLocals]
    <3>1. <<>> \in Seq(FileIds) /\ <<>> \in Seq(Replies)
      OBVIOUS
    <3>2. QED
      BY <3>1 DEF FindLocals
  <2>4. QED
    BY <2>1, <2>2, <2>3 DEF QueriesTypeOK
<1>2. WrittenAllocated /\ DeletersClear
  BY DEF WrittenAllocated, DeletersClear, Clients, Editors
<1>3. ASSUME NEW c \in Taggers
      PROVE  TaggerOK(c)
  <2>1. OneRequest(c)
    BY TaggerFacts DEF OneRequest, Connecting, GlobActive, FindActive
  <2>2. SeenWritten(c) /\ RowsTrue(c) /\ WorkMatches(c)
    BY DEF SeenWritten, RowsTrue, WorkMatches
  <2>3. RepliesTrue(c)
    BY DEF RepliesTrue
  <2>4. GlobProgress(c) /\ WalkProgress(c) /\ ByHashProgress(c)
    BY DEF GlobProgress, WalkProgress, ByHashProgress
  <2>5. QED
    BY <2>1, <2>2, <2>3, <2>4 DEF TaggerOK
<1>4. QED
  BY <1>1, <1>2, <1>3, TaggersOK

\* Every step keeps QueriesInv.
LEMMA QueriesStepOK ==
  ASSUME IInv, QueriesInv, [QNext]_queryVars
  PROVE  QueriesInv'
<1>1. \A c \in Taggers : TaggerOK(c)'
  BY ElsewhereOK, GlobStepOK, LocateStepOK
<1>2. QueriesTypeOK'
  <2>1. CASE BackendStep \/ UNCHANGED queryVars
    BY <2>1 DEF BackendStep, queryVars, QueriesInv, QueriesTypeOK
  <2>2. QED
    BY <2>1, GlobStepOK, LocateStepOK DEF QNext
<1>3. QED
  BY <1>1, <1>2, ClearKept, WrittenAllocatedKept
  DEF QueriesInv, TaggerOK, RowsTrue, LocatedRowsTrue, Agrees

(* However many queries, scans and deletions work at once, the store stays *)
(* sound and every query stays on its way to what it promises.             *)
THEOREM QueriesInvariance == QSpec => [](IInv /\ QueriesInv)
<1>1. QInit => IInv /\ QueriesInv
  BY QueriesInitOK, InitOK DEF QInit
<1>2. IInv /\ QueriesInv /\ [QNext]_queryVars => (IInv /\ QueriesInv)'
  BY AnyStepOK, QueriesStepOK
<1>3. QED
  BY <1>1, <1>2, PTL DEF QSpec

\* The invariant holds of every behaviour of the queries.
THEOREM QueriesInvTheorem == QSpec => []QueriesInv
BY QueriesInvariance, PTL

(* What a row of locate says of a file that is still there is true,        *)
(* whatever was scanned and deleted since the row was read.                *)
THEOREM RowsTheorem == QSpec => []LocatedRowsTrue
<1>1. QueriesInv => LocatedRowsTrue
  BY DEF QueriesInv
<1>2. QED
  BY <1>1, QueriesInvariance, PTL

(* locate misses no file that was there from its beginning to its end,     *)
(* whatever the size of the batches it reads them in.                      *)
THEOREM LocateTheorem == QSpec => []LocateMissesNothing
<1>1. QueriesInv => LocateMissesNothing
  BY DEF QueriesInv, LocateMissesNothing, WalkProgress
<1>2. QED
  BY <1>1, QueriesInvariance, PTL

(* locate --byhash that ends misses no copy of the item, nor, where it has *)
(* no result for an item, one of anything inside that item, however deep:  *)
(* what it was given for one hash is no excuse for another.  The copies    *)
(* are those there all the time that nobody deletes.                       *)
THEOREM ByHashTheorem == QSpec => []ByHashMissesNothing
<1>1. ASSUME QueriesInv, NEW c \in Taggers, NEW h, NEW f \in Known(c, h)
      PROVE  f \in SinceOf(c, h) /\ ~ Deleting(f)
  BY DEF Known, SinceOf, Deleting, Condemned, BeforeConfirm
<1>2. ASSUME QueriesInv PROVE ByHashMissesNothing
  <2>1. SUFFICES ASSUME NEW c \in Taggers, pc[c] = "done", find[c].root # NoHash
                 PROVE  \E asked \in SUBSET Hashes :
                          /\ find[c].root \in asked
                          /\ \A h \in asked :
                               /\ \A f \in Known(c, h) : Found(c, f)
                               /\ NoResult(c, h) => Inside[h] \subseteq asked
    BY DEF ByHashMissesNothing, At
  <2>2. OneRequest(c) /\ ByHashProgress(c) /\ find[c] \in FindLocals
    BY <1>2 DEF QueriesInv, QueriesTypeOK
  <2>3. find[c].at = "ended"
    BY <2>1, <2>2 DEF OneRequest, FindLocals, FindActive
  <2>4. Pending(c) = {}
    BY <2>1, <2>2, <2>3 DEF ByHashProgress, Pending
  <2>5. PICK asked \in SUBSET Hashes : find[c].root \in asked /\ Asking(c, asked)
    BY <2>1, <2>2 DEF ByHashProgress
  <2>6. \A h \in asked : Covered(c, h) /\ (NoResult(c, h) => Inside[h] \subseteq asked)
    BY <2>4, <2>5 DEF Asking
  <2>7. \A h \in asked : \A f \in Known(c, h) : Found(c, f)
    BY <1>1, <1>2, <2>6 DEF Covered
  <2>8. QED
    BY <2>5, <2>6, <2>7
<1>3. QED
  BY <1>2, QueriesInvariance, PTL

(* When tag --globs reports success, each file of the set that matches and *)
(* was there from the beginning has the tags, is being deleted, or is one  *)
(* that somebody else takes the tag from.                                  *)
THEOREM GlobTheorem == QSpec => []GlobReachesAll
<1>1. ASSUME QueriesInv PROVE GlobReachesAll
  <2>1. SUFFICES ASSUME NEW c \in Taggers, pc[c] = "done", glob[c].at = "ended",
                        glob[c].mode = "add", NEW f \in cursor[c].since,
                        FileExists(f), files[f].hash \in glob[c].pattern,
                        files[f].group = glob[c].owner,
                        files[f].group \notin Condemned,
                        NEW t \in glob[c].tags
                 PROVE  \/ t \in files[f].tags
                        \/ \E d \in Taggers \ {c} : Acts(d, "dele", f, t)
    BY DEF GlobReachesAll, At
  <2>2. OneRequest(c) /\ GlobProgress(c) /\ f \in Targets(c)
    BY <1>1, <2>1 DEF QueriesInv, Targets
  <2>3. ~ err[c]
    BY <2>1, <2>2 DEF OneRequest
  <2>4. Reached(c, f, t)
    BY <2>1, <2>2, <2>3 DEF GlobProgress
  <2>5. ~ Deleting(f)
    BY <2>1 DEF Deleting, Condemned, BeforeConfirm
  <2>6. QED
    BY <2>4, <2>5 DEF Reached
<1>2. QED
  BY <1>1, QueriesInvariance, PTL

(* A file gains a tag only from somebody who adds it to files that match   *)
(* as this one does, and loses one only so or with its set.                *)
THEOREM GlobTagsTheorem == QSpec => GlobsTagWhatTheyMatch
<1> DEFINE Allowed ==
             \A f \in FileIds : \A t \in Tags :
               FileExists(f) /\ FileExists(f)' =>
                 /\ t \in files'[f].tags \ files[f].tags =>
                      \E c \in Taggers : Acts(c, "add", f, t)
                 /\ t \in files[f].tags \ files'[f].tags =>
                      \/ \E c \in Taggers : Acts(c, "dele", f, t)
                      \/ files[f].group \in Condemned
<1>1. IInv /\ QueriesInv /\ [QNext]_queryVars => [Allowed]_queryVars
  <2>1. SUFFICES ASSUME IInv, QueriesInv, [QNext]_queryVars
                 PROVE  Allowed
    OBVIOUS
  <2>2. \A f : Deleting(f) => files[f].group \in Condemned
    BY DEF Deleting, Condemned, BeforeConfirm
  <2>3. QED
    BY <2>1, <2>2, TagChanges
<1>2. QED
  BY <1>1, QueriesInvariance, PTL DEF QSpec, GlobsTagWhatTheyMatch
=============================================================================
