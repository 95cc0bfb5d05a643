------------------------------- MODULE PgProofs -------------------------------
(***************************************************************************)
(* Every step of the PostgreSQL backend preserves PgInv, and the backend   *)
(* implements the abstract catalogue: what a reader of committed rows sees *)
(* changes as Catalogue says, one command at a time.                       *)
(***************************************************************************)
EXTENDS PgProperties, SequenceTheorems, TLAPS

\* Ids are numbers.
LEMMA IdFacts ==
  /\ MaxSets \in Nat /\ MaxFiles \in Nat
  /\ \A s \in SetIds : s \in Nat /\ s >= 1 /\ s <= MaxSets
  /\ \A f \in FileIds : f \in Nat /\ f >= 1 /\ f <= MaxFiles
  /\ InvalidGroupID \notin SetIds
BY PgAssumption DEF SetIds, FileIds, InvalidGroupID

\* Nobody and NoFile are not what they stand in for.
LEMMA ActorFacts ==
  /\ Nobody \notin Scanners /\ Nobody \notin Taggers /\ Nobody \notin Deleters
  /\ \A c \in Scanners : c \notin Taggers /\ c \notin Deleters /\ c \notin Editors
  /\ \A c \in Taggers : c \notin Deleters
  /\ NoFile \notin Row
BY PgAssumption DEF Clients, Editors

LEMMA RequestFacts ==
  ASSUME NEW e \in Requests
  PROVE  /\ Range(e.tags) \subseteq Tags
         /\ e.op \in {"add", "remove", "clear"}
         /\ \A old \in SUBSET Tags : NewTags(e, old) \in SUBSET Tags
<1>1. e \in Request
  BY PgAssumption
<1>2. e.tags \in Seq(Tags) /\ e.op \in {"add", "remove", "clear"}
  BY <1>1 DEF Request
<1>3. Range(e.tags) \subseteq Tags
  <2>1. DOMAIN e.tags = 1 .. Len(e.tags)
    BY <1>2, LenProperties
  <2>2. \A i \in DOMAIN e.tags : e.tags[i] \in Tags
    BY <1>2, <2>1, ElementOfSeq
  <2>3. QED
    BY <2>2 DEF Range
<1>4. QED
  BY <1>2, <1>3 DEF NewTags

\* A tagger's statement changes the tags of a row, a deleter's removes it.
LEMMA WrittenFacts ==
  ASSUME TypeOK, NEW c \in Editors, NEW row \in Row
  PROVE  /\ c \in Deleters => Written(c, row) = NoFile
         /\ c \in Taggers =>
              /\ Written(c, row) \in Row
              /\ Written(c, row).group = row.group
              /\ Written(c, row).path = row.path
              /\ Written(c, row).hash = row.hash
              /\ Written(c, row).tags = NewTags(edit[c], row.tags)
              /\ ItemOf(Written(c, row)) = ItemOf(row)
<1>1. CASE c \in Deleters
  BY <1>1, ActorFacts DEF Written
<1>2. CASE c \in Taggers
  <2>1. edit[c] \in Requests
    BY <1>2 DEF TypeOK
  <2>2. row.tags \in SUBSET Tags
    BY DEF Row
  <2>3. NewTags(edit[c], row.tags) \in SUBSET Tags
    BY <2>1, <2>2, RequestFacts
  <2>4. Written(c, row) = [row EXCEPT !.tags = NewTags(edit[c], row.tags)]
    BY <1>2 DEF Written
  <2> HIDE DEF Written, NewTags
  <2>5. QED
    BY <1>2, <2>3, <2>4, ActorFacts DEF Row, ItemOf
<1>3. QED
  BY <1>1, <1>2 DEF Editors

LEMMA InitInv == ASSUME Init PROVE PgInv
<1>1. TypeOK
  <2>1. pc \in [Clients -> Labels]
    BY PgAssumption DEF Init, Clients, Editors, Labels
  <2>2. scan \in [Scanners -> [disc : Discs, owner : SetIds \cup {InvalidGroupID},
                            group : SetIds \cup {InvalidGroupID}, written : Nat]]
    BY DEF Init
  <2>3. dele \in [Deleters -> [asked : Asks, found : SUBSET SetIds]]
    BY DEF Init
  <2>4. files \in [FileIds -> Row \cup {NoFile}] /\ draft \in [FileIds -> Row \cup {NoFile}]
    BY DEF Init
  <2>5. /\ setLock \in [SetIds -> Clients \cup {Nobody}]
        /\ fileLock \in [FileIds -> Clients \cup {Nobody}]
    BY DEF Init
  <2>6. todo \in [Editors -> SUBSET FileIds] /\ done \in [Editors -> SUBSET FileIds]
    BY DEF Init
  <2>7. nextSet \in 1 .. MaxSets + 1 /\ nextFile \in 1 .. MaxFiles + 1
    BY IdFacts DEF Init
  <2>8. sets \subseteq SetIds /\ edit \in [Taggers -> Requests]
    BY DEF Init
  <2>9. QED
    BY <2>1, <2>2, <2>3, <2>4, <2>5, <2>6, <2>7, <2>8 DEF TypeOK
<1>2. \A c \in Scanners : pc[c] = "look_up"
  BY PgAssumption DEF Init, Clients, Editors
<1>3. \A c \in Taggers : pc[c] = "update"
  BY PgAssumption DEF Init, Clients, Editors
<1>4. \A c \in Deleters : pc[c] = "fetch" /\ dele[c].found = {}
  BY PgAssumption DEF Init, Clients, Editors
<1>5. /\ IdsHandedOut
      /\ \A c \in Scanners : ScanHolds(c)
      /\ \A c \in Editors : EditHolds(c)
      /\ \A c \in Taggers : TaggerHolds(c)
      /\ \A c \in Deleters : DeleterHolds(c)
  BY <1>2, <1>3, <1>4, ActorFacts DEF Init, IdsHandedOut, ScanHolds, EditHolds,
     TaggerHolds, DeleterHolds, Clients, Editors
<1>6. SetsWhole
  BY DEF Init, SetsWhole, RowsOf
<1>7. ForeignKeyHolds /\ MissingSetWasDeleted /\ NoTagLost
  BY <1>2, <1>3, <1>4 DEF ForeignKeyHolds, MissingSetWasDeleted, NoTagLost,
     Clients, Editors
<1>8. QED
  BY <1>1, <1>5, <1>6, <1>7 DEF PgInv

-----------------------------------------------------------------------------
(* What a step of another process must leave alone.                        *)

LEMMA ScanFrame ==
  ASSUME NEW d \in Scanners, ScanHolds(d),
         pc'[d] = pc[d], scan'[d] = scan[d],
         \A s \in SetIds : /\ (setLock'[s] = d) <=> (setLock[s] = d)
                           /\ setLock[s] = d /\ s \in sets' => s \in sets,
         \A f \in FileIds : /\ (fileLock'[f] = d) <=> (fileLock[f] = d)
                            /\ fileLock[f] = d => /\ draft'[f] = draft[f]
                                                  /\ files'[f] = files[f]
  PROVE  ScanHolds(d)'
<1>1. {ItemOf(draft'[f]) : f \in {g \in FileIds : fileLock'[g] = d}}
        = {ItemOf(draft[f]) : f \in {g \in FileIds : fileLock[g] = d}}
  BY DEF ItemOf
<1>2. {scan'[d].disc[i] : i \in 1 .. scan'[d].written}
        = {scan[d].disc[i] : i \in 1 .. scan[d].written}
  OBVIOUS
<1>3. pc[d] = "insert_file" =>
        /\ scan'[d].group \in SetIds
        /\ setLock'[scan'[d].group] = d
        /\ scan'[d].written <= Len(scan'[d].disc)
        /\ {ItemOf(draft'[f]) : f \in {g \in FileIds : fileLock'[g] = d}}
             = {scan'[d].disc[i] : i \in 1 .. scan'[d].written}
  BY <1>1, <1>2 DEF ScanHolds
<1>4. \A f \in FileIds : fileLock'[f] = d =>
        /\ pc[d] = "insert_file"
        /\ files'[f] = NoFile
        /\ draft'[f] \in Row
        /\ draft'[f].group = scan'[d].group /\ draft'[f].tags = {}
  BY DEF ScanHolds
<1>5. \A s \in SetIds : setLock'[s] = d =>
        pc[d] = "insert_file" /\ s = scan'[d].group /\ s \notin sets'
  BY DEF ScanHolds
<1>6. QED
  BY <1>3, <1>4, <1>5 DEF ScanHolds

LEMMA EditFrame ==
  ASSUME TypeOK, NEW d \in Editors, EditHolds(d), edit' = edit,
         pc'[d] = pc[d], todo'[d] = todo[d], done'[d] = done[d],
         nextFile' \in Nat, nextFile' >= nextFile,
         \A f \in FileIds : /\ (fileLock'[f] = d) <=> (fileLock[f] = d)
                            /\ fileLock[f] = d => /\ draft'[f] = draft[f]
                                                  /\ files'[f] = files[f]
                            /\ f < nextFile /\ fileLock'[f] \in Scanners
                                 => fileLock[f] \in Scanners
  PROVE  EditHolds(d)'
<1>1. \A f \in FileIds : Written(d, files[f])' = Written(d, files'[f])
  BY DEF Written, NewTags
<1>2. \A f \in done[d] \cup todo[d] : f \in FileIds
  BY DEF TypeOK
<1>3. nextFile \in Nat
  BY IdFacts DEF TypeOK
<1>4. \A f \in done[d] \cup todo[d] : f < nextFile'
  BY <1>2, <1>3, IdFacts DEF EditHolds
<1>5. QED
  BY <1>1, <1>2, <1>4 DEF EditHolds

LEMMA TaggerFrame ==
  ASSUME TypeOK, NEW d \in Taggers, TaggerHolds(d), edit' = edit,
         pc'[d] = pc[d], todo'[d] = todo[d], done'[d] = done[d],
         \A s \in SetIds : setLock'[s] = d => setLock[s] = d,
         \A f \in todo[d] \cup done[d] : files'[f] # NoFile =>
           /\ files[f] # NoFile
           /\ files'[f].group = files[f].group
           /\ files'[f].path = files[f].path
  PROVE  TaggerHolds(d)'
BY DEF TaggerHolds, Matches, Single

LEMMA DeleterFrame ==
  ASSUME TypeOK, NEW d \in Deleters, DeleterHolds(d),
         pc'[d] = pc[d], dele'[d] = dele[d], todo'[d] = todo[d], done'[d] = done[d],
         nextSet' \in Nat, nextSet' >= nextSet,
         \A s \in SetIds : /\ (setLock'[s] = d) <=> (setLock[s] = d)
                           /\ setLock[s] = d => s \in sets',
         \A s \in dele[d].found : /\ s \in sets' => s \in sets
                                  /\ setLock'[s] \in Scanners => setLock[s] \in Scanners,
         \A f \in FileIds : /\ (fileLock'[f] = d) <=> (fileLock[f] = d)
                            /\ fileLock[f] = d => files'[f].group = files[f].group,
         \A f \in FileIds :
           files'[f] # NoFile /\ (f \in todo[d] \/ files'[f].group \in dele[d].found) =>
             files[f] # NoFile /\ files'[f].group = files[f].group
  PROVE  DeleterHolds(d)'
<1>1. nextSet \in Nat /\ \A s \in dele[d].found : s \in SetIds /\ s \in Nat
  BY IdFacts DEF TypeOK
<1>2. \A s \in dele[d].found : s < nextSet'
  BY <1>1 DEF DeleterHolds
<1>3. QED
  BY <1>1, <1>2 DEF DeleterHolds

-----------------------------------------------------------------------------
(* Rollback, the end of every transaction that fails.                      *)

LEMMA RollbackKeeps ==
  ASSUME PgInv, NEW c \in Clients, Rollback(c), Goto(c, "failed"), ~Ended(c),
         UNCHANGED <<nextSet, nextFile, scan, edit, dele, done>>
  PROVE  PgInv'
<1>0. TypeOK
  BY DEF PgInv
<1>1. /\ \A d \in Clients : d # c => pc'[d] = pc[d]
      /\ pc'[c] = "failed"
      /\ pc' \in [Clients -> Labels]
  BY <1>0 DEF Goto, TypeOK, Labels
<1>2. /\ \A s \in SetIds : setLock'[s] = IF setLock[s] = c THEN Nobody ELSE setLock[s]
      /\ \A f \in FileIds : fileLock'[f] = IF fileLock[f] = c THEN Nobody ELSE fileLock[f]
      /\ \A f \in FileIds : draft'[f] = IF fileLock[f] = c THEN NoFile ELSE draft[f]
      /\ \A e \in Editors : todo'[e] = IF e = c THEN {} ELSE todo[e]
      /\ sets' = sets /\ files' = files /\ scan' = scan /\ edit' = edit
      /\ dele' = dele /\ done' = done /\ nextSet' = nextSet /\ nextFile' = nextFile
  BY DEF Rollback, Release
<1>3. TypeOK'
  BY <1>0, <1>1 DEF TypeOK, Rollback, Release
<1>4. IdsHandedOut'
  BY <1>2, PgAssumption DEF PgInv, IdsHandedOut
<1>5. \A d \in Clients \ {c} : 
        /\ pc'[d] = pc[d]
        /\ \A s \in SetIds : (setLock'[s] = d) <=> (setLock[s] = d)
        /\ \A f \in FileIds : /\ (fileLock'[f] = d) <=> (fileLock[f] = d)
                              /\ fileLock[f] = d => draft'[f] = draft[f]
  BY <1>1, <1>2, PgAssumption
<1>6. /\ \A s \in SetIds : setLock'[s] \in Scanners => setLock[s] \in Scanners
      /\ \A f \in FileIds : fileLock'[f] \in Scanners => fileLock[f] \in Scanners
      /\ \A s \in SetIds : setLock'[s] # c
      /\ \A f \in FileIds : fileLock'[f] # c
  BY <1>2, ActorFacts, PgAssumption
<1>7. nextSet \in Nat /\ nextFile \in Nat
  BY <1>0, IdFacts DEF TypeOK
<1>8. \A d \in Scanners : ScanHolds(d)'
  <2> SUFFICES ASSUME NEW d \in Scanners PROVE ScanHolds(d)'
    OBVIOUS
  <2>1. CASE d = c
    BY <2>1, <1>1, <1>6 DEF ScanHolds
  <2>2. CASE d # c
    BY <2>2, <1>2, <1>5, ScanFrame DEF PgInv, Clients
  <2>3. QED
    BY <2>1, <2>2
<1>9. \A d \in Editors : EditHolds(d)'
  <2> SUFFICES ASSUME NEW d \in Editors PROVE EditHolds(d)'
    OBVIOUS
  <2>1. CASE d = c
    <3>1. \A f \in done[c] : f \in FileIds /\ f < nextFile
      BY <2>1, <1>0 DEF PgInv, EditHolds, TypeOK
    <3>2. \A f \in done[c] : fileLock'[f] \notin Scanners
      BY <2>1, <3>1, <1>2, <1>6 DEF PgInv, EditHolds
    <3>3. todo'[c] = {} /\ done'[c] = done[c] /\ nextFile' = nextFile
      BY <2>1, <1>2
    <3>4. QED
      BY <2>1, <3>1, <3>2, <3>3, <1>1, <1>6 DEF EditHolds
  <2>2. CASE d # c
    BY <2>2, <1>0, <1>2, <1>5, <1>6, <1>7, EditFrame DEF PgInv, Clients
  <2>3. QED
    BY <2>1, <2>2
<1>10. \A d \in Taggers : TaggerHolds(d)'
  <2> SUFFICES ASSUME NEW d \in Taggers PROVE TaggerHolds(d)'
    OBVIOUS
  <2>1. CASE d = c
    BY <2>1, <1>1, <1>6 DEF TaggerHolds
  <2>2. CASE d # c
    BY <2>2, <1>0, <1>2, <1>5, TaggerFrame DEF PgInv, Clients, Editors
  <2>3. QED
    BY <2>1, <2>2
<1>11. \A d \in Deleters : DeleterHolds(d)'
  <2> SUFFICES ASSUME NEW d \in Deleters PROVE DeleterHolds(d)'
    OBVIOUS
  <2>1. dele[d].found \subseteq SetIds
    BY <1>0 DEF TypeOK
  <2>2. CASE d = c
    BY <2>1, <2>2, <1>1, <1>2, <1>6 DEF PgInv, DeleterHolds
  <2>3. CASE d # c
    <3>1. \A s \in SetIds : setLock[s] = d => s \in sets'
      BY <1>2 DEF PgInv, DeleterHolds
    <3>2. QED
      BY <2>1, <2>3, <3>1, <1>0, <1>2, <1>5, <1>6, <1>7, DeleterFrame
         DEF PgInv, Clients, Editors
  <2>4. QED
    BY <2>2, <2>3
<1>12. SetsWhole'
  BY <1>2 DEF PgInv, SetsWhole, RowsOf, ItemOf
<1>13. ForeignKeyHolds' /\ MissingSetWasDeleted' /\ NoTagLost'
  BY <1>1, <1>2 DEF PgInv, ForeignKeyHolds, MissingSetWasDeleted, NoTagLost,
     Ended, Clients, Editors
<1>14. QED
  BY <1>3, <1>4, <1>8, <1>9, <1>10, <1>11, <1>12, <1>13 DEF PgInv

-----------------------------------------------------------------------------
(* Steps that read the tables and change locals of their process only.     *)

LEMMA LocalKeeps ==
  ASSUME PgInv, TypeOK', NEW c \in Clients,
         UNCHANGED <<tables, locks, edit, done>>,
         pc[c] # "done", pc'[c] # "foreign_key", c \in Taggers => pc'[c] # "done",
         \A d \in Clients \ {c} : pc'[d] = pc[d],
         \A d \in Scanners \ {c} : scan'[d] = scan[d],
         \A d \in Editors \ {c} : todo'[d] = todo[d],
         \A d \in Deleters \ {c} : dele'[d] = dele[d],
         c \in Scanners => ScanHolds(c)', c \in Editors => EditHolds(c)',
         c \in Taggers => TaggerHolds(c)', c \in Deleters => DeleterHolds(c)',
         c \in Scanners /\ pc'[c] \in {"read_set", "missing_set"} =>
           \/ scan'[c].owner \in sets
           \/ \E d \in Deleters : pc[d] = "done" /\ scan'[c].owner \in dele[d].found
  PROVE  PgInv'
<1>0. TypeOK /\ nextSet \in Nat /\ nextFile \in Nat
  BY IdFacts DEF PgInv, TypeOK
<1>1. UNCHANGED <<sets, files, nextSet, nextFile, setLock, fileLock, draft, edit, done>>
  BY DEF tables, locks
<1>2. IdsHandedOut' /\ SetsWhole'
  BY <1>1 DEF PgInv, IdsHandedOut, SetsWhole, RowsOf, ItemOf
<1>3. ASSUME NEW d \in Scanners PROVE ScanHolds(d)'
  BY <1>1, ScanFrame DEF PgInv, Clients
<1>4. ASSUME NEW d \in Editors PROVE EditHolds(d)'
  BY <1>0, <1>1, EditFrame DEF PgInv, Clients
<1>5. ASSUME NEW d \in Taggers PROVE TaggerHolds(d)'
  BY <1>0, <1>1, TaggerFrame DEF PgInv, Clients, Editors
<1>6. ASSUME NEW d \in Deleters PROVE DeleterHolds(d)'
  <2>1. CASE d = c
    BY <2>1
  <2>2. CASE d # c
    <3>1. \A s \in SetIds : setLock[s] = d => s \in sets
      BY DEF PgInv, DeleterHolds
    <3>2. DeleterHolds(d) /\ d \in Clients \ {c} /\ d \in Editors \ {c}
      BY <2>2 DEF PgInv, Clients, Editors
    <3>3. QED
      BY <2>2, <3>1, <3>2, <1>0, <1>1, DeleterFrame
  <2>3. QED
    BY <2>1, <2>2
<1>7. ForeignKeyHolds'
  BY DEF PgInv, ForeignKeyHolds
<1>8. MissingSetWasDeleted'
  <2> SUFFICES ASSUME NEW d \in Scanners, pc'[d] \in {"read_set", "missing_set"},
                      scan'[d].owner \notin sets
               PROVE  \E e \in Deleters : pc'[e] = "done" /\ scan'[d].owner \in dele'[e].found
    BY <1>1 DEF MissingSetWasDeleted
  <2>1. PICK e \in Deleters : pc[e] = "done" /\ scan'[d].owner \in dele[e].found
    BY DEF PgInv, MissingSetWasDeleted, Clients
  <2>2. QED
    BY <2>1 DEF Clients, Editors
<1>9. NoTagLost'
  BY <1>1, ActorFacts DEF PgInv, NoTagLost, Clients, Editors
<1>10. QED
  BY <1>2, <1>3, <1>4, <1>5, <1>6, <1>7, <1>8, <1>9 DEF PgInv

\* What Goto and the type invariant say of a step of c.
LEMMA GotoFacts ==
  ASSUME TypeOK, NEW c \in Clients, NEW l \in Labels, Goto(c, l)
  PROVE  /\ pc' \in [Clients -> Labels]
         /\ pc'[c] = l
         /\ \A d \in Clients \ {c} : pc'[d] = pc[d]
BY DEF Goto, TypeOK

LEMMA LookUpKeeps == ASSUME PgInv, NEW c \in Scanners, LookUp(c) PROVE PgInv'
<1>0. TypeOK /\ c \in Clients /\ UNCHANGED <<tables, locks, edit, dele, todo, done>>
  BY DEF PgInv, LookUp, Clients
<1>1. /\ ScanHolds(c) /\ pc[c] = "look_up"
  BY DEF PgInv, LookUp
<1>2. CASE Goto(c, "insert_set") /\ UNCHANGED scan
  <2>1. TypeOK'
    BY <1>0, <1>2, GotoFacts DEF TypeOK, tables, locks, Labels
  <2>2. pc'[c] = "insert_set" /\ \A d \in Clients \ {c} : pc'[d] = pc[d]
    BY <1>0, <1>2, GotoFacts DEF Labels
  <2>3. ScanHolds(c)'
    BY <1>0, <1>1, <1>2, <2>2 DEF ScanHolds, locks, tables
  <2>4. QED
    BY <1>0, <1>1, <1>2, <2>1, <2>2, <2>3, LocalKeeps, ActorFacts
<1>3. ASSUME NEW f \in FileIds, files[f] # NoFile,
             scan' = [scan EXCEPT ![c].owner = files[f].group], Goto(c, "read_set")
      PROVE  PgInv'
  <2>1. files[f] \in Row /\ files[f].group \in SetIds
    BY <1>0, <1>3 DEF TypeOK, Row
  <2>2. files[f].group \in sets
    BY <1>3, <2>1 DEF PgInv, SetsWhole, RowsOf
  <2>3. pc'[c] = "read_set" /\ \A d \in Clients \ {c} : pc'[d] = pc[d]
    BY <1>0, <1>3, GotoFacts DEF Labels
  <2>4. /\ scan'[c].owner = files[f].group /\ scan'[c].written = scan[c].written
        /\ \A d \in Scanners \ {c} : scan'[d] = scan[d]
    BY <1>0, <1>3 DEF TypeOK
  <2>5. TypeOK'
    <3>1. pc' \in [Clients -> Labels]
      BY <1>0, <1>3, GotoFacts DEF Labels
    <3>2. scan' \in [Scanners -> [disc : Discs, owner : SetIds \cup {InvalidGroupID},
                            group : SetIds \cup {InvalidGroupID}, written : Nat]]
      BY <1>0, <1>3, <2>1 DEF TypeOK
    <3>3. QED
      BY <1>0, <3>1, <3>2 DEF TypeOK, tables, locks
  <2>6. ScanHolds(c)'
    BY <1>0, <1>1, <2>3, <2>4 DEF ScanHolds, locks, tables
  <2>7. QED
    BY <1>0, <1>1, <2>2, <2>3, <2>4, <2>5, <2>6, LocalKeeps, ActorFacts
<1>4. QED
  BY <1>2, <1>3 DEF LookUp

LEMMA ReadSetKeeps == ASSUME PgInv, NEW c \in Scanners, ReadSet(c) PROVE PgInv'
<1>0. /\ TypeOK /\ c \in Clients
      /\ UNCHANGED <<tables, locks, scan, edit, dele, todo, done>>
  BY DEF PgInv, ReadSet, Clients
<1>1. /\ ScanHolds(c) /\ pc[c] = "read_set"
  BY DEF PgInv, ReadSet
<1>2. pc'[c] \in {"done", "missing_set"} /\ \A d \in Clients \ {c} : pc'[d] = pc[d]
  BY <1>0, GotoFacts DEF ReadSet, Labels
<1>3. TypeOK'
  BY <1>0, GotoFacts DEF ReadSet, TypeOK, tables, locks, Labels
<1>4. ScanHolds(c)'
  BY <1>0, <1>1, <1>2 DEF ScanHolds, locks, tables
<1>5. \/ scan'[c].owner \in sets
      \/ \E d \in Deleters : pc[d] = "done" /\ scan'[c].owner \in dele[d].found
  BY <1>0, <1>1 DEF PgInv, MissingSetWasDeleted
<1>6. QED
  BY <1>0, <1>1, <1>2, <1>3, <1>4, <1>5, LocalKeeps, ActorFacts

\* No scan holds a row that a statement of somebody else can see.
LEMMA SeenRows ==
  ASSUME PgInv, NEW f \in FileIds, files[f] # NoFile
  PROVE  /\ f < nextFile /\ fileLock[f] \notin Scanners
         /\ files[f] \in Row /\ files[f].group \in sets
<1>1. files[f] \in Row /\ files[f].group \in SetIds
  BY DEF PgInv, TypeOK, Row
<1>2. files[f].group \in sets
  BY <1>1 DEF PgInv, SetsWhole, RowsOf
<1>3. QED
  BY <1>1, <1>2 DEF PgInv, IdsHandedOut, ScanHolds

LEMMA UpdateKeeps == ASSUME PgInv, NEW c \in Taggers, Update(c) PROVE PgInv'
<1>0. /\ TypeOK /\ c \in Clients /\ c \in Editors
      /\ UNCHANGED <<tables, locks, scan, edit, dele, done>>
      /\ UNCHANGED <<files, setLock, fileLock, draft, nextFile>>
      /\ pc[c] = "update" /\ EditHolds(c) /\ TaggerHolds(c)
  BY DEF PgInv, Update, Clients, Editors, tables, locks
<1>1. \A f \in FileIds : fileLock[f] # c
  BY <1>0 DEF EditHolds
<1>2. done[c] = {}
  BY <1>0 DEF TaggerHolds
<1>3. CASE Goto(c, "failed") /\ UNCHANGED todo
  <2>1. pc'[c] = "failed" /\ \A d \in Clients \ {c} : pc'[d] = pc[d]
    BY <1>0, <1>3, GotoFacts DEF Labels
  <2>2. TypeOK'
    BY <1>0, <1>3, GotoFacts DEF TypeOK, tables, locks, Labels
  <2>3. EditHolds(c)' /\ TaggerHolds(c)'
    BY <1>0, <1>1, <1>3, <2>1 DEF EditHolds, TaggerHolds
  <2>4. QED
    BY <1>0, <1>3, <2>1, <2>2, <2>3, LocalKeeps, ActorFacts
<1>4. CASE /\ todo' = [todo EXCEPT ![c] = {f \in FileIds : files[f] # NoFile
                                                    /\ Matches(edit[c], f)}]
           /\ Goto(c, "lock_rows")
  <2>1. pc'[c] = "lock_rows" /\ \A d \in Clients \ {c} : pc'[d] = pc[d]
    BY <1>0, <1>4, GotoFacts DEF Labels
  <2>2. /\ todo' \in [Editors -> SUBSET FileIds]
        /\ todo'[c] = {f \in FileIds : files[f] # NoFile /\ Matches(edit[c], f)}
        /\ \A d \in Editors \ {c} : todo'[d] = todo[d]
    BY <1>0, <1>4 DEF TypeOK
  <2>3. TypeOK'
    BY <1>0, <1>4, <2>2, GotoFacts DEF TypeOK, tables, locks, Labels
  <2>4. EditHolds(c)'
    BY <1>0, <1>1, <1>2, <2>1, <2>2, SeenRows DEF EditHolds
  <2>5. TaggerHolds(c)'
    BY <1>0, <1>2, <2>1, <2>2 DEF TaggerHolds, Matches, Single
  <2>6. QED
    BY <1>0, <2>1, <2>2, <2>3, <2>4, <2>5, LocalKeeps, ActorFacts
<1>5. QED
  BY <1>3, <1>4 DEF Update

LEMMA FetchKeeps ==
  ASSUME PgInv, NEW c \in Deleters, FetchExistingIds(c) PROVE PgInv'
<1>0. /\ TypeOK /\ c \in Clients /\ c \in Editors
      /\ UNCHANGED <<tables, locks, scan, edit, todo, done>>
      /\ UNCHANGED <<sets, files, setLock, fileLock, draft, nextFile, nextSet>>
      /\ pc[c] = "fetch" /\ EditHolds(c) /\ DeleterHolds(c)
  BY DEF PgInv, FetchExistingIds, Clients, Editors, tables, locks
<1>1. pc'[c] \in {"done", "confirm"} /\ \A d \in Clients \ {c} : pc'[d] = pc[d]
  BY <1>0, GotoFacts DEF FetchExistingIds, Labels
<1>2. /\ dele' \in [Deleters -> [asked : Asks, found : SUBSET SetIds]]
      /\ dele'[c].asked = dele[c].asked
      /\ dele'[c].found = dele[c].asked \cap sets
      /\ \A d \in Deleters \ {c} : dele'[d] = dele[d]
  BY <1>0 DEF FetchExistingIds, TypeOK
<1>3. TypeOK'
  BY <1>0, <1>2, GotoFacts DEF FetchExistingIds, TypeOK, tables, locks, Labels
<1>4. EditHolds(c)'
  <2>1. \A f \in FileIds : fileLock[f] # c
    BY <1>0 DEF EditHolds
  <2>2. QED
    BY <2>1, <1>0, <1>1 DEF EditHolds
<1>5. \A s \in sets : s \in SetIds /\ s < nextSet /\ setLock[s] \notin Scanners
  BY <1>0 DEF PgInv, IdsHandedOut, ScanHolds, TypeOK
<1>6. \A f \in FileIds : fileLock[f] # c
  BY <1>0 DEF EditHolds
<1>7. DeleterHolds(c)'
  BY <1>0, <1>1, <1>2, <1>5, <1>6 DEF DeleterHolds
<1>8. QED
  BY <1>0, <1>1, <1>2, <1>3, <1>4, <1>7, LocalKeeps, ActorFacts

LEMMA AnswerKeeps == ASSUME PgInv, NEW c \in Deleters, Answer(c) PROVE PgInv'
<1>0. /\ TypeOK /\ c \in Clients /\ c \in Editors
      /\ UNCHANGED <<tables, locks, scan, edit, dele, todo, done>>
      /\ UNCHANGED <<sets, files, setLock, fileLock, draft, nextFile, nextSet>>
      /\ pc[c] = "confirm" /\ EditHolds(c) /\ DeleterHolds(c)
  BY DEF PgInv, Answer, Clients, Editors, tables, locks
<1>1. /\ pc' \in [Clients -> Labels] /\ pc'[c] \in {"done", "delete_files"}
      /\ \A d \in Clients \ {c} : pc'[d] = pc[d]
  BY <1>0, GotoFacts DEF Answer, Labels
<1>2. TypeOK'
  BY <1>0, <1>1 DEF TypeOK, tables, locks
<1>3. \A f \in FileIds : fileLock[f] # c
  BY <1>0 DEF EditHolds
<1>4. EditHolds(c)'
  BY <1>0, <1>1, <1>3 DEF EditHolds
<1>5. DeleterHolds(c)'
  BY <1>0, <1>1, <1>3 DEF DeleterHolds
<1>6. QED
  BY <1>0, <1>1, <1>2, <1>4, <1>5, LocalKeeps, ActorFacts

LEMMA DeleteFilesKeeps ==
  ASSUME PgInv, NEW c \in Deleters, DeleteFiles(c) PROVE PgInv'
<1>0. /\ TypeOK /\ c \in Clients /\ c \in Editors
      /\ UNCHANGED <<tables, locks, scan, edit, dele, done>>
      /\ UNCHANGED <<sets, files, setLock, fileLock, draft, nextFile, nextSet>>
      /\ pc[c] = "delete_files" /\ EditHolds(c) /\ DeleterHolds(c)
  BY DEF PgInv, DeleteFiles, Clients, Editors, tables, locks
<1>1. /\ pc' \in [Clients -> Labels] /\ pc'[c] = "lock_rows"
      /\ \A d \in Clients \ {c} : pc'[d] = pc[d]
  BY <1>0, GotoFacts DEF DeleteFiles, Labels
<1>2. /\ todo' \in [Editors -> SUBSET FileIds]
      /\ todo'[c] = {f \in FileIds : files[f] # NoFile
                                     /\ files[f].group \in dele[c].found}
      /\ \A d \in Editors \ {c} : todo'[d] = todo[d]
  BY <1>0 DEF DeleteFiles, TypeOK
<1>3. TypeOK'
  BY <1>0, <1>1, <1>2 DEF TypeOK, tables, locks
<1>4. (\A f \in FileIds : fileLock[f] # c) /\ done[c] = {}
  BY <1>0 DEF EditHolds, DeleterHolds
<1>5. EditHolds(c)'
  BY <1>0, <1>1, <1>2, <1>4, SeenRows DEF EditHolds
<1>6. DeleterHolds(c)'
  BY <1>0, <1>1, <1>2, <1>4 DEF DeleterHolds
<1>7. QED
  BY <1>0, <1>1, <1>2, <1>3, <1>5, <1>6, LocalKeeps, ActorFacts

LEMMA EndDeleteFilesKeeps ==
  ASSUME PgInv, NEW c \in Deleters, EndDeleteFiles(c) PROVE PgInv'
<1>0. /\ TypeOK /\ c \in Clients /\ c \in Editors
      /\ UNCHANGED <<tables, locks, scan, edit, dele, todo, done>>
      /\ UNCHANGED <<sets, files, setLock, fileLock, draft, nextFile, nextSet>>
      /\ pc[c] = "lock_rows" /\ todo[c] = {} /\ EditHolds(c) /\ DeleterHolds(c)
  BY DEF PgInv, EndDeleteFiles, Clients, Editors, tables, locks
<1>1. /\ pc' \in [Clients -> Labels] /\ pc'[c] = "delete_sets"
      /\ \A d \in Clients \ {c} : pc'[d] = pc[d]
  BY <1>0, GotoFacts DEF EndDeleteFiles, Labels
<1>2. TypeOK'
  BY <1>0, <1>1 DEF TypeOK, tables, locks
<1>3. \A f \in FileIds : Written(c, files[f])' = Written(c, files[f])
  BY <1>0 DEF Written, NewTags
<1>4. EditHolds(c)'
  BY <1>0, <1>1, <1>3 DEF EditHolds
<1>5. DeleterHolds(c)'
  BY <1>0, <1>1 DEF DeleterHolds
<1>6. QED
  BY <1>0, <1>1, <1>2, <1>4, <1>5, LocalKeeps, ActorFacts

-----------------------------------------------------------------------------
(* Steps that write: what they owe to the other processes.                 *)

LEMMA StepKeeps ==
  ASSUME PgInv, TypeOK', IdsHandedOut', SetsWhole', NoTagLost', NEW c \in Clients,
         edit' = edit, dele' = dele, nextSet' >= nextSet, nextFile' >= nextFile,
         pc[c] # "done", pc'[c] \notin {"read_set", "missing_set", "foreign_key"},
         \A d \in Clients \ {c} : pc'[d] = pc[d],
         \A d \in Scanners \ {c} : scan'[d] = scan[d],
         \A d \in Editors \ {c} : todo'[d] = todo[d] /\ done'[d] = done[d],
         \A d \in Clients \ {c} :
           /\ \A s \in SetIds : (setLock'[s] = d) <=> (setLock[s] = d)
           /\ \A f \in FileIds : (fileLock'[f] = d) <=> (fileLock[f] = d),
         \A f \in FileIds : fileLock[f] \notin {c, Nobody} =>
           draft'[f] = draft[f] /\ files'[f] = files[f],
         \A s \in SetIds : s < nextSet /\ setLock'[s] \in Scanners =>
           setLock[s] \in Scanners,
         \A f \in FileIds : f < nextFile /\ fileLock'[f] \in Scanners =>
           fileLock[f] \in Scanners,
         \A s \in SetIds : s \in sets' /\ s \notin sets =>
           c \in Scanners /\ setLock[s] = c,
         \A s \in SetIds : s \in sets /\ s \notin sets' =>
           /\ c \in Deleters /\ setLock[s] = c
           /\ pc'[c] = "done" /\ s \in dele[c].found,
         \A f \in FileIds : files'[f] # NoFile =>
           \/ /\ files[f] # NoFile
              /\ files'[f].group = files[f].group /\ files'[f].path = files[f].path
           \/ fileLock[f] \in Scanners /\ setLock[files'[f].group] \in Scanners,
         c \in Scanners => ScanHolds(c)', c \in Editors => EditHolds(c)',
         c \in Taggers => TaggerHolds(c)', c \in Deleters => DeleterHolds(c)'
  PROVE  PgInv'
<1>0. /\ TypeOK /\ nextSet \in Nat /\ nextFile \in Nat
      /\ nextSet' \in Nat /\ nextFile' \in Nat
  BY IdFacts DEF PgInv, TypeOK
<1>3. ASSUME NEW d \in Scanners PROVE ScanHolds(d)'
  <2>1. CASE d # c
    <3>1. d \in Clients \ {c} /\ ScanHolds(d) /\ d # Nobody
      BY <2>1, ActorFacts DEF PgInv, Clients
    <3>2. QED
      BY <2>1, <3>1, ScanFrame
  <2>2. QED
    BY <2>1
<1>4. ASSUME NEW d \in Editors PROVE EditHolds(d)'
  <2>1. CASE d # c
    <3>1. d \in Clients \ {c} /\ EditHolds(d) /\ d # Nobody
      BY <2>1, ActorFacts DEF PgInv, Clients, Editors
    <3>2. QED
      BY <2>1, <3>1, <1>0, EditFrame
  <2>2. QED
    BY <2>1
<1>5. ASSUME NEW d \in Taggers PROVE TaggerHolds(d)'
  <2>1. CASE d # c
    <3>1. d \in Clients \ {c} /\ d \in Editors \ {c} /\ TaggerHolds(d) /\ EditHolds(d)
      BY <2>1 DEF PgInv, Clients, Editors
    <3>2. \A f \in todo[d] \cup done[d] : f \in FileIds /\ fileLock[f] \notin Scanners
      BY <3>1, <1>0 DEF EditHolds, TypeOK
    <3>3. QED
      BY <2>1, <3>1, <3>2, <1>0, TaggerFrame
  <2>2. QED
    BY <2>1
<1>6. ASSUME NEW d \in Deleters PROVE DeleterHolds(d)'
  <2>1. CASE d # c
    <3>1. /\ d \in Clients \ {c} /\ d \in Editors \ {c} /\ d # Nobody
          /\ DeleterHolds(d) /\ EditHolds(d)
      BY <2>1, ActorFacts DEF PgInv, Clients, Editors
    <3>2. \A s \in dele[d].found : /\ s \in SetIds /\ s < nextSet
                                   /\ setLock[s] \notin Scanners
      BY <3>1, <1>0 DEF DeleterHolds, TypeOK
    <3>3. \A f \in todo[d] : f \in FileIds /\ fileLock[f] \notin Scanners
      BY <3>1, <1>0 DEF EditHolds, TypeOK
    <3>4. \A s \in SetIds : setLock[s] = d => s \in sets'
      BY <3>1 DEF DeleterHolds
    <3>5. \A f \in FileIds : fileLock[f] = d => files'[f].group = files[f].group
      BY <3>1
    <3>6. \A f \in FileIds :
           files'[f] # NoFile /\ (f \in todo[d] \/ files'[f].group \in dele[d].found) =>
             files[f] # NoFile /\ files'[f].group = files[f].group
      BY <3>2, <3>3
    <3>7. \A s \in dele[d].found :
            /\ s \in sets' => s \in sets
            /\ setLock'[s] \in Scanners => setLock[s] \in Scanners
      BY <3>2
    <3>8. QED
      BY <3>1, <3>4, <3>5, <3>6, <3>7, <1>0, DeleterFrame
  <2>2. QED
    BY <2>1
<1>7. ForeignKeyHolds'
  BY DEF PgInv, ForeignKeyHolds
<1>8. MissingSetWasDeleted'
  <2> SUFFICES ASSUME NEW d \in Scanners, pc'[d] \in {"read_set", "missing_set"},
                      scan'[d].owner \notin sets'
               PROVE  \E e \in Deleters : pc'[e] = "done" /\ scan'[d].owner \in dele[e].found
    BY DEF MissingSetWasDeleted
  <2>0. d # c /\ pc'[d] = pc[d] /\ scan'[d] = scan[d]
    BY DEF Clients
  <2>1. CASE scan[d].owner \in sets
    BY <2>0, <2>1, <1>0 DEF TypeOK
  <2>2. CASE scan[d].owner \notin sets
    <3>1. PICK e \in Deleters : pc[e] = "done" /\ scan[d].owner \in dele[e].found
      BY <2>0, <2>2 DEF PgInv, MissingSetWasDeleted
    <3>2. pc'[e] = "done"
      BY <3>1 DEF Clients, Editors
    <3>3. QED
      BY <2>0, <3>1, <3>2
  <2>3. QED
    BY <2>1, <2>2
<1>10. QED
  BY <1>3, <1>4, <1>5, <1>6, <1>7, <1>8 DEF PgInv

\* Steps that change no tags lose none.
LEMMA TagsKept ==
  ASSUME PgInv, NEW c \in Clients, edit' = edit,
         pc[c] # "done", c \in Taggers => pc'[c] # "done",
         \A d \in Clients \ {c} : pc'[d] = pc[d],
         \A d \in Editors \ {c} : done'[d] = done[d],
         \A f \in FileIds : files'[f] # NoFile =>
           files'[f] = files[f] \/ fileLock[f] \in Scanners
  PROVE  NoTagLost'
<1> SUFFICES ASSUME NEW d \in Taggers, NEW f \in done'[d],
                    pc'[d] = "done", edit[d].op = "add", files'[f] # NoFile,
                    ~(Range(edit[d].tags) \subseteq files'[f].tags)
             PROVE  \E e \in Taggers : pc'[e] = "done" /\ f \in done'[e]
                                       /\ edit[e].op # "add"
  BY DEF NoTagLost
<1>1. d # c /\ pc[d] = "done" /\ done'[d] = done[d] /\ d \in Editors
  BY DEF Clients, Editors
<1>2. f \in FileIds /\ fileLock[f] \notin Scanners
  BY <1>1 DEF PgInv, TypeOK, EditHolds
<1>3. files'[f] = files[f]
  BY <1>2
<1>4. PICK e \in Taggers : pc[e] = "done" /\ f \in done[e] /\ edit[e].op # "add"
  BY <1>1, <1>2, <1>3 DEF PgInv, NoTagLost
<1>5. QED
  BY <1>4 DEF Clients, Editors

LEMMA InsertSetKeeps == ASSUME PgInv, NEW c \in Scanners, InsertSet(c) PROVE PgInv'
<1>0. /\ TypeOK /\ c \in Clients /\ pc[c] = "insert_set" /\ ScanHolds(c)
      /\ UNCHANGED <<sets, files, nextFile, fileLock, draft, edit, dele, todo, done>>
      /\ nextSet <= MaxSets /\ nextSet' = nextSet + 1
      /\ nextSet \in SetIds /\ nextSet \in Nat /\ nextFile \in Nat
  BY IdFacts DEF PgInv, InsertSet, Clients, TypeOK, SetIds
<1>1. /\ pc' \in [Clients -> Labels] /\ pc'[c] = "insert_file"
      /\ \A d \in Clients \ {c} : pc'[d] = pc[d]
  BY <1>0, GotoFacts DEF InsertSet, Labels
<1>2. /\ setLock' \in [SetIds -> Clients \cup {Nobody}]
      /\ setLock'[nextSet] = c
      /\ \A s \in SetIds \ {nextSet} : setLock'[s] = setLock[s]
  BY <1>0 DEF InsertSet, TypeOK
<1>3. setLock[nextSet] = Nobody /\ nextSet \notin sets
  BY <1>0 DEF PgInv, IdsHandedOut
<1>4. /\ scan' \in [Scanners -> [disc : Discs, owner : SetIds \cup {InvalidGroupID},
                            group : SetIds \cup {InvalidGroupID}, written : Nat]]
      /\ scan'[c].group = nextSet
      /\ scan'[c].written = scan[c].written /\ scan'[c].disc = scan[c].disc
      /\ scan'[c].owner = scan[c].owner
      /\ \A d \in Scanners \ {c} : scan'[d] = scan[d]
  BY <1>0 DEF InsertSet, TypeOK
<1>5. TypeOK'
  <2>1. nextSet' \in 1 .. MaxSets + 1
    BY <1>0, IdFacts DEF SetIds
  <2>2. QED
    BY <1>0, <1>1, <1>2, <1>4, <2>1 DEF TypeOK
<1>6. IdsHandedOut'
  <2>1. \A s \in SetIds : s < nextSet => s < nextSet'
    BY <1>0, IdFacts
  <2>2. nextSet < nextSet'
    BY <1>0
  <2>3. QED
    BY <1>0, <1>2, <2>1, <2>2 DEF PgInv, IdsHandedOut
<1>7. ScanHolds(c)'
  <2>1. scan[c].written = 0 /\ Len(scan[c].disc) \in Nat
    BY <1>0, PgAssumption DEF ScanHolds, TypeOK
  <2>2. \A f \in FileIds : fileLock[f] # c
    BY <1>0 DEF ScanHolds
  <2>3. /\ {ItemOf(draft'[f]) : f \in {g \in FileIds : fileLock'[g] = c}} = {}
        /\ {scan'[c].disc[i] : i \in 1 .. scan'[c].written} = {}
    BY <1>0, <1>4, <2>1, <2>2
  <2>4. \A s \in SetIds : setLock'[s] = c => s = nextSet
    BY <1>0, <1>2 DEF ScanHolds
  <2>5. /\ scan'[c].group \in SetIds /\ setLock'[scan'[c].group] = c
        /\ scan'[c].written <= Len(scan'[c].disc)
        /\ {ItemOf(draft'[f]) : f \in {g \in FileIds : fileLock'[g] = c}}
             = {scan'[c].disc[i] : i \in 1 .. scan'[c].written}
    <3>1. scan'[c].written <= Len(scan'[c].disc)
      BY <1>4, <2>1
    <3>2. QED
      BY <1>0, <1>2, <1>4, <2>3, <3>1
  <2>6. \A f \in FileIds : fileLock'[f] # c
    BY <1>0, <2>2
  <2>7. QED
    BY <1>1, <1>3, <1>4, <1>0, <2>4, <2>5, <2>6 DEF ScanHolds
<1>8. SetsWhole'
  BY <1>0 DEF PgInv, SetsWhole, RowsOf, ItemOf
<1>9. NoTagLost'
  BY <1>0, <1>1, TagsKept, ActorFacts
<1>10. \A s \in SetIds : s < nextSet => s # nextSet
  BY <1>0, IdFacts
<1>11. \A d \in Clients \ {c} : \A s \in SetIds : (setLock'[s] = d) <=> (setLock[s] = d)
  BY <1>2, <1>3, PgAssumption
<1>12. nextSet' >= nextSet /\ nextFile' >= nextFile
  BY <1>0
<1>13. QED
  BY <1>0, <1>1, <1>2, <1>4, <1>5, <1>6, <1>7, <1>8, <1>9, <1>10, <1>11, <1>12,
     StepKeeps, ActorFacts

LEMMA InsertFileKeeps == ASSUME PgInv, NEW c \in Scanners, InsertFile(c) PROVE PgInv'
<1> DEFINE k == scan[c].written + 1
           item == scan[c].disc[k]
           row == [group |-> scan[c].group, path |-> item.path,
                   hash |-> item.hash, tags |-> {}]
<1>0. /\ TypeOK /\ c \in Clients /\ pc[c] = "insert_file" /\ ScanHolds(c)
      /\ UNCHANGED <<sets, files, nextSet, setLock, pc, edit, dele, todo, done>>
      /\ nextFile <= MaxFiles /\ nextFile' = nextFile + 1
      /\ scan[c].written < Len(scan[c].disc)
      /\ nextFile \in FileIds /\ nextSet \in Nat /\ nextFile \in Nat
  BY IdFacts DEF PgInv, InsertFile, Clients, TypeOK, FileIds
<1>1. /\ item \in Item /\ k \in 1 .. Len(scan[c].disc)
      /\ scan[c].written \in Nat /\ Len(scan[c].disc) \in Nat
  <2>1. scan[c].disc \in Seq(Item) /\ scan[c].written \in Nat
    BY <1>0, PgAssumption DEF TypeOK
  <2>2. Len(scan[c].disc) \in Nat
    BY <2>1
  <2>3. k \in 1 .. Len(scan[c].disc)
    BY <1>0, <2>1, <2>2
  <2>4. QED
    BY <2>1, <2>2, <2>3, ElementOfSeq
<1>2. row \in Row /\ ItemOf(row) = item
  BY <1>0, <1>1 DEF Row, Item, ScanHolds, ItemOf
<1>3. /\ draft' \in [FileIds -> Row \cup {NoFile}] /\ draft'[nextFile] = row
      /\ \A f \in FileIds \ {nextFile} : draft'[f] = draft[f]
  <2>1. draft' = [draft EXCEPT ![nextFile] = row]
    BY DEF InsertFile
  <2> HIDE DEF row
  <2>2. QED
    BY <2>1, <1>0, <1>2 DEF TypeOK
<1>4. /\ fileLock' \in [FileIds -> Clients \cup {Nobody}] /\ fileLock'[nextFile] = c
      /\ \A f \in FileIds \ {nextFile} : fileLock'[f] = fileLock[f]
  BY <1>0 DEF InsertFile, TypeOK
<1>5. files[nextFile] = NoFile /\ fileLock[nextFile] = Nobody
  BY <1>0 DEF PgInv, IdsHandedOut
<1>6. /\ scan' \in [Scanners -> [disc : Discs, owner : SetIds \cup {InvalidGroupID},
                            group : SetIds \cup {InvalidGroupID}, written : Nat]]
      /\ scan'[c].group = scan[c].group
      /\ scan'[c].written = k /\ scan'[c].disc = scan[c].disc
      /\ scan'[c].owner = scan[c].owner
      /\ \A d \in Scanners \ {c} : scan'[d] = scan[d]
  <2>1. k \in Nat
    BY <1>1
  <2>2. scan' = [scan EXCEPT ![c].written = k]
    BY DEF InsertFile
  <2> HIDE DEF k
  <2>3. QED
    BY <1>0, <2>1, <2>2 DEF TypeOK
<1> HIDE DEF row
<1>7. TypeOK'
  <2>1. nextFile' \in 1 .. MaxFiles + 1
    BY <1>0, IdFacts DEF FileIds
  <2>2. QED
    BY <1>0, <1>3, <1>4, <1>6, <2>1 DEF TypeOK
<1>8. \A f \in FileIds : (f < nextFile => f # nextFile /\ f < nextFile')
                        /\ nextFile < nextFile'
  BY <1>0, IdFacts
<1>9. IdsHandedOut'
  BY <1>0, <1>4, <1>8 DEF PgInv, IdsHandedOut
<1>10. ScanHolds(c)'
  <2>1. {g \in FileIds : fileLock'[g] = c}
          = {g \in FileIds : fileLock[g] = c} \cup {nextFile}
    BY <1>0, <1>4
  <2>2. {ItemOf(draft'[f]) : f \in {g \in FileIds : fileLock'[g] = c}}
          = {ItemOf(draft[f]) : f \in {g \in FileIds : fileLock[g] = c}} \cup {item}
    <3>1. \A f \in {g \in FileIds : fileLock[g] = c} : f # nextFile /\ draft'[f] = draft[f]
      BY <1>0, <1>3, <1>5, PgAssumption
    <3>2. \A f \in {g \in FileIds : fileLock[g] = c} : ItemOf(draft'[f]) = ItemOf(draft[f])
      BY <3>1
    <3>3. ItemOf(draft'[nextFile]) = item
      BY <1>2, <1>3
    <3>4. QED
      BY <2>1, <3>2, <3>3
  <2>3. {scan'[c].disc[i] : i \in 1 .. scan'[c].written}
          = {scan[c].disc[i] : i \in 1 .. scan[c].written} \cup {item}
    <3>1. 1 .. k = (1 .. scan[c].written) \cup {k}
      BY <1>1
    <3>2. QED
      BY <1>6, <3>1
  <2>4. /\ scan'[c].group \in SetIds
        /\ setLock'[scan'[c].group] = c
        /\ scan'[c].written <= Len(scan'[c].disc)
        /\ {ItemOf(draft'[f]) : f \in {g \in FileIds : fileLock'[g] = c}}
            = {scan'[c].disc[i] : i \in 1 .. scan'[c].written}
    <3>1. {ItemOf(draft[f]) : f \in {g \in FileIds : fileLock[g] = c}}
            = {scan[c].disc[i] : i \in 1 .. scan[c].written}
      BY <1>0 DEF ScanHolds
    <3>2. scan'[c].written <= Len(scan'[c].disc)
      BY <1>1, <1>6
    <3>3. scan'[c].group \in SetIds /\ setLock'[scan'[c].group] = c
      BY <1>0, <1>6 DEF ScanHolds
    <3>4. QED
      BY <2>2, <2>3, <3>1, <3>2, <3>3
  <2>5. \A f \in FileIds : fileLock'[f] = c =>
           /\ files'[f] = NoFile /\ draft'[f] \in Row
           /\ draft'[f].group = scan'[c].group /\ draft'[f].tags = {}
    <3>1. row.group = scan[c].group /\ row.tags = {}
      BY DEF row
    <3>2. QED
      BY <1>0, <1>2, <1>3, <1>4, <1>5, <1>6, <3>1 DEF ScanHolds
  <2>6. QED
    BY <1>0, <1>6, <2>4, <2>5 DEF ScanHolds
<1>11. SetsWhole'
  BY <1>0 DEF PgInv, SetsWhole, RowsOf, ItemOf
<1>12. NoTagLost'
  BY <1>0, TagsKept, ActorFacts
<1>13. \A d \in Clients \ {c} : \A f \in FileIds : (fileLock'[f] = d) <=> (fileLock[f] = d)
  BY <1>4, <1>5, PgAssumption
<1>14. nextSet' >= nextSet /\ nextFile' >= nextFile
  BY <1>0
<1>15. \A f \in FileIds : fileLock[f] \notin {c, Nobody} => draft'[f] = draft[f]
  BY <1>3, <1>5
<1>16. QED
  BY <1>0, <1>4, <1>6, <1>7, <1>8, <1>9, <1>10, <1>11, <1>12, <1>13, <1>14, <1>15,
     StepKeeps, ActorFacts

LEMMA LockRowKeeps ==
  ASSUME PgInv, NEW c \in Editors, NEW f \in FileIds, LockRow(c, f)
  PROVE  PgInv'
<1>0. /\ TypeOK /\ c \in Clients /\ pc[c] = "lock_rows" /\ EditHolds(c)
      /\ c \in Taggers => TaggerHolds(c)
      /\ c \in Deleters => DeleterHolds(c)
      /\ UNCHANGED <<sets, files, nextSet, nextFile, setLock, pc, scan, edit, dele>>
      /\ f \in todo[c] /\ fileLock[f] = Nobody
      /\ nextSet \in Nat /\ nextFile \in Nat
  BY IdFacts DEF PgInv, LockRow, Clients, TypeOK, tables
<1>1. /\ todo' \in [Editors -> SUBSET FileIds] /\ todo'[c] = todo[c] \ {f}
      /\ \A d \in Editors \ {c} : todo'[d] = todo[d]
  BY <1>0 DEF LockRow, TypeOK
<1>2. IdsHandedOut' /\ SetsWhole'
      /\ nextSet' >= nextSet /\ nextFile' >= nextFile
  <2>1. \A g \in FileIds : g < nextFile \/ fileLock'[g] = fileLock[g]
    <3>1. f < nextFile
      BY <1>0 DEF EditHolds
    <3>2. \A g \in FileIds \ {f} : fileLock'[g] = fileLock[g]
      BY <1>0 DEF LockRow, TypeOK
    <3>3. QED
      BY <3>1, <3>2
  <2>2. SetsWhole'
    BY <1>0 DEF PgInv, SetsWhole, RowsOf, ItemOf
  <2>3. IdsHandedOut'
    BY <1>0, <2>1 DEF PgInv, IdsHandedOut
  <2>4. QED
    BY <1>0, <2>2, <2>3
<1>3. \A g \in FileIds : Written(c, files[g])' = Written(c, files[g])
  BY <1>0 DEF Written, NewTags
<1>4. CASE files[f] = NoFile /\ UNCHANGED <<fileLock, draft, done>>
  <2>1. TypeOK'
    BY <1>0, <1>1, <1>4 DEF TypeOK
  <2>2. EditHolds(c)'
    BY <1>0, <1>1, <1>3, <1>4 DEF EditHolds
  <2>3. c \in Taggers => TaggerHolds(c)'
    BY <1>0, <1>1, <1>4 DEF TaggerHolds, Matches, Single
  <2>4. c \in Deleters => DeleterHolds(c)'
    BY <1>0, <1>1, <1>4 DEF DeleterHolds
  <2>5. NoTagLost'
    BY <1>0, <1>4, TagsKept
  <2>6. QED
    BY <1>0, <1>1, <1>2, <1>4, <2>1, <2>2, <2>3, <2>4, <2>5, StepKeeps, ActorFacts
       DEF Editors
<1>5. CASE /\ files[f] # NoFile
           /\ fileLock' = [fileLock EXCEPT ![f] = c]
           /\ draft' = [draft EXCEPT ![f] = Written(c, files[f])]
           /\ done' = [done EXCEPT ![c] = @ \cup {f}]
  <2>1. Written(c, files[f]) \in Row \cup {NoFile}
    BY <1>0, <1>5, SeenRows, WrittenFacts DEF PgInv, Editors
  <2>2. /\ draft' \in [FileIds -> Row \cup {NoFile}]
        /\ draft'[f] = Written(c, files[f])
        /\ \A g \in FileIds \ {f} : draft'[g] = draft[g]
    BY <1>0, <1>5, <2>1 DEF TypeOK
  <2>3. /\ fileLock' \in [FileIds -> Clients \cup {Nobody}] /\ fileLock'[f] = c
        /\ \A g \in FileIds \ {f} : fileLock'[g] = fileLock[g]
    BY <1>0, <1>5 DEF TypeOK
  <2>4. /\ done' \in [Editors -> SUBSET FileIds] /\ done'[c] = done[c] \cup {f}
        /\ \A d \in Editors \ {c} : done'[d] = done[d]
    BY <1>0, <1>5 DEF TypeOK
  <2>5. TypeOK'
    BY <1>0, <1>1, <2>2, <2>3, <2>4 DEF TypeOK
  <2>6. c \notin Scanners /\ c # Nobody
    BY ActorFacts DEF Editors
  <2>7. EditHolds(c)'
    <3>1. \A g \in FileIds : fileLock'[g] = c =>
            /\ files'[g] # NoFile /\ g \in done'[c]
            /\ draft'[g] = Written(c, files[g])
      BY <1>0, <1>5, <2>2, <2>3, <2>4 DEF EditHolds
    <3>2. \A g \in done'[c] : fileLock'[g] = c
      BY <1>0, <2>3, <2>4 DEF EditHolds, TypeOK
    <3>3. \A g \in done'[c] \cup todo'[c] : g < nextFile' /\ fileLock'[g] \notin Scanners
      BY <1>0, <1>1, <2>3, <2>4, <2>6 DEF EditHolds, TypeOK
    <3>4. QED
      BY <1>0, <1>3, <3>1, <3>2, <3>3 DEF EditHolds
  <2>8. c \in Taggers => TaggerHolds(c)'
    <3>1. todo'[c] \cup done'[c] = todo[c] \cup done[c]
      BY <1>0, <1>1, <2>4
    <3>2. QED
      BY <1>0, <3>1 DEF TaggerHolds, Matches, Single
  <2>9. c \in Deleters => DeleterHolds(c)'
    <3>1. c \in Deleters => files[f].group \in dele[c].found
      BY <1>0, <1>5 DEF DeleterHolds
    <3>2. QED
      BY <1>0, <1>1, <2>3, <3>1 DEF DeleterHolds
  <2>10. NoTagLost'
    BY <1>0, <2>4, TagsKept
  <2>11. \A d \in Clients \ {c} : \A g \in FileIds : (fileLock'[g] = d) <=> (fileLock[g] = d)
    BY <1>0, <2>3, PgAssumption
  <2>12. \A g \in FileIds : fileLock'[g] \in Scanners => fileLock[g] \in Scanners
    BY <2>3, <2>6
  <2>13. \A g \in FileIds : fileLock[g] \notin {c, Nobody} => draft'[g] = draft[g]
    BY <1>0, <2>2
  <2>14. QED
    BY <1>0, <1>1, <1>2, <2>4, <2>5, <2>6, <2>7, <2>8, <2>9, <2>10, <2>11, <2>12, <2>13,
       StepKeeps
<1>6. QED
  BY <1>4, <1>5 DEF LockRow

LEMMA DeleteSetsKeeps ==
  ASSUME PgInv, NEW c \in Deleters, DeleteSets(c) PROVE PgInv'
<1> DEFINE goes == dele[c].found \cap sets
<1>0. /\ TypeOK /\ c \in Clients /\ c \in Editors /\ pc[c] = "delete_sets"
      /\ EditHolds(c) /\ DeleterHolds(c)
      /\ UNCHANGED <<nextSet, nextFile, scan, edit, dele, done>>
      /\ nextSet \in Nat /\ nextFile \in Nat /\ c \notin Scanners /\ c \notin Taggers
  BY IdFacts, ActorFacts DEF PgInv, DeleteSets, Clients, Editors, TypeOK
<1>1. ~ \E f \in FileIds : /\ files[f] # NoFile
                           /\ files[f].group \in goes
                           /\ fileLock[f] # c
  BY <1>0 DEF DeleterHolds
<1>2. /\ \A s \in goes : setLock[s] = Nobody
      /\ setLock' = [s \in SetIds |-> IF s \in goes THEN c ELSE setLock[s]]
      /\ Goto(c, "commit")
      /\ UNCHANGED <<sets, files, fileLock, draft, todo>>
  BY <1>1 DEF DeleteSets
<1>3. /\ pc' \in [Clients -> Labels] /\ pc'[c] = "commit"
      /\ \A d \in Clients \ {c} : pc'[d] = pc[d]
  BY <1>0, <1>2, GotoFacts DEF Labels
<1>4. /\ setLock' \in [SetIds -> Clients \cup {Nobody}]
      /\ \A s \in SetIds : setLock'[s] = IF s \in goes THEN c ELSE setLock[s]
  BY <1>0, <1>2 DEF TypeOK
<1> HIDE DEF goes
<1>5. TypeOK'
  BY <1>0, <1>2, <1>3, <1>4 DEF TypeOK
<1>6. SetsWhole'
  BY <1>2 DEF PgInv, SetsWhole, RowsOf, ItemOf
<1>7. IdsHandedOut'
  <2>1. \A s \in SetIds : s \in goes => s < nextSet
    BY DEF PgInv, IdsHandedOut, goes
  <2>2. QED
    BY <1>0, <1>2, <1>4, <2>1 DEF PgInv, IdsHandedOut
<1>8. NoTagLost'
  BY <1>0, <1>2, <1>3, TagsKept
<1>9. EditHolds(c)'
  <2>1. \A f \in FileIds : Written(c, files[f])' = Written(c, files[f])
    BY <1>0, <1>2 DEF Written, NewTags
  <2>2. QED
    BY <1>0, <1>2, <1>3, <2>1 DEF EditHolds
<1>10. DeleterHolds(c)'
  <2>1. \A s \in SetIds : setLock'[s] = c => s \in sets /\ s \in dele[c].found
    BY <1>0, <1>4 DEF DeleterHolds, goes
  <2>2. \A s \in dele[c].found : s \in SetIds /\ s < nextSet /\ setLock'[s] \notin Scanners
    BY <1>0, <1>4 DEF DeleterHolds, TypeOK
  <2>3. \A s \in dele[c].found \cap sets : setLock'[s] = c
    BY <1>4, <2>2 DEF goes
  <2>4. QED
    BY <1>0, <1>2, <1>3, <2>1, <2>2, <2>3 DEF DeleterHolds
<1>11. \A d \in Clients \ {c} : \A s \in SetIds : (setLock'[s] = d) <=> (setLock[s] = d)
  BY <1>2, <1>4, PgAssumption
<1>12. \A s \in SetIds : setLock'[s] \in Scanners => setLock[s] \in Scanners
  BY <1>0, <1>4
<1>13. nextSet' >= nextSet /\ nextFile' >= nextFile
  BY <1>0
<1>14. QED
  BY <1>0, <1>2, <1>3, <1>5, <1>6, <1>7, <1>8, <1>9, <1>10, <1>11, <1>12, <1>13, StepKeeps

-----------------------------------------------------------------------------
(* Commits.                                                                *)

LEMMA CommitFacts ==
  ASSUME TypeOK, NEW c \in Clients, Commit(c)
  PROVE  /\ sets' \subseteq SetIds
         /\ \A s \in SetIds : s \in sets' <=> ((s \in sets) = (setLock[s] # c))
         /\ files' \in [FileIds -> Row \cup {NoFile}]
         /\ \A f \in FileIds : files'[f] = IF fileLock[f] = c THEN draft[f] ELSE files[f]
         /\ setLock' \in [SetIds -> Clients \cup {Nobody}]
         /\ fileLock' \in [FileIds -> Clients \cup {Nobody}]
         /\ draft' \in [FileIds -> Row \cup {NoFile}]
         /\ \A s \in SetIds : setLock'[s] = IF setLock[s] = c THEN Nobody ELSE setLock[s]
         /\ \A f \in FileIds : /\ fileLock'[f] = IF fileLock[f] = c THEN Nobody ELSE fileLock[f]
                               /\ fileLock[f] # c => draft'[f] = draft[f]
         /\ \A d \in Clients \ {c} :
              /\ \A s \in SetIds : (setLock'[s] = d) <=> (setLock[s] = d)
              /\ \A f \in FileIds : (fileLock'[f] = d) <=> (fileLock[f] = d)
         /\ \A s \in SetIds : setLock'[s] # c /\ (setLock'[s] \in Scanners => setLock[s] \in Scanners)
         /\ \A f \in FileIds : fileLock'[f] # c /\ (fileLock'[f] \in Scanners => fileLock[f] \in Scanners)
<1>1. /\ sets' = {s \in SetIds : (s \in sets) = (setLock[s] # c)}
      /\ files' = [f \in FileIds |-> IF fileLock[f] = c THEN draft[f] ELSE files[f]]
      /\ setLock' = [s \in SetIds |-> IF setLock[s] = c THEN Nobody ELSE setLock[s]]
      /\ fileLock' = [f \in FileIds |-> IF fileLock[f] = c THEN Nobody ELSE fileLock[f]]
      /\ draft' = [f \in FileIds |-> IF fileLock[f] = c THEN NoFile ELSE draft[f]]
  BY DEF Commit, Release
<1>2. sets' \subseteq SetIds /\ \A s \in SetIds : s \in sets' <=> ((s \in sets) = (setLock[s] # c))
  BY <1>1
<1>3. /\ files' \in [FileIds -> Row \cup {NoFile}]
      /\ setLock' \in [SetIds -> Clients \cup {Nobody}]
      /\ fileLock' \in [FileIds -> Clients \cup {Nobody}]
      /\ draft' \in [FileIds -> Row \cup {NoFile}]
  BY <1>1 DEF TypeOK
<1>4. c # Nobody /\ Nobody \notin Scanners /\ Nobody \notin Clients
  BY ActorFacts, PgAssumption
<1>5. /\ \A s \in SetIds : setLock'[s] = IF setLock[s] = c THEN Nobody ELSE setLock[s]
      /\ \A f \in FileIds : /\ fileLock'[f] = IF fileLock[f] = c THEN Nobody ELSE fileLock[f]
                            /\ files'[f] = IF fileLock[f] = c THEN draft[f] ELSE files[f]
                            /\ fileLock[f] # c => draft'[f] = draft[f]
  BY <1>1
<1>6. QED
  BY <1>2, <1>3, <1>4, <1>5

LEMMA CommitScanKeeps == ASSUME PgInv, NEW c \in Scanners, CommitScan(c) PROVE PgInv'
<1> DEFINE g == scan[c].group
           mine == {f \in FileIds : fileLock[f] = c}
<1>0. /\ TypeOK /\ c \in Clients /\ c \notin Editors /\ pc[c] = "insert_file"
      /\ ScanHolds(c) /\ Commit(c)
      /\ UNCHANGED <<nextSet, nextFile, scan, edit, dele, todo, done>>
      /\ nextSet \in Nat /\ nextFile \in Nat
      /\ c \notin Taggers /\ c \notin Deleters /\ c # Nobody
  BY IdFacts, ActorFacts DEF PgInv, CommitScan, Clients, TypeOK
<1>1. /\ pc' \in [Clients -> Labels] /\ pc'[c] = "done"
      /\ \A d \in Clients \ {c} : pc'[d] = pc[d]
  BY <1>0, GotoFacts DEF CommitScan, Labels
<1>2. TypeOK'
  BY <1>0, <1>1, CommitFacts DEF TypeOK
<1>3. /\ g \in SetIds /\ setLock[g] = c /\ g \notin sets
      /\ \A s \in SetIds : setLock[s] = c => s = g
  BY <1>0 DEF ScanHolds
<1>4. \A s \in SetIds : s \in sets' <=> (s \in sets \/ s = g)
  BY <1>0, <1>3, CommitFacts
<1>5. \A f \in FileIds : /\ f \in mine => /\ files'[f] = draft[f] /\ draft[f] \in Row
                                          /\ draft[f].group = g
                         /\ f \notin mine => files'[f] = files[f]
  BY <1>0, CommitFacts DEF ScanHolds
<1>6. \A f \in FileIds : f \in mine => files[f] = NoFile
  BY <1>0 DEF ScanHolds
<1>7. SetsWhole'
  <2> SUFFICES ASSUME NEW s \in SetIds
               PROVE  IF s \in sets'
                      THEN \E d \in Discs : {ItemOf(files'[f]) : f \in RowsOf(s)'} = Range(d)
                      ELSE RowsOf(s)' = {}
    BY DEF SetsWhole, ItemOf
  <2>1. CASE s = g
    <3>1. RowsOf(s)' = mine
      BY <2>1, <1>3, <1>5, SeenRows, ActorFacts DEF RowsOf
    <3>2. {ItemOf(files'[f]) : f \in mine} = {ItemOf(draft[f]) : f \in mine}
      BY <1>5
    <3>3. {ItemOf(draft[f]) : f \in mine}
            = {scan[c].disc[i] : i \in 1 .. Len(scan[c].disc)}
      BY <1>0 DEF ScanHolds, CommitScan
    <3>4. scan[c].disc \in Discs /\ scan[c].disc \in Seq(Item)
      BY <1>0, PgAssumption DEF TypeOK
    <3>5. {scan[c].disc[i] : i \in 1 .. Len(scan[c].disc)} = Range(scan[c].disc)
      BY <3>4, LenProperties DEF Range
    <3>6. {ItemOf(files'[f]) : f \in RowsOf(s)'} = Range(scan[c].disc)
      BY <3>1, <3>2, <3>3, <3>5
    <3>7. s \in sets'
      BY <2>1, <1>4
    <3>8. QED
      BY <3>4, <3>6, <3>7
  <2>2. CASE s # g
    <3>1. RowsOf(s)' = RowsOf(s)
      BY <2>2, <1>5, <1>6 DEF RowsOf
    <3>2. \A f \in RowsOf(s) : files'[f] = files[f]
      BY <1>5, <1>6 DEF RowsOf
    <3>3. {ItemOf(files'[f]) : f \in RowsOf(s)'} = {ItemOf(files[f]) : f \in RowsOf(s)}
      BY <3>1, <3>2
    <3>4. s \in sets' <=> s \in sets
      BY <2>2, <1>4
    <3>5. IF s \in sets THEN \E d \in Discs : {ItemOf(files[f]) : f \in RowsOf(s)} = Range(d)
                        ELSE RowsOf(s) = {}
      BY DEF PgInv, SetsWhole
    <3>6. QED
      BY <3>1, <3>3, <3>4, <3>5
  <2>3. QED
    BY <2>1, <2>2
<1>8. IdsHandedOut'
  <2>1. g < nextSet
    BY <1>0, <1>3 DEF PgInv, IdsHandedOut
  <2>2. \A s \in SetIds : setLock'[s] # Nobody => setLock[s] # Nobody
    BY <1>0, CommitFacts
  <2>3. \A f \in FileIds : fileLock'[f] # Nobody => fileLock[f] # Nobody
    BY <1>0, CommitFacts
  <2>4. \A f \in FileIds : files'[f] # NoFile => files[f] # NoFile \/ fileLock[f] # Nobody
    BY <1>0, <1>5
  <2>5. \A s \in SetIds : s \in sets' => s \in sets \/ s = g
    BY <1>4
  <2>6. QED
    BY <1>0, <2>1, <2>2, <2>3, <2>4, <2>5 DEF PgInv, IdsHandedOut
<1>9. ScanHolds(c)'
  BY <1>0, <1>1, CommitFacts DEF ScanHolds
<1>10. NoTagLost'
  BY <1>0, <1>1, <1>5, TagsKept
<1>11. \A f \in FileIds : fileLock[f] \notin {c, Nobody} =>
          draft'[f] = draft[f] /\ files'[f] = files[f]
  BY <1>0, CommitFacts
<1>12. \A f \in FileIds : files'[f] # NoFile =>
           \/ /\ files[f] # NoFile
              /\ files'[f].group = files[f].group /\ files'[f].path = files[f].path
           \/ fileLock[f] \in Scanners /\ setLock[files'[f].group] \in Scanners
  BY <1>3, <1>5
<1>13. nextSet' >= nextSet /\ nextFile' >= nextFile
  BY <1>0
<1>14. QED
  BY <1>0, <1>1, <1>2, <1>3, <1>4, <1>7, <1>8, <1>9, <1>10, <1>11, <1>12, <1>13,
     CommitFacts, StepKeeps

LEMMA CommitUpdateKeeps == ASSUME PgInv, NEW c \in Taggers, CommitUpdate(c) PROVE PgInv'
<1>0. /\ TypeOK /\ c \in Clients /\ c \in Editors /\ pc[c] = "lock_rows" /\ todo[c] = {}
      /\ EditHolds(c) /\ TaggerHolds(c) /\ Commit(c)
      /\ UNCHANGED <<nextSet, nextFile, scan, edit, dele, todo, done>>
      /\ nextSet \in Nat /\ nextFile \in Nat
      /\ c \notin Scanners /\ c \notin Deleters /\ c # Nobody
  BY IdFacts, ActorFacts DEF PgInv, CommitUpdate, Clients, Editors, TypeOK
<1>1. /\ pc' \in [Clients -> Labels] /\ pc'[c] = "done"
      /\ \A d \in Clients \ {c} : pc'[d] = pc[d]
  BY <1>0, GotoFacts DEF CommitUpdate, Labels
<1>2. TypeOK'
  BY <1>0, <1>1, CommitFacts DEF TypeOK
<1>3. sets' = sets
  <2>1. \A s \in SetIds : s \in sets' <=> s \in sets
    BY <1>0, CommitFacts DEF TaggerHolds
  <2>2. QED
    BY <1>0, <1>2, <2>1 DEF TypeOK
<1>4. \A f \in FileIds :
        /\ fileLock[f] = c => /\ files[f] # NoFile /\ files'[f] # NoFile /\ f \in done[c]
                              /\ files'[f].group = files[f].group
                              /\ files'[f].path = files[f].path
                              /\ ItemOf(files'[f]) = ItemOf(files[f])
                              /\ files'[f].tags = NewTags(edit[c], files[f].tags)
        /\ fileLock[f] # c => files'[f] = files[f]
  <2> SUFFICES ASSUME NEW f \in FileIds, fileLock[f] = c
               PROVE  /\ files[f] # NoFile /\ files'[f] # NoFile /\ f \in done[c]
                      /\ files'[f].group = files[f].group
                      /\ files'[f].path = files[f].path
                      /\ ItemOf(files'[f]) = ItemOf(files[f])
                      /\ files'[f].tags = NewTags(edit[c], files[f].tags)
    BY <1>0, CommitFacts
  <2>1. files[f] # NoFile /\ files'[f] = Written(c, files[f]) /\ f \in done[c]
    BY <1>0, CommitFacts DEF EditHolds
  <2>2. files[f] \in Row
    BY <2>1, SeenRows
  <2>3. QED
    BY <1>0, <2>1, <2>2, WrittenFacts, ActorFacts
<1>5. \A f \in FileIds : (files'[f] # NoFile) <=> (files[f] # NoFile)
  BY <1>4
<1>6. SetsWhole'
  <2> SUFFICES ASSUME NEW s \in SetIds
               PROVE  IF s \in sets'
                      THEN \E d \in Discs : {ItemOf(files'[f]) : f \in RowsOf(s)'} = Range(d)
                      ELSE RowsOf(s)' = {}
    BY DEF SetsWhole, ItemOf
  <2>1. RowsOf(s)' = RowsOf(s)
    BY <1>4 DEF RowsOf
  <2>2. \A f \in RowsOf(s) : ItemOf(files'[f]) = ItemOf(files[f])
    BY <1>4 DEF RowsOf
  <2>3. {ItemOf(files'[f]) : f \in RowsOf(s)'} = {ItemOf(files[f]) : f \in RowsOf(s)}
    BY <2>1, <2>2
  <2>4. IF s \in sets THEN \E d \in Discs : {ItemOf(files[f]) : f \in RowsOf(s)} = Range(d)
                      ELSE RowsOf(s) = {}
    BY DEF PgInv, SetsWhole
  <2>5. QED
    BY <1>3, <2>1, <2>3, <2>4
<1>7. IdsHandedOut'
  <2>1. \A s \in SetIds : setLock'[s] # Nobody => setLock[s] # Nobody
    BY <1>0, CommitFacts
  <2>2. \A f \in FileIds : fileLock'[f] # Nobody => fileLock[f] # Nobody
    BY <1>0, CommitFacts
  <2>3. QED
    BY <1>0, <1>3, <1>5, <2>1, <2>2 DEF PgInv, IdsHandedOut
<1>8. EditHolds(c)'
  <2>1. \A f \in done[c] : f < nextFile /\ f \in FileIds /\ fileLock[f] \notin Scanners
    BY <1>0 DEF EditHolds, TypeOK
  <2>2. \A f \in done[c] : f < nextFile /\ fileLock'[f] \notin Scanners
    BY <1>0, <2>1, CommitFacts
  <2>3. \A f \in FileIds : fileLock'[f] # c
    BY <1>0, CommitFacts
  <2>4. QED
    BY <1>0, <1>1, <2>2, <2>3 DEF EditHolds
<1>9. TaggerHolds(c)'
  <2>1. \A s \in SetIds : setLock'[s] # c
    BY <1>0, CommitFacts
  <2>2. QED
    BY <1>1, <2>1 DEF TaggerHolds
<1>10. NoTagLost'
  <2> SUFFICES ASSUME NEW d \in Taggers, NEW f \in done[d],
                      pc'[d] = "done", edit[d].op = "add", files'[f] # NoFile,
                      ~(Range(edit[d].tags) \subseteq files'[f].tags)
               PROVE  \E e \in Taggers : pc'[e] = "done" /\ f \in done[e]
                                         /\ edit[e].op # "add"
    BY <1>0 DEF NoTagLost
  <2>0. d \in Editors /\ d \in Clients /\ f \in FileIds /\ files[f] # NoFile
    BY <1>0, <1>5 DEF TypeOK, Editors, Clients
  <2>1. edit[c].op = "add" /\ fileLock[f] = c =>
          files'[f].tags = files[f].tags \cup Range(edit[c].tags)
    BY <1>4, <2>0 DEF NewTags
  <2>2. d # c
    <3>1. ASSUME d = c PROVE FALSE
      <4>1. fileLock[f] = c
        BY <1>0, <3>1 DEF EditHolds
      <4>2. QED
        BY <2>1, <3>1, <4>1
    <3>2. QED
      BY <3>1
  <2>3. pc[d] = "done"
    BY <1>1, <2>0, <2>2
  <2>4. CASE Range(edit[d].tags) \subseteq files[f].tags
    <3>1. fileLock[f] = c
      BY <1>4, <2>0, <2>4
    <3>2. edit[c].op # "add"
      BY <2>1, <2>4, <3>1
    <3>3. f \in done[c]
      BY <1>4, <2>0, <3>1
    <3>4. QED
      BY <1>1, <3>2, <3>3
  <2>5. CASE ~(Range(edit[d].tags) \subseteq files[f].tags)
    <3>1. PICK e \in Taggers : pc[e] = "done" /\ f \in done[e] /\ edit[e].op # "add"
      BY <2>0, <2>3, <2>5 DEF PgInv, NoTagLost
    <3>2. e # c /\ e \in Clients
      BY <1>0, <3>1 DEF Clients, Editors
    <3>3. QED
      BY <1>1, <3>1, <3>2
  <2>6. QED
    BY <2>4, <2>5
<1>11. \A f \in FileIds : fileLock[f] \notin {c, Nobody} =>
          draft'[f] = draft[f] /\ files'[f] = files[f]
  BY <1>0, CommitFacts
<1>12. nextSet' >= nextSet /\ nextFile' >= nextFile
  BY <1>0
<1>13. \A f \in FileIds : files'[f] # NoFile =>
          /\ files[f] # NoFile
          /\ files'[f].group = files[f].group /\ files'[f].path = files[f].path
  BY <1>4, <1>5
<1>14. QED
  BY <1>0, <1>1, <1>2, <1>3, <1>6, <1>7, <1>8, <1>9, <1>10, <1>11, <1>12, <1>13,
     CommitFacts, StepKeeps

LEMMA CommitDeleteKeeps == ASSUME PgInv, NEW c \in Deleters, CommitDelete(c) PROVE PgInv'
<1>0. /\ TypeOK /\ c \in Clients /\ c \in Editors /\ pc[c] = "commit"
      /\ EditHolds(c) /\ DeleterHolds(c) /\ Commit(c)
      /\ UNCHANGED <<nextSet, nextFile, scan, edit, dele, todo, done>>
      /\ nextSet \in Nat /\ nextFile \in Nat
      /\ c \notin Scanners /\ c \notin Taggers /\ c # Nobody
  BY IdFacts, ActorFacts DEF PgInv, CommitDelete, Clients, Editors, TypeOK
<1>1. /\ pc' \in [Clients -> Labels] /\ pc'[c] = "done"
      /\ \A d \in Clients \ {c} : pc'[d] = pc[d]
  BY <1>0, GotoFacts DEF CommitDelete, Labels
<1>2. TypeOK'
  BY <1>0, <1>1, CommitFacts DEF TypeOK
<1>3. \A s \in SetIds : /\ s \in sets' <=> s \in sets /\ s \notin dele[c].found
                        /\ s \in sets /\ s \notin sets' => setLock[s] = c
  BY <1>0, CommitFacts DEF DeleterHolds
<1>4. \A f \in FileIds :
        /\ fileLock[f] = c => /\ files'[f] = NoFile /\ files[f] # NoFile
                              /\ files[f].group \in dele[c].found
        /\ fileLock[f] # c => files'[f] = files[f]
  <2> SUFFICES ASSUME NEW f \in FileIds, fileLock[f] = c
               PROVE  /\ files'[f] = NoFile /\ files[f] # NoFile
                      /\ files[f].group \in dele[c].found
    BY <1>0, CommitFacts
  <2>1. files[f] # NoFile /\ files'[f] = Written(c, files[f])
    BY <1>0, CommitFacts DEF EditHolds
  <2>2. QED
    BY <1>0, <2>1, SeenRows, WrittenFacts DEF DeleterHolds
<1>5. SetsWhole'
  <2> SUFFICES ASSUME NEW s \in SetIds
               PROVE  IF s \in sets'
                      THEN \E d \in Discs : {ItemOf(files'[f]) : f \in RowsOf(s)'} = Range(d)
                      ELSE RowsOf(s)' = {}
    BY DEF SetsWhole, ItemOf
  <2>0. IF s \in sets THEN \E d \in Discs : {ItemOf(files[f]) : f \in RowsOf(s)} = Range(d)
                      ELSE RowsOf(s) = {}
    BY DEF PgInv, SetsWhole
  <2>1. CASE s \in sets'
    <3>1. s \in sets /\ s \notin dele[c].found
      BY <1>3, <2>1
    <3>2. RowsOf(s)' = RowsOf(s) /\ \A f \in RowsOf(s) : files'[f] = files[f]
      BY <1>4, <3>1 DEF RowsOf
    <3>3. {ItemOf(files'[f]) : f \in RowsOf(s)'} = {ItemOf(files[f]) : f \in RowsOf(s)}
      BY <3>2
    <3>4. QED
      BY <2>0, <2>1, <3>1, <3>3
  <2>2. CASE s \notin sets'
    <3>1. RowsOf(s)' \subseteq RowsOf(s)
      BY <1>4 DEF RowsOf
    <3>2. s \in dele[c].found => RowsOf(s)' = {}
      BY <1>0, <1>4 DEF RowsOf, DeleterHolds
    <3>3. QED
      BY <1>3, <2>0, <2>2, <3>1, <3>2
  <2>3. QED
    BY <2>1, <2>2
<1>6. IdsHandedOut'
  <2>1. \A s \in SetIds : setLock'[s] # Nobody => setLock[s] # Nobody
    BY <1>0, CommitFacts
  <2>2. \A f \in FileIds : fileLock'[f] # Nobody => fileLock[f] # Nobody
    BY <1>0, CommitFacts
  <2>3. \A s \in SetIds : s \in sets' => s \in sets
    BY <1>3
  <2>4. \A f \in FileIds : files'[f] # NoFile => files[f] # NoFile
    BY <1>4
  <2>5. QED
    BY <1>0, <2>1, <2>2, <2>3, <2>4 DEF PgInv, IdsHandedOut
<1>7. EditHolds(c)'
  <2>1. \A f \in done[c] : f < nextFile /\ f \in FileIds /\ fileLock[f] \notin Scanners
    BY <1>0 DEF EditHolds, TypeOK
  <2>2. \A f \in done[c] : f < nextFile /\ fileLock'[f] \notin Scanners
    BY <1>0, <2>1, CommitFacts
  <2>3. \A f \in FileIds : fileLock'[f] # c
    BY <1>0, CommitFacts
  <2>4. todo[c] = {}
    BY <1>0 DEF EditHolds
  <2>5. QED
    BY <1>0, <1>1, <2>2, <2>3, <2>4 DEF EditHolds
<1>8. DeleterHolds(c)'
  <2>1. \A s \in dele[c].found : s \in SetIds /\ s < nextSet /\ setLock'[s] \notin Scanners
    BY <1>0, CommitFacts DEF DeleterHolds, TypeOK
  <2>2. /\ \A s \in SetIds : setLock'[s] # c
        /\ \A f \in FileIds : fileLock'[f] # c
    BY <1>0, CommitFacts
  <2>3. QED
    BY <1>0, <1>1, <2>1, <2>2 DEF DeleterHolds
<1>9. NoTagLost'
  BY <1>0, <1>1, <1>4, TagsKept
<1>10. \A f \in FileIds : fileLock[f] \notin {c, Nobody} =>
          draft'[f] = draft[f] /\ files'[f] = files[f]
  BY <1>0, CommitFacts
<1>11. nextSet' >= nextSet /\ nextFile' >= nextFile
  BY <1>0
<1>12. \A f \in FileIds : files'[f] # NoFile => files[f] # NoFile /\ files'[f] = files[f]
  BY <1>4
<1>13. QED
  BY <1>0, <1>1, <1>2, <1>3, <1>5, <1>6, <1>7, <1>8, <1>9, <1>10, <1>11, <1>12,
     CommitFacts, StepKeeps

-----------------------------------------------------------------------------
(* All steps together.                                                     *)

LEMMA FailureKeeps ==
  ASSUME PgInv, NEW c \in Clients,
         (c \in Scanners /\ SequenceAtEnd(c)) \/ Deadlock(c) \/ Crash(c)
  PROVE  PgInv' /\ Rollback(c) /\ nextSet' = nextSet /\ nextFile' = nextFile
<1>1. /\ Rollback(c) /\ Goto(c, "failed")
      /\ UNCHANGED <<nextSet, nextFile, scan, edit, dele, done>>
  BY DEF SequenceAtEnd, Deadlock, Crash
<1>2. CASE SequenceAtEnd(c)
  BY <1>1, <1>2, RollbackKeeps DEF SequenceAtEnd, Ended
<1>3. CASE Deadlock(c)
  <2>1. PICK D \in SUBSET Editors : c \in D /\ Cycle(D)
    BY <1>3 DEF Deadlock
  <2>2. c \in Editors /\ todo[c] # {}
    BY <2>1 DEF Cycle, WaitsFor
  <2>3. pc[c] = "lock_rows"
    BY <2>2 DEF PgInv, EditHolds
  <2>4. QED
    BY <1>1, <2>3, RollbackKeeps DEF Ended
<1>4. CASE Crash(c)
  BY <1>1, <1>4, RollbackKeeps DEF Crash
<1>5. QED
  BY <1>1, <1>2, <1>3, <1>4

LEMMA PgStep == ASSUME PgInv, [Next]_vars PROVE PgInv'
<1>1. ASSUME NEW c \in Scanners, Scan(c) PROVE PgInv'
  BY <1>1, LookUpKeeps, ReadSetKeeps, InsertSetKeeps, InsertFileKeeps,
     CommitScanKeeps, FailureKeeps DEF Scan, Clients
<1>2. ASSUME NEW c \in Taggers, Tag(c) PROVE PgInv'
  BY <1>2, UpdateKeeps, LockRowKeeps, CommitUpdateKeeps DEF Tag, LockRows, Editors
<1>3. ASSUME NEW c \in Deleters, Delete(c) \/ Answer(c) PROVE PgInv'
  BY <1>3, FetchKeeps, DeleteFilesKeeps, LockRowKeeps, EndDeleteFilesKeeps,
     DeleteSetsKeeps, CommitDeleteKeeps, AnswerKeeps DEF Delete, LockRows, Editors
<1>4. ASSUME NEW c \in Clients, Deadlock(c) \/ Crash(c) PROVE PgInv'
  BY <1>4, FailureKeeps
<1>5. CASE UNCHANGED vars
  <2>1. UNCHANGED <<sets, files, nextSet, nextFile, setLock, fileLock, draft,
                    pc, scan, edit, dele, todo, done>>
    BY <1>5 DEF vars, tables, locks
  <2>2. /\ TypeOK' /\ TypeOK /\ nextFile \in Nat
        /\ IdsHandedOut' /\ ForeignKeyHolds' /\ MissingSetWasDeleted' /\ NoTagLost'
    <3>1. TypeOK /\ TypeOK' /\ nextFile \in Nat
      BY <2>1, IdFacts DEF PgInv, TypeOK
    <3>2. IdsHandedOut' /\ ForeignKeyHolds' /\ MissingSetWasDeleted' /\ NoTagLost'
      BY <2>1 DEF PgInv, IdsHandedOut, ForeignKeyHolds, MissingSetWasDeleted, NoTagLost
    <3>3. QED
      BY <3>1, <3>2
  <2>7. SetsWhole'
    BY <2>1 DEF PgInv, SetsWhole, RowsOf, ItemOf
  <2>3. \A c \in Scanners : ScanHolds(c)'
    BY <2>1, ScanFrame DEF PgInv
  <2>4. (\A c \in Editors : EditHolds(c)') /\ (\A c \in Taggers : TaggerHolds(c)')
    <3>1. \A c \in Editors : EditHolds(c)'
      BY <2>1, <2>2, EditFrame DEF PgInv
    <3>2. \A c \in Taggers : TaggerHolds(c)'
      BY <2>1, <2>2, TaggerFrame DEF PgInv
    <3>3. QED
      BY <3>1, <3>2
  <2>5. \A c \in Deleters : DeleterHolds(c)'
    BY <2>1 DEF PgInv, DeleterHolds
  <2>6. QED
    BY <2>2, <2>3, <2>4, <2>5, <2>7 DEF PgInv
<1>6. QED
  BY <1>1, <1>2, <1>3, <1>4, <1>5 DEF Next

(* PgInv holds in every state the backend and its processes can reach,     *)
(* however many there are and whatever they scan, tag and delete.          *)
THEOREM PgInvariant == Spec => []PgInv
<1>1. Init => PgInv
  BY InitInv
<1>2. PgInv /\ [Next]_vars => PgInv'
  BY PgStep
<1>3. QED
  BY <1>1, <1>2, PTL DEF Spec

\* The tables and the locals of the processes keep their types.
THEOREM PgTypes == Spec => []TypeOK
<1>1. PgInv => TypeOK
  BY DEF PgInv
<1>2. QED
  BY <1>1, PgInvariant, PTL

\* A set is there with all the files of its disc, or nothing of it is.
THEOREM PgSetsWhole == Spec => []SetsWhole
<1>1. PgInv => SetsWhole
  BY DEF PgInv
<1>2. QED
  BY <1>1, PgInvariant, PTL

\* No deletion is ever refused for a file it left.
THEOREM PgForeignKey == Spec => []ForeignKeyHolds
<1>1. PgInv => ForeignKeyHolds
  BY DEF PgInv
<1>2. QED
  BY <1>1, PgInvariant, PTL

\* "Missing set" is only ever said of a set that was deleted.
THEOREM PgMissingSet == Spec => []MissingSetWasDeleted
<1>1. PgInv => MissingSetWasDeleted
  BY DEF PgInv
<1>2. QED
  BY <1>1, PgInvariant, PTL

\* Tags that were added stay until they are removed.
THEOREM PgNoTagLost == Spec => []NoTagLost
<1>1. PgInv => NoTagLost
  BY DEF PgInv
<1>2. QED
  BY <1>1, PgInvariant, PTL

LEMMA NeverContended == ASSUME PgInv PROVE SetsNeverContended
<1> SUFFICES ASSUME NEW c \in Deleters, pc[c] = "delete_sets",
                    NEW s \in dele[c].found \cap sets, setLock[s] # Nobody
             PROVE  FALSE
  BY DEF SetsNeverContended
<1>1. /\ s \in SetIds /\ setLock[s] \in Clients /\ setLock[s] \notin Scanners
      /\ setLock[s] \notin Taggers
  BY DEF PgInv, TypeOK, DeleterHolds, TaggerHolds
<1>2. PICK d \in Deleters : setLock[s] = d
  BY <1>1 DEF Clients, Editors
<1>3. pc[d] = "commit" /\ s \in dele[d].found /\ d # c
  BY <1>1, <1>2 DEF PgInv, DeleterHolds
<1>4. PICK disc \in Discs : {ItemOf(files[f]) : f \in RowsOf(s)} = Range(disc)
  BY <1>1 DEF PgInv, SetsWhole
<1>5. Range(disc) # {}
  <2>1. disc \in Seq(Item) /\ disc # <<>>
    BY PgAssumption
  <2>2. Len(disc) \in Nat /\ Len(disc) # 0 /\ DOMAIN disc = 1 .. Len(disc)
    BY <2>1, EmptySeq, LenProperties
  <2>3. 1 \in DOMAIN disc
    BY <2>2
  <2>4. QED
    BY <2>3 DEF Range
<1>6. PICK f \in FileIds : files[f] # NoFile /\ files[f].group = s
  BY <1>4, <1>5 DEF RowsOf
<1>7. fileLock[f] = c /\ fileLock[f] = d
  BY <1>3, <1>6 DEF PgInv, DeleterHolds
<1>8. QED
  BY <1>3, <1>7

\* A deletion that has come to its sets never waits for one.
THEOREM PgNeverContended == Spec => []SetsNeverContended
<1>1. PgInv => SetsNeverContended
  BY NeverContended
<1>2. QED
  BY <1>1, PgInvariant, PTL

-----------------------------------------------------------------------------
(* The refinement.                                                         *)

\* What a reader sees of an id, in a state and after a step.
LEMMA CatFacts ==
  /\ catSets = [s \in SetIds |-> IF s \in sets THEN "kept"
                                 ELSE IF s < nextSet /\ setLock[s] = Nobody THEN Gone
                                 ELSE Unused]
  /\ catFiles = [f \in FileIds |-> IF files[f] # NoFile THEN files[f]
                                   ELSE IF f < nextFile /\ fileLock[f] = Nobody THEN Gone
                                   ELSE Unused]
  /\ catSets' = [s \in SetIds |-> IF s \in sets' THEN "kept"
                                 ELSE IF s < nextSet' /\ setLock'[s] = Nobody THEN Gone
                                 ELSE Unused]
  /\ catFiles' = [f \in FileIds |-> IF files'[f] # NoFile THEN files'[f]
                                   ELSE IF f < nextFile' /\ fileLock'[f] = Nobody THEN Gone
                                   ELSE Unused]
BY DEF catSets, catFiles, Status

LEMMA CatValues ==
  /\ Unused # Gone /\ Unused # "kept" /\ Gone # "kept"
  /\ Unused \notin Row /\ Gone \notin Row
BY CatalogueAssumption

\* A step that commits nothing and draws an id only to hold it is a stutter.
LEMMA Unseen ==
  ASSUME PgInv, sets' = sets, files' = files,
         \A s \in SetIds : s \notin sets =>
           ((s < nextSet' /\ setLock'[s] = Nobody) <=> (s < nextSet /\ setLock[s] = Nobody)),
         \A f \in FileIds : files[f] = NoFile =>
           ((f < nextFile' /\ fileLock'[f] = Nobody) <=> (f < nextFile /\ fileLock[f] = Nobody))
  PROVE  UNCHANGED <<catSets, catFiles>>
<1>1. catSets' = catSets
  BY CatFacts
<1>2. catFiles' = catFiles
  BY CatFacts
<1>3. QED
  BY <1>1, <1>2

LEMMA LocalUnseen ==
  ASSUME PgInv, UNCHANGED <<tables, locks>>
  PROVE  UNCHANGED <<catSets, catFiles>>
BY Unseen DEF tables, locks

LEMMA InsertSetUnseen ==
  ASSUME PgInv, NEW c \in Scanners, InsertSet(c)
  PROVE  UNCHANGED <<catSets, catFiles>>
<1>1. /\ UNCHANGED <<sets, files, nextFile, fileLock>> /\ nextSet' = nextSet + 1
      /\ nextSet \in Nat /\ nextSet \in SetIds /\ c # Nobody
      /\ setLock' = [setLock EXCEPT ![nextSet] = c]
      /\ setLock \in [SetIds -> Clients \cup {Nobody}]
  BY IdFacts, ActorFacts DEF PgInv, TypeOK, InsertSet, SetIds
<1>2. ASSUME NEW s \in SetIds
      PROVE  (s < nextSet' /\ setLock'[s] = Nobody) <=> (s < nextSet /\ setLock[s] = Nobody)
  <2>1. CASE s = nextSet
    BY <1>1, <2>1
  <2>2. CASE s # nextSet
    BY <1>1, <2>2, IdFacts
  <2>3. QED
    BY <2>1, <2>2
<1>3. QED
  BY <1>1, <1>2, Unseen

LEMMA InsertFileUnseen ==
  ASSUME PgInv, NEW c \in Scanners, InsertFile(c)
  PROVE  UNCHANGED <<catSets, catFiles>>
<1>1. /\ UNCHANGED <<sets, files, nextSet, setLock>> /\ nextFile' = nextFile + 1
      /\ nextFile \in Nat /\ nextFile \in FileIds /\ c # Nobody
      /\ fileLock' = [fileLock EXCEPT ![nextFile] = c]
      /\ fileLock \in [FileIds -> Clients \cup {Nobody}]
  BY IdFacts, ActorFacts DEF PgInv, TypeOK, InsertFile, FileIds
<1>2. ASSUME NEW f \in FileIds
      PROVE  (f < nextFile' /\ fileLock'[f] = Nobody) <=> (f < nextFile /\ fileLock[f] = Nobody)
  <2>1. CASE f = nextFile
    BY <1>1, <2>1
  <2>2. CASE f # nextFile
    BY <1>1, <2>2, IdFacts
  <2>3. QED
    BY <2>1, <2>2
<1>3. QED
  BY <1>1, <1>2, Unseen

LEMMA LockRowUnseen ==
  ASSUME PgInv, NEW c \in Editors, NEW f \in FileIds, LockRow(c, f)
  PROVE  UNCHANGED <<catSets, catFiles>>
<1>1. /\ UNCHANGED <<sets, files, nextSet, nextFile, setLock>>
      /\ fileLock \in [FileIds -> Clients \cup {Nobody}]
      /\ \/ files[f] = NoFile /\ fileLock' = fileLock
         \/ files[f] # NoFile /\ fileLock' = [fileLock EXCEPT ![f] = c]
  BY DEF PgInv, TypeOK, LockRow, tables
<1>2. \A g \in FileIds : files[g] = NoFile => fileLock'[g] = fileLock[g]
  BY <1>1
<1>3. QED
  BY <1>1, <1>2, Unseen

LEMMA DeleteSetsUnseen ==
  ASSUME PgInv, NEW c \in Deleters, DeleteSets(c)
  PROVE  UNCHANGED <<catSets, catFiles>>
<1>1. ~ \E f \in FileIds : /\ files[f] # NoFile
                           /\ files[f].group \in dele[c].found \cap sets
                           /\ fileLock[f] # c
  BY DEF PgInv, DeleterHolds, DeleteSets
<1>2. /\ UNCHANGED <<sets, files, fileLock, nextSet, nextFile>>
      /\ setLock' = [s \in SetIds |-> IF s \in dele[c].found \cap sets THEN c ELSE setLock[s]]
  BY <1>1 DEF DeleteSets
<1>3. \A s \in SetIds : s \notin sets => setLock'[s] = setLock[s]
  BY <1>2
<1>4. QED
  BY <1>2, <1>3, Unseen

-----------------------------------------------------------------------------
(* The steps that a reader sees.                                           *)

\* A rollback, whatever was its reason, gives up the ids drawn for new rows.
LEMMA RollbackGivesUp ==
  ASSUME PgInv, NEW c \in Clients, Rollback(c), nextSet' = nextSet, nextFile' = nextFile
  PROVE  \E S \in SUBSET SetIds, F \in SUBSET FileIds : Cat!GiveUp(S, F)
<1> DEFINE S == {s \in SetIds : s \notin sets /\ setLock[s] = c}
           F == {f \in FileIds : files[f] = NoFile /\ fileLock[f] = c}
<1>0. /\ c # Nobody /\ sets' = sets /\ files' = files
      /\ \A s \in SetIds : setLock'[s] = IF setLock[s] = c THEN Nobody ELSE setLock[s]
      /\ \A f \in FileIds : fileLock'[f] = IF fileLock[f] = c THEN Nobody ELSE fileLock[f]
  BY PgAssumption DEF Rollback, Release
<1>1. /\ \A s \in S : s < nextSet
      /\ \A f \in F : f < nextFile
  BY <1>0 DEF PgInv, IdsHandedOut
<1>2. /\ \A s \in S : catSets[s] = Unused
      /\ \A f \in F : catFiles[f] = Unused
  BY <1>0, CatFacts
<1>3. catSets' = [s \in SetIds |-> IF s \in S THEN Gone ELSE catSets[s]]
  <2>1. \A s \in SetIds : catSets'[s] = IF s \in S THEN Gone ELSE catSets[s]
    <3> SUFFICES ASSUME NEW s \in SetIds
                 PROVE  catSets'[s] = IF s \in S THEN Gone ELSE catSets[s]
      OBVIOUS
    <3>1. CASE s \in S
      BY <1>0, <1>1, <3>1, CatFacts
    <3>2. CASE s \notin S
      BY <1>0, <3>2, CatFacts
    <3>3. QED
      BY <3>1, <3>2
  <2>2. QED
    BY <2>1, CatFacts
<1>4. catFiles' = [f \in FileIds |-> IF f \in F THEN Gone ELSE catFiles[f]]
  <2>1. \A f \in FileIds : catFiles'[f] = IF f \in F THEN Gone ELSE catFiles[f]
    <3> SUFFICES ASSUME NEW f \in FileIds
                 PROVE  catFiles'[f] = IF f \in F THEN Gone ELSE catFiles[f]
      OBVIOUS
    <3>1. CASE f \in F
      BY <1>0, <1>1, <3>1, CatFacts
    <3>2. CASE f \notin F
      BY <1>0, <3>2, CatFacts
    <3>3. QED
      BY <3>1, <3>2
  <2>2. QED
    BY <2>1, CatFacts
<1> HIDE DEF S, F
<1>5. Cat!GiveUp(S, F)
  BY <1>2, <1>3, <1>4 DEF Cat!GiveUp
<1>6. S \in SUBSET SetIds /\ F \in SUBSET FileIds
  BY DEF S, F
<1>7. QED
  BY <1>5, <1>6

\* The commit of a scan adds its set and all items of its disc.
LEMMA CommitScanAdds ==
  ASSUME PgInv, NEW c \in Scanners, CommitScan(c)
  PROVE  \E s \in SetIds, d \in Discs : Cat!AddSet(s, d)
<1> DEFINE g == scan[c].group
           mine == {f \in FileIds : fileLock[f] = c}
<1>0. /\ TypeOK /\ c \in Clients /\ ScanHolds(c) /\ Commit(c) /\ c # Nobody
      /\ pc[c] = "insert_file" /\ nextSet' = nextSet /\ nextFile' = nextFile
      /\ scan[c].written = Len(scan[c].disc)
  BY ActorFacts DEF PgInv, CommitScan, Clients
<1>1. /\ g \in SetIds /\ setLock[g] = c /\ g \notin sets /\ g < nextSet
      /\ \A s \in SetIds : setLock[s] = c => s = g
  BY <1>0 DEF ScanHolds, PgInv, IdsHandedOut
<1>2. \A s \in SetIds : s \in sets' <=> (s \in sets \/ s = g)
  BY <1>0, <1>1, CommitFacts
<1>3. \A f \in FileIds : /\ f \in mine => /\ files[f] = NoFile /\ files'[f] = draft[f]
                                          /\ draft[f] \in Row /\ draft[f] # NoFile
                                          /\ draft[f].group = g /\ draft[f].tags = {}
                         /\ f \notin mine => files'[f] = files[f]
  BY <1>0, CommitFacts, ActorFacts DEF ScanHolds
<1>4. catSets[g] = Unused
  BY <1>0, <1>1, CatFacts
<1>5. catSets' = [catSets EXCEPT ![g] = "kept"]
  <2>1. \A s \in SetIds \ {g} : setLock'[s] = setLock[s]
    BY <1>0, <1>1, CommitFacts
  <2>2. \A s \in SetIds : catSets'[s] = IF s = g THEN "kept" ELSE catSets[s]
    BY <1>0, <1>2, <2>1, CatFacts
  <2>3. QED
    BY <1>1, <2>2, CatFacts
<1>6. \A f \in FileIds : /\ f \in mine => catFiles[f] = Unused /\ catFiles'[f] = draft[f]
                         /\ f \notin mine => catFiles'[f] = catFiles[f]
  <2>1. \A f \in FileIds : f \in mine => catFiles[f] = Unused /\ catFiles'[f] = draft[f]
    BY <1>0, <1>3, CatFacts
  <2>2. \A f \in FileIds : f \notin mine => catFiles'[f] = catFiles[f]
    BY <1>0, <1>3, CommitFacts, CatFacts
  <2>3. QED
    BY <2>1, <2>2
<1>7. catFiles' \in [FileIds -> Row \cup {Unused, Gone}]
  <2>1. files' \in [FileIds -> Row \cup {NoFile}]
    BY <1>0, CommitFacts
  <2>2. QED
    BY <2>1, CatFacts
<1>8. {ItemOf(catFiles'[f]) : f \in mine} = Range(scan[c].disc)
  <2>1. {ItemOf(catFiles'[f]) : f \in mine} = {ItemOf(draft[f]) : f \in mine}
    BY <1>6
  <2>2. {ItemOf(draft[f]) : f \in mine} = {scan[c].disc[i] : i \in 1 .. Len(scan[c].disc)}
    BY <1>0 DEF ScanHolds
  <2>3. scan[c].disc \in Seq(Item)
    BY <1>0, PgAssumption DEF TypeOK
  <2>4. {scan[c].disc[i] : i \in 1 .. Len(scan[c].disc)} = Range(scan[c].disc)
    BY <2>3, LenProperties DEF Range
  <2>5. QED
    BY <2>1, <2>2, <2>4
<1>9. Row = Cat!Row /\ \A r : Cat!ItemOf(r) = ItemOf(r)
  BY DEF Row, Cat!Row, ItemOf, Cat!ItemOf
<1>10. Range(scan[c].disc) = Cat!Range(scan[c].disc)
  BY DEF Range, Cat!Range
<1>11. mine \in SUBSET FileIds /\ scan[c].disc \in Discs
  BY <1>0 DEF TypeOK
<1> HIDE DEF mine, g
<1>12. {Cat!ItemOf(catFiles'[f]) : f \in mine} = Cat!Range(scan[c].disc)
  BY <1>8, <1>9, <1>10
<1>13. \A f \in mine : /\ catFiles'[f] \in Cat!Row
                      /\ catFiles'[f].group = g /\ catFiles'[f].tags = {}
  BY <1>3, <1>6, <1>9, <1>11
<1>14. Cat!AddSet(g, scan[c].disc)
  BY <1>4, <1>5, <1>6, <1>7, <1>9, <1>11, <1>12, <1>13 DEF Cat!AddSet
<1>15. QED
  BY <1>1, <1>11, <1>14

\* The commit of an UPDATE edits the tags of all the rows it has written.
LEMMA CommitUpdateEdits ==
  ASSUME PgInv, NEW c \in Taggers, CommitUpdate(c)
  PROVE  \E F \in SUBSET FileIds, added, removed \in SUBSET Tags :
           Cat!Edit(F, added, removed)
<1> DEFINE F == {f \in FileIds : fileLock[f] = c}
           added == IF edit[c].op = "add" THEN Range(edit[c].tags) ELSE {}
           removed == IF edit[c].op = "add" THEN {}
                      ELSE IF edit[c].op = "remove" THEN Range(edit[c].tags) ELSE Tags
<1>0. /\ TypeOK /\ c \in Clients /\ c \in Editors /\ EditHolds(c) /\ TaggerHolds(c)
      /\ Commit(c) /\ c # Nobody /\ nextSet' = nextSet /\ nextFile' = nextFile
  BY ActorFacts DEF PgInv, CommitUpdate, Clients, Editors
<1>1. /\ edit[c] \in Requests /\ Range(edit[c].tags) \subseteq Tags
      /\ edit[c].op \in {"add", "remove", "clear"}
  BY <1>0, RequestFacts DEF TypeOK
<1>2. added \in SUBSET Tags /\ removed \in SUBSET Tags /\ F \in SUBSET FileIds
  BY <1>1
<1>3. \A old \in SUBSET Tags : NewTags(edit[c], old) = (old \ removed) \cup added
  BY <1>1 DEF NewTags
<1> HIDE DEF added, removed
<1>4. \A f \in FileIds :
        /\ f \in F => /\ files[f] \in Row /\ files[f] # NoFile
                      /\ files'[f] = [files[f] EXCEPT !.tags = (@ \ removed) \cup added]
                      /\ files'[f] # NoFile
        /\ f \notin F => files'[f] = files[f]
  <2> SUFFICES ASSUME NEW f \in FileIds, f \in F
               PROVE  /\ files[f] \in Row /\ files[f] # NoFile
                      /\ files'[f] = [files[f] EXCEPT !.tags = (@ \ removed) \cup added]
                      /\ files'[f] # NoFile
    BY <1>0, CommitFacts
  <2>1. files[f] # NoFile /\ files'[f] = Written(c, files[f])
    BY <1>0, CommitFacts DEF EditHolds
  <2>2. files[f] \in Row
    BY <2>1, SeenRows
  <2>3. files[f].tags \in SUBSET Tags
    BY <2>2 DEF Row
  <2>4. NewTags(edit[c], files[f].tags) = (files[f].tags \ removed) \cup added
    BY <1>3, <2>3
  <2>5. Written(c, files[f]) \in Row
    BY <1>0, <2>2, WrittenFacts
  <2>6. QED
    BY <2>1, <2>2, <2>4, <2>5, ActorFacts DEF Written
<1>5. catSets' = catSets
  <2>1. \A s \in SetIds : setLock'[s] = setLock[s] /\ (s \in sets' <=> s \in sets)
    BY <1>0, CommitFacts DEF TaggerHolds
  <2>2. QED
    BY <1>0, <2>1, CatFacts
<1>6. \A f \in FileIds : catFiles'[f] = IF f \in F
                                        THEN [catFiles[f] EXCEPT !.tags = (@ \ removed) \cup added]
                                        ELSE catFiles[f]
  <2> SUFFICES ASSUME NEW f \in FileIds
               PROVE  catFiles'[f] = IF f \in F
                                     THEN [catFiles[f] EXCEPT !.tags = (@ \ removed) \cup added]
                                     ELSE catFiles[f]
    OBVIOUS
  <2>1. CASE f \in F
    <3>1. catFiles[f] = files[f] /\ catFiles'[f] = files'[f]
      BY <1>4, <2>1, CatFacts
    <3>2. files'[f] = [files[f] EXCEPT !.tags = (@ \ removed) \cup added]
      BY <1>4, <2>1
    <3>3. QED
      BY <2>1, <3>1, <3>2
  <2>2. CASE f \notin F
    <3>1. fileLock'[f] = fileLock[f] /\ files'[f] = files[f]
      BY <1>0, <1>4, <2>2, CommitFacts
    <3>2. QED
      BY <1>0, <2>2, <3>1, CatFacts
  <2>3. QED
    BY <2>1, <2>2
<1>7. \A f \in F : Cat!IsFile(f)
  <2>1. \A f \in F : catFiles[f] = files[f] /\ files[f] \in Row
    BY <1>4, CatFacts
  <2>2. QED
    BY <2>1, CatValues DEF Cat!IsFile
<1> HIDE DEF F
<1>8. catFiles' = [f \in FileIds |-> IF f \in F
                                    THEN [catFiles[f] EXCEPT !.tags = (@ \ removed) \cup added]
                                    ELSE catFiles[f]]
  BY <1>6, CatFacts
<1>9. Cat!Edit(F, added, removed)
  BY <1>5, <1>7, <1>8 DEF Cat!Edit
<1>10. QED
  BY <1>2, <1>9

\* The commit of a deletion removes its sets with all their files.
LEMMA CommitDeleteRemoves ==
  ASSUME PgInv, NEW c \in Deleters, CommitDelete(c)
  PROVE  \E S \in SUBSET SetIds : Cat!RemoveSets(S)
<1> DEFINE S == dele[c].found \cap sets
<1>0. /\ TypeOK /\ c \in Clients /\ c \in Editors /\ EditHolds(c) /\ DeleterHolds(c)
      /\ Commit(c) /\ c # Nobody /\ nextSet' = nextSet /\ nextFile' = nextFile
      /\ pc[c] = "commit"
  BY ActorFacts DEF PgInv, CommitDelete, Clients, Editors
<1>1. S \in SUBSET SetIds /\ \A s \in SetIds : setLock[s] = c <=> s \in S
  BY <1>0 DEF TypeOK, DeleterHolds
<1>2. \A s \in S : catSets[s] = "kept" /\ s < nextSet
  BY <1>1, CatFacts DEF PgInv, IdsHandedOut
<1>3. \A s \in SetIds : catSets'[s] = IF s \in S THEN Gone ELSE catSets[s]
  <2> SUFFICES ASSUME NEW s \in SetIds
               PROVE  catSets'[s] = IF s \in S THEN Gone ELSE catSets[s]
    OBVIOUS
  <2>1. CASE s \in S
    <3>1. s \notin sets' /\ setLock'[s] = Nobody /\ s < nextSet
      BY <1>0, <1>1, <1>2, <2>1, CommitFacts
    <3>2. QED
      BY <1>0, <2>1, <3>1, CatFacts
  <2>2. CASE s \notin S
    <3>1. (s \in sets' <=> s \in sets) /\ setLock'[s] = setLock[s]
      BY <1>0, <1>1, <2>2, CommitFacts
    <3>2. QED
      BY <1>0, <2>2, <3>1, CatFacts
  <2>3. QED
    BY <2>1, <2>2
<1>4. \A f \in FileIds : files[f] # NoFile =>
        /\ catFiles[f] = files[f] /\ Cat!IsFile(f)
        /\ files[f].group \in S <=> fileLock[f] = c
  <2> SUFFICES ASSUME NEW f \in FileIds, files[f] # NoFile
               PROVE  /\ catFiles[f] = files[f] /\ Cat!IsFile(f)
                      /\ files[f].group \in S <=> fileLock[f] = c
    OBVIOUS
  <2>1. files[f] \in Row /\ files[f].group \in sets
    BY SeenRows
  <2>2. catFiles[f] = files[f]
    BY CatFacts
  <2>3. Cat!IsFile(f)
    BY <2>1, <2>2, CatValues DEF Cat!IsFile
  <2>4. files[f].group \in S <=> fileLock[f] = c
    BY <1>0, <2>1 DEF DeleterHolds
  <2>5. QED
    BY <2>2, <2>3, <2>4
<1>5. \A f \in FileIds : files[f] = NoFile => ~Cat!IsFile(f)
  BY CatFacts DEF Cat!IsFile
<1> HIDE DEF S
<1>6. \A f \in FileIds :
        catFiles'[f] = IF Cat!IsFile(f) /\ catFiles[f].group \in S THEN Gone ELSE catFiles[f]
  <2> SUFFICES ASSUME NEW f \in FileIds
               PROVE  catFiles'[f] = IF Cat!IsFile(f) /\ catFiles[f].group \in S
                                     THEN Gone ELSE catFiles[f]
    OBVIOUS
  <2>1. CASE fileLock[f] = c
    <3>1. files[f] # NoFile /\ f < nextFile
      BY <1>0, <2>1 DEF EditHolds, PgInv, IdsHandedOut
    <3>2. files[f] \in Row
      BY <3>1, SeenRows
    <3>3. files'[f] = NoFile /\ fileLock'[f] = Nobody
      BY <1>0, <2>1, <3>2, CommitFacts, WrittenFacts DEF EditHolds
    <3>4. catFiles'[f] = Gone
      BY <1>0, <3>1, <3>3, CatFacts
    <3>5. QED
      BY <1>4, <2>1, <3>1, <3>4
  <2>2. CASE fileLock[f] # c
    <3>1. files'[f] = files[f] /\ fileLock'[f] = fileLock[f]
      BY <1>0, <2>2, CommitFacts
    <3>2. catFiles'[f] = catFiles[f]
      BY <1>0, <3>1, CatFacts
    <3>3. QED
      BY <1>4, <1>5, <2>2, <3>2
  <2>3. QED
    BY <2>1, <2>2
<1>7. /\ catSets' = [s \in SetIds |-> IF s \in S THEN Gone ELSE catSets[s]]
      /\ catFiles' = [f \in FileIds |->
           IF Cat!IsFile(f) /\ catFiles[f].group \in S THEN Gone ELSE catFiles[f]]
  <2>1. catSets' = [s \in SetIds |-> IF s \in S THEN Gone ELSE catSets[s]]
    BY <1>3, CatFacts
  <2>2. catFiles' = [f \in FileIds |->
           IF Cat!IsFile(f) /\ catFiles[f].group \in S THEN Gone ELSE catFiles[f]]
    BY <1>6, CatFacts
  <2>3. QED
    BY <2>1, <2>2
<1>8. Cat!RemoveSets(S)
  BY <1>2, <1>7 DEF Cat!RemoveSets
<1>9. QED
  BY <1>1, <1>8

-----------------------------------------------------------------------------
(* The refinement.                                                         *)

LEMMA CatStep ==
  ASSUME PgInv, [Next]_vars
  PROVE  Cat!CatNext \/ UNCHANGED <<catSets, catFiles>>
<1>1. ASSUME NEW c \in Scanners, Scan(c)
      PROVE  Cat!CatNext \/ UNCHANGED <<catSets, catFiles>>
  <2>1. CASE LookUp(c) \/ ReadSet(c)
    BY <2>1, LocalUnseen DEF LookUp, ReadSet
  <2>2. CASE InsertSet(c) \/ InsertFile(c)
    BY <2>2, InsertSetUnseen, InsertFileUnseen
  <2>3. CASE CommitScan(c)
    BY <2>3, CommitScanAdds DEF Cat!CatNext
  <2>4. CASE SequenceAtEnd(c)
    BY <2>4, FailureKeeps, RollbackGivesUp DEF Cat!CatNext, Clients
  <2>5. QED
    BY <1>1, <2>1, <2>2, <2>3, <2>4 DEF Scan
<1>2. ASSUME NEW c \in Taggers, Tag(c)
      PROVE  Cat!CatNext \/ UNCHANGED <<catSets, catFiles>>
  <2>1. CASE Update(c)
    BY <2>1, LocalUnseen DEF Update
  <2>2. CASE LockRows(c)
    BY <2>2, LockRowUnseen DEF LockRows, Editors
  <2>3. CASE CommitUpdate(c)
    BY <2>3, CommitUpdateEdits DEF Cat!CatNext
  <2>4. QED
    BY <1>2, <2>1, <2>2, <2>3 DEF Tag
<1>3. ASSUME NEW c \in Deleters, Delete(c) \/ Answer(c)
      PROVE  Cat!CatNext \/ UNCHANGED <<catSets, catFiles>>
  <2>1. CASE FetchExistingIds(c) \/ Answer(c) \/ DeleteFiles(c) \/ EndDeleteFiles(c)
    BY <2>1, LocalUnseen DEF FetchExistingIds, Answer, DeleteFiles, EndDeleteFiles
  <2>2. CASE LockRows(c)
    BY <2>2, LockRowUnseen DEF LockRows, Editors
  <2>3. CASE DeleteSets(c)
    BY <2>3, DeleteSetsUnseen
  <2>4. CASE CommitDelete(c)
    BY <2>4, CommitDeleteRemoves DEF Cat!CatNext
  <2>5. QED
    BY <1>3, <2>1, <2>2, <2>3, <2>4 DEF Delete
<1>4. ASSUME NEW c \in Clients, Deadlock(c) \/ Crash(c)
      PROVE  Cat!CatNext \/ UNCHANGED <<catSets, catFiles>>
  BY <1>4, FailureKeeps, RollbackGivesUp DEF Cat!CatNext
<1>5. CASE UNCHANGED vars
  BY <1>5, LocalUnseen DEF vars
<1>6. QED
  BY <1>1, <1>2, <1>3, <1>4, <1>5 DEF Next

(* The PostgreSQL backend implements the abstract catalogue: every command *)
(* takes effect at once, on whole sets, and ids are never given out again. *)
THEOREM PgImplements == Spec => ImplementsCatalogue
<1>1. Init => Cat!CatInit
  <2> SUFFICES ASSUME Init PROVE Cat!CatInit
    OBVIOUS
  <2>1. \A s \in SetIds : catSets[s] = Unused
    BY IdFacts, CatFacts DEF Init
  <2>2. \A f \in FileIds : catFiles[f] = Unused
    BY IdFacts, CatFacts DEF Init
  <2>3. QED
    BY <2>1, <2>2, CatFacts DEF Cat!CatInit
<1>2. PgInv /\ [Next]_vars => [Cat!CatNext]_(Cat!catVars)
  BY CatStep DEF Cat!catVars
<1>3. QED
  BY <1>1, <1>2, PgInvariant, PTL DEF Spec, ImplementsCatalogue, Cat!CatSpec

-----------------------------------------------------------------------------
LEMMA OnlyAsked ==
  ASSUME PgInv, [Next]_vars, NEW f \in FileIds, files[f] # NoFile, files'[f] # files[f]
  PROVE  \E c \in Editors :
           /\ pc'[c] = "done"
           /\ \/ c \in Taggers /\ pc[c] = "lock_rows" /\ Asked(edit[c], f)
              \/ c \in Deleters /\ pc[c] = "commit"
                   /\ files'[f] = NoFile /\ files[f].group \in dele[c].asked
<1>0. TypeOK
  BY DEF PgInv
<1>1. ASSUME NEW c \in Scanners, Scan(c) PROVE FALSE
  <2>1. CASE CommitScan(c)
    <3>1. Commit(c) /\ c \in Clients /\ fileLock[f] # c
      BY <2>1 DEF CommitScan, Clients, PgInv, ScanHolds
    <3>2. QED
      BY <1>0, <3>1, CommitFacts
  <2>2. CASE ~CommitScan(c)
    BY <1>1, <2>2 DEF Scan, LookUp, ReadSet, InsertSet, InsertFile, SequenceAtEnd,
       Rollback, tables
  <2>3. QED
    BY <2>1, <2>2
<1>2. ASSUME NEW c \in Taggers, Tag(c)
      PROVE  pc'[c] = "done" /\ pc[c] = "lock_rows" /\ Asked(edit[c], f)
  <2>1. CommitUpdate(c)
    BY <1>2 DEF Tag, Update, LockRows, LockRow, tables
  <2>2. c \in Clients /\ c \in Editors /\ Commit(c) /\ pc[c] = "lock_rows"
    BY <2>1 DEF CommitUpdate, Clients, Editors
  <2>3. fileLock[f] = c
    BY <1>0, <2>2, CommitFacts
  <2>4. f \in done[c]
    BY <2>2, <2>3 DEF PgInv, EditHolds
  <2>5. Matches(edit[c], f)
    BY <2>2, <2>4 DEF PgInv, TaggerHolds
  <2>6. pc'[c] = "done"
    BY <1>0, <2>1, <2>2, GotoFacts DEF CommitUpdate, Labels
  <2>7. QED
    BY <2>2, <2>5, <2>6 DEF Matches, Asked
<1>3. ASSUME NEW c \in Deleters, Delete(c) \/ Answer(c)
      PROVE  /\ pc'[c] = "done" /\ pc[c] = "commit" /\ files'[f] = NoFile
             /\ files[f].group \in dele[c].asked
  <2>1. CommitDelete(c)
    BY <1>3 DEF Delete, Answer, FetchExistingIds, DeleteFiles, LockRows, LockRow,
       EndDeleteFiles, DeleteSets, Rollback, tables
  <2>2. c \in Clients /\ c \in Editors /\ Commit(c) /\ pc[c] = "commit"
    BY <2>1 DEF CommitDelete, Clients, Editors
  <2>3. fileLock[f] = c
    BY <1>0, <2>2, CommitFacts
  <2>4. files'[f] = Written(c, files[f]) /\ files[f] \in Row
    BY <1>0, <2>2, <2>3, CommitFacts, SeenRows DEF PgInv, EditHolds
  <2>5. files'[f] = NoFile
    BY <1>0, <2>2, <2>4, WrittenFacts
  <2>6. files[f].group \in dele[c].asked
    BY <2>3 DEF PgInv, DeleterHolds
  <2>7. pc'[c] = "done"
    BY <1>0, <2>1, <2>2, GotoFacts DEF CommitDelete, Labels
  <2>8. QED
    BY <2>2, <2>5, <2>6, <2>7
<1>4. ASSUME NEW c \in Clients, Deadlock(c) \/ Crash(c) PROVE FALSE
  BY <1>4 DEF Deadlock, Crash, Rollback
<1>5. CASE UNCHANGED vars
  BY <1>5 DEF vars, tables
<1>6. QED
  BY <1>1, <1>2, <1>3, <1>4, <1>5 DEF Next, Editors

(* Only an edit that was asked for a file changes its tags, and only a     *)
(* deletion that was asked for its set removes it.                         *)
THEOREM PgOnlyWhatWasAsked == Spec => OnlyWhatWasAsked
<1>1. PgInv /\ [Next]_vars =>
        [\A f \in FileIds :
           files[f] # NoFile /\ files'[f] # files[f] =>
             \E c \in Editors :
               /\ pc'[c] = "done"
               /\ \/ c \in Taggers /\ pc[c] = "lock_rows" /\ Asked(edit[c], f)
                  \/ c \in Deleters /\ pc[c] = "commit"
                       /\ files'[f] = NoFile /\ files[f].group \in dele[c].asked]_vars
  BY OnlyAsked
<1>2. QED
  BY <1>1, PgInvariant, PTL DEF Spec, OnlyWhatWasAsked
===============================================================================
