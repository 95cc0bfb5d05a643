------------------------------ MODULE Catalogue ------------------------------
(***************************************************************************)
(* What a backend promises its users, without a word about commands,       *)
(* transactions or processes: a catalogue of sets, each recorded with all  *)
(* the files of its disc at once, edited in one step by every command, and *)
(* whose ids are never given out twice.                                    *)
(***************************************************************************)
EXTENDS Sequences, Functions

CONSTANTS
  SetIds, FileIds, Paths, Hashes, Tags,
  Discs,    \* the items of a disc, each with a path and a hash
  Unused,   \* an id that may yet name something
  Gone      \* an id that never will again

VARIABLES
  sets,     \* for every id: Unused, "kept" or Gone
  files     \* for every id: a record, Unused or Gone

catVars == <<sets, files>>

Item == [path : Paths, hash : Hashes]

Row == [group : SetIds, path : Paths, hash : Hashes, tags : SUBSET Tags]

IsFile(f) == files[f] \notin {Unused, Gone}

ItemOf(row) == [path |-> row.path, hash |-> row.hash]

CatInit ==
  /\ sets = [s \in SetIds |-> Unused]
  /\ files = [f \in FileIds |-> Unused]

\* A set and all the items of a disc, under ids nothing ever had.
AddSet(s, d) ==
  /\ sets[s] = Unused
  /\ sets' = [sets EXCEPT ![s] = "kept"]
  /\ \E new \in SUBSET FileIds :
       /\ \A f \in new : files[f] = Unused /\ files'[f] \in Row
       /\ \A f \in FileIds \ new : files'[f] = files[f]
       /\ \A f \in new : files'[f].group = s /\ files'[f].tags = {}
       /\ {ItemOf(files'[f]) : f \in new} = Range(d)
  /\ files' \in [FileIds -> Row \cup {Unused, Gone}]

\* Sets go together with their files.
RemoveSets(S) ==
  /\ \A s \in S : sets[s] = "kept"
  /\ sets' = [s \in SetIds |-> IF s \in S THEN Gone ELSE sets[s]]
  /\ files' = [f \in FileIds |->
                 IF IsFile(f) /\ files[f].group \in S THEN Gone ELSE files[f]]

\* Tags are added and removed on any files, all at once, and nothing else is.
Edit(F, added, removed) ==
  /\ \A f \in F : IsFile(f)
  /\ files' = [f \in FileIds |->
                 IF f \in F
                 THEN [files[f] EXCEPT !.tags = (@ \ removed) \cup added]
                 ELSE files[f]]
  /\ UNCHANGED sets

\* Ids that were given out and will not be used, because a writer failed.
GiveUp(S, F) ==
  /\ \A s \in S : sets[s] = Unused
  /\ \A f \in F : files[f] = Unused
  /\ sets' = [s \in SetIds |-> IF s \in S THEN Gone ELSE sets[s]]
  /\ files' = [f \in FileIds |-> IF f \in F THEN Gone ELSE files[f]]

CatNext ==
  \/ \E s \in SetIds, d \in Discs : AddSet(s, d)
  \/ \E S \in SUBSET SetIds : RemoveSets(S)
  \/ \E F \in SUBSET FileIds, added, removed \in SUBSET Tags :
       Edit(F, added, removed)
  \/ \E S \in SUBSET SetIds, F \in SUBSET FileIds : GiveUp(S, F)

CatSpec == CatInit /\ [][CatNext]_catVars
=============================================================================
