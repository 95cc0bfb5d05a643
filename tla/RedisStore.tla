------------------------------ MODULE RedisStore ------------------------------
(***************************************************************************)
(* The key space the Redis backend keeps on the server, and the commands   *)
(* and Lua scripts that change it (src/src/backends/redis/).               *)
(*                                                                         *)
(*   dindexer:indices    indices  the two HINCRBY counters                 *)
(*   dindexer:set:<g>    sets     the hash of a set: first file id, count  *)
(*   dindexer:file:<f>   files    the hash of a file: owner set, content   *)
(*                                hash, tag list (a set of tags here)      *)
(*   dindexer:hash:<h>   hashes   ids of the files having content hash h   *)
(*   dindexer:levels:<g> levels   ids of the files of set g                *)
(*   dindexer:tag:<t>    tags     ids of the files tagged t                *)
(*   script cache        scripts  scripts that EVALSHA finds               *)
(*                                                                         *)
(* Every operator below is ONE command or ONE script: Redis runs each of   *)
(* them atomically, and nothing groups several of them.                    *)
(***************************************************************************)
EXTENDS Integers, Sequences, FiniteSets

CONSTANTS
  MaxSets,   \* bound: group ids handed out by HINCRBY indices.set
  MaxFiles,  \* bound: file ids handed out by HINCRBY indices.files
  Hashes,    \* content hashes
  NoHash,    \* the hash field of a file key that does not exist
  Tags,
  Chunk      \* keys per DEL command; the code instantiates 8

ASSUME StoreAssumption ==
  /\ MaxSets \in Nat \ {0}
  /\ MaxFiles \in Nat \ {0}
  /\ Chunk \in Nat \ {0}
  /\ NoHash \notin Hashes

VARIABLES indices, sets, files, hashes, levels, tags, scripts
store == <<indices, sets, files, hashes, levels, tags, scripts>>

SetIds  == 1 .. MaxSets
FileIds == 1 .. MaxFiles
InvalidGroupID == 0

ScriptNames == {"tag_if_in_set", "dele_tag_if_in_set", "dele_hash"}

\* A key that does not exist reads as a record without owner, or without files.
NoFile == [group |-> InvalidGroupID, hash |-> NoHash, tags |-> {}]
NoSet  == [base |-> 0, count |-> 0]

FileExists(f) == files[f].group # InvalidGroupID
SetExists(g)  == sets[g].count # 0

\* The ids of `count` consecutive files.
IdRange(base, count) == base .. base + count - 1

StoreTypeOK ==
  /\ indices \in [set : 0 .. MaxSets, files : 0 .. MaxFiles]
  /\ sets \in [SetIds -> [base : 0 .. MaxFiles, count : 0 .. MaxFiles]]
  /\ files \in [FileIds -> [group : 0 .. MaxSets,
                            hash  : Hashes \cup {NoHash},
                            tags  : SUBSET Tags]]
  /\ hashes \in [Hashes -> SUBSET FileIds]
  /\ levels \in [SetIds -> SUBSET FileIds]
  /\ tags \in [Tags -> SUBSET FileIds]
  /\ scripts \in SUBSET ScriptNames

StoreInit ==
  /\ indices = [set |-> 0, files |-> 0]
  /\ sets = [g \in SetIds |-> NoSet]
  /\ files = [f \in FileIds |-> NoFile]
  /\ hashes = [h \in Hashes |-> {}]
  /\ levels = [g \in SetIds |-> {}]
  /\ tags = [t \in Tags |-> {}]
  /\ scripts = {}

-----------------------------------------------------------------------------
(* Lua scripts.  The guard of both tag scripts, `group_id ~= 0`, compares  *)
(* the argument, a string, with a number: it is true of every argument, so *)
(* the owner is compared always, InvalidGroupID included, and a file key   *)
(* that does not exist has no group_id to match.                           *)

\* Mutant: the script does not compare the owner.
MatchesOwnerUnchecked(f, g) == FileExists(f)

MatchesOwner(f, g) == FileExists(f) /\ files[f].group = g

TagIfInSet(t, f, g) ==
  IF MatchesOwner(f, g)
    THEN /\ files' = [files EXCEPT ![f].tags = @ \cup {t}]
         /\ tags'  = [tags EXCEPT ![t] = @ \cup {f}]
    ELSE UNCHANGED <<files, tags>>

\* Mutant: the script leaves the file in the key of the tag.
DeleTagIfInSetNoSRem(t, f, g) ==
  /\ files' = IF MatchesOwner(f, g) THEN [files EXCEPT ![f].tags = @ \ {t}]
                                    ELSE files
  /\ UNCHANGED tags

DeleTagIfInSet(t, f, g) ==
  IF MatchesOwner(f, g)
    THEN /\ files' = [files EXCEPT ![f].tags = @ \ {t}]
         /\ tags'  = [tags EXCEPT ![t] = @ \ {f}]
    ELSE UNCHANGED <<files, tags>>

\* Mutant: the script removes the whole key of the hash.
DeleHashKey(h, ids) ==
  hashes' = [k \in Hashes |-> IF k = h THEN {} ELSE hashes[k]]

\* The key of an unknown hash has no members.
DeleHash(h, ids) ==
  hashes' = [k \in Hashes |-> IF k = h THEN hashes[k] \ ids ELSE hashes[k]]

-----------------------------------------------------------------------------
(* Plain commands *)

HMSetFile(f, g, h) ==
  files' = [files EXCEPT ![f] = [group |-> g, hash |-> h, tags |-> @.tags]]

DelFileKeys(ids) ==
  files' = [f \in FileIds |-> IF f \in ids THEN NoFile ELSE files[f]]

(* The DEL commands chunked_run queues for `count` files from `from` on:   *)
(* as many chunks as fit, then one key at a time.  The tail starts at the  *)
(* last multiple of Chunk not above from + count, as it does in the code.  *)
TailStart(from, count) == ((from + count) \div Chunk) * Chunk

ChunkedRun(from, count) ==
  LET start == TailStart(from, count) IN
     [i \in 1 .. count \div Chunk |-> IdRange((i - 1) * Chunk + from, Chunk)]
  \o [i \in 1 .. from + count - start |-> {start + i - 1}]
=============================================================================
