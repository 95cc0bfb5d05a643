------------------------ MODULE RedisQueriesProperties ------------------------
(***************************************************************************)
(* What `dindexer tag` given globs and `dindexer locate` promise while the *)
(* catalogue they walk changes under them.                                 *)
(***************************************************************************)
EXTENDS RedisQueries, RedisProperties

-----------------------------------------------------------------------------
Found(c, f) == \E r \in find[c].rows : r.id = f

Matched(c) ==
  {f \in cursor[c].since : FileExists(f) /\ files[f].hash \in find[c].pattern}

(* locate_in_bursts reports every matching file that was there when the    *)
(* search began and still is when it ends, however many batches it takes   *)
(* and whatever others add and delete meanwhile.                           *)
LocateMissesNothing ==
  \A c \in Taggers :
    /\ At(c, "done") /\ find[c].at = "ended" /\ find[c].root = NoHash
    => \A f \in Matched(c) : Found(c, f)

(* What a row says of a file that still exists is still true: the owner    *)
(* and the contents of an id never change, so a result that was read       *)
(* before a deletion or a scan ended cannot name one set's file with       *)
(* another one's record (ids and replies are zipped in two containers).    *)
LocatedRowsTrue ==
  \A c \in Taggers : \A r \in find[c].rows :
    FileExists(r.id) =>
      files[r.id].group = r.group /\ files[r.id].hash = r.hash

\* Files known by hash h from the beginning to now.
Known(c, h) ==
  {f \in cursor[c].since : /\ FileExists(f) /\ files[f].hash = h
                           /\ files[f].group \notin Condemned}

\* File f was written as one of hash h, and may be gone.
WrittenAs(f, h) ==
  \E s \in Scanners :
    /\ f \in IdRange(scan[s].base, scan[s].written)
    /\ scan[s].disc[f - scan[s].base + 1] = h

(* No result is a copy of the local item h, not even one that was deleted  *)
(* between SMEMBERS and HMGET: such a result is as good as any other.      *)
NoResult(c, h) == \A r \in find[c].rows : ~WrittenAs(r.id, h)

(* locate --byhash that ends reports every copy of the local item, and if  *)
(* it has no result for an item every copy of what is inside, and so on as *)
(* deep as nothing is found (find.cpp:197, collect_matching_recursively):  *)
(* a result for one thing inside is no excuse for others that are missed.  *)
(* All this is of the files that nobody is deleting.                       *)
ByHashMissesNothing ==
  \A c \in Taggers :
    At(c, "done") /\ find[c].root # NoHash =>
      \E asked \in SUBSET Hashes :
        /\ find[c].root \in asked
        /\ \A h \in asked :
             /\ \A f \in Known(c, h) : Found(c, f)
             /\ NoResult(c, h) => Inside[h] \subseteq asked

-----------------------------------------------------------------------------
Acts(c, mode, f, t) ==
  /\ glob[c].mode = mode /\ t \in glob[c].tags
  /\ files[f].hash \in glob[c].pattern /\ files[f].group = glob[c].owner

(* run_regex_based_script decides on a path it read one command earlier;   *)
(* the script then runs on whatever the key holds.  Still, a file gains a  *)
(* tag only if it matches a glob of somebody who adds that tag in its set, *)
(* and loses one only so or when its own set is being deleted.             *)
GlobsTagWhatTheyMatch ==
  [][\A f \in FileIds : \A t \in Tags :
       FileExists(f) /\ FileExists(f)' =>
         /\ t \in files'[f].tags \ files[f].tags =>
              \E c \in Taggers : Acts(c, "add", f, t)
         /\ t \in files[f].tags \ files'[f].tags =>
              \/ \E c \in Taggers : Acts(c, "dele", f, t)
              \/ files[f].group \in Condemned]_queryVars

(* When `tag --globs` reports success every file of the set that matches   *)
(* and was there from the beginning has the tags, unless somebody removes  *)
(* them: throw_if_failed after each file lets no lost script pass.         *)
GlobReachesAll ==
  \A c \in Taggers :
    At(c, "done") /\ glob[c].at = "ended" /\ glob[c].mode = "add" =>
      \A f \in cursor[c].since :
        /\ FileExists(f)
        /\ files[f].hash \in glob[c].pattern /\ files[f].group = glob[c].owner
        /\ files[f].group \notin Condemned
        => \A t \in glob[c].tags :
             \/ t \in files[f].tags
             \/ \E d \in Taggers \ {c} : Acts(d, "dele", f, t)
=============================================================================
