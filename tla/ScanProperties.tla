--------------------------- MODULE ScanProperties ---------------------------
(***************************************************************************)
(* What must hold of a run of dindexer scan.                               *)
(***************************************************************************)
EXTENDS Scan

Frames == [task : Tasks \cup {"main"}, todo : Seq(Tasks \cup {"open", "fill"})]

(* The types of the variables.  A hash is what Tiger makes of a sequence   *)
(* that may hold hashes, it has no set to be in.                           *)
TypeOK ==
  /\ top \in SearchPaths
  /\ disc \in Discs
  /\ ignore \in BOOLEAN
  /\ stack \in Seq(Frames) /\ stack # <<>>
  /\ made \subseteq Tasks
  /\ visited \subseteq Nodes
  /\ list \in Seq(Nodes)
  /\ DOMAIN hash = Nodes
  /\ valid \in [Nodes -> BOOLEAN]
  /\ unreadable \in [Nodes -> BOOLEAN]
  /\ mimed \in [Nodes -> BOOLEAN]
  /\ dirs \in Seq([dir : Dirs, view : 1 .. Len(list),
                  at : 1 .. Len(list) + 1, phase : {"names", "files"}])
  /\ DOMAIN blob = Dirs
  /\ set \in [name : {"", "given"}, label : {"", "label"}, type : MediaTypes \cup {""},
              content : {"", "Empty", "Generic", "VideoCD", "VideoDVD"}]
  /\ result \in {"running", "stored", "present", "failed"}

(* Whatever order nftw reports entries in, the list is sorted and has no   *)
(* record twice: the searches and views rely on it, and the check of       *)
(* guess_content_type.cpp:155.                                             *)
ListSorted == IsSorted(list, Before)

(* leanbase.hpp:36: no task's get_or_create is called while it is under    *)
(* way, whichever of add_to_db's arguments is evaluated first.             *)
TasksDoNotReenter ==
  \A i, j \in DOMAIN stack : i # j => stack[i].task # stack[j].task

(* hashing.cpp:70 and 95: an iterator that is not at its end is at a       *)
(* record of the directory it was made for, and in the loop over files at  *)
(* no directory.                                                           *)
ViewsShowChildren ==
  \A i \in DOMAIN dirs :
    LET f == dirs[i]
    IN  ~ AtEnd(list, f.dir, f.at) =>
          /\ IsIn(list[f.at], f.dir)
          /\ f.phase = "files" => list[f.at] \notin Dirs

(* guess_content_type.cpp:134 and 136: descending from view to view meets  *)
(* every record but the first exactly once.                                *)
ViewsCoverList ==
  Working("content") /\ list # <<>> =>
    /\ CountRecursive(list) = Len(list) - 1
    /\ Flattened(list) = 2 .. Len(list)

-----------------------------------------------------------------------------
(* The inductive invariant of the proofs.                                  *)

(* Which task may call which: only one of a lower tier.                    *)
Tier(t) ==
  CASE t = "main"                         -> 4
    [] t \in {"files", "set"}             -> 3
    [] t = "content"                      -> 2
    [] t \in {"mime", "hashing", "media"} -> 1
    [] OTHER                              -> 0

Descending(frames) ==
  \A i \in DOMAIN frames :
    /\ \A j \in DOMAIN frames : i < j => Tier(frames[j].task) < Tier(frames[i].task)
    /\ \A k \in DOMAIN frames[i].todo :
         frames[i].todo[k] \in Tasks => Tier(frames[i].todo[k]) < Tier(frames[i].task)

(* No hash_dir is under way but while the hashing task fills.              *)
HashingInProgress ==
  dirs # <<>> => /\ Now.task = "hashing" /\ Now.todo # <<>> /\ Head(Now.todo) = "fill"
                 /\ list # <<>> /\ Head(list) \in Dirs

(* A call that waits for another is at a directory, in the loop over names. *)
CallersWait ==
  \A i \in DOMAIN dirs :
    i < Len(dirs) => dirs[i].phase = "names" /\ ~ AtEnd(list, dirs[i].dir, dirs[i].at)

(* List, stack of tasks and calls of hash_dir belong together.             *)
ShapeInv ==
  /\ TypeOK
  /\ ListSorted
  /\ Range(list) \subseteq visited
  /\ Descending(stack)
  /\ HashingInProgress
  /\ CallersWait
  /\ ViewsShowChildren

-----------------------------------------------------------------------------
(* The tasks as they are under way.  A task is filled when its filler has  *)
(* done what it does itself; its needs are the tasks its filler asks for.  *)
Fillers == Tasks \ {"files", "set"}

Needs(t) == Range(Fill(t)) \cap Tasks

Awaits(frames, what) == \E i \in DOMAIN frames : what \in Range(frames[i].todo)

Filling(frames, t) ==
  \E i \in DOMAIN frames : frames[i].task = t /\ "fill" \in Range(frames[i].todo)

Filled(t) == t \in made /\ ~ Filling(stack, t)

(* A frame comes to "fill" when all its task needs has been called.        *)
Prepared(frame, called) ==
  \A j \in DOMAIN frame.todo : frame.todo[j] = "fill" =>
    \A u \in Needs(frame.task) : u \in called \/ \E k \in 1 .. j - 1 : frame.todo[k] = u

(* In whichever order tasks are called, none is left out and none is       *)
(* filled before what it needs.                                            *)
TasksInv ==
  /\ \A t \in {"files", "set"} : t \in made \/ Awaits(stack, t)
  /\ \A t \in made : \A u \in Needs(t) : u \in made \/ Awaits(stack, u)
  /\ \A i \in DOMAIN stack : Prepared(stack[i], made)
  /\ \A t \in Fillers : Filled(t) => \A u \in Needs(t) : Filled(u)
  /\ result = "stored" => \A t \in Tasks : Filled(t)

(* What nftw has been at, and what is listed of it.                        *)
Walked == (\E d \in Dirs : disc[d] = Failing) \/ \A n \in Nodes : ~ IsNext(n)

VisitedInv ==
  /\ visited # {} => top \in visited
  /\ \A n \in visited :
       n = top \/ (n # Root /\ Parent[n] \in visited /\ disc[Parent[n]] = Fine)
  /\ Range(list) = {n \in visited : disc[n] # Gone}

(* What the hashing task has done of the list: a directory whose hash is   *)
(* valid has been hashed to its end, and a call of hash_dir has been at    *)
(* what is before its iterator.                                            *)
Done == {n \in Nodes : valid[n] \/ unreadable[n]}

HasPassed(f, p) ==
  /\ IsIn(list[p], f.dir)
  /\ IF list[p] \in Dirs THEN p < f.at \/ f.phase = "files"
     ELSE p < f.at /\ f.phase = "files"

Seen(f, done) ==
  /\ list[f.view] = f.dir
  /\ f.at \in DOMAIN list => Depth[f.dir] < Depth[list[f.at]]
  /\ \A p \in DOMAIN list : HasPassed(f, p) => list[p] \in done

MarksInv ==
  /\ \A n \in Nodes : valid[n] => n \in Dirs \/ disc[n] # Failing
  /\ \A n \in Nodes : unreadable[n] => n \notin Dirs /\ disc[n] = Failing /\ ignore
  /\ Done # {} => Filled("dirtree")
  /\ \A d \in Dirs \cap Done : Children(d) \cap Range(list) \subseteq Done

(* A call waits at the directory that the next is for, the first is for    *)
(* the first record.                                                       *)
CallsSeen(calls, done) ==
  /\ \A i \in DOMAIN calls :
       /\ Seen(calls[i], done)
       /\ i < Len(calls) => list[calls[i].at] = calls[i + 1].dir
  /\ calls # <<>> => calls[1].dir = Head(list)

HashedInv == MarksInv /\ CallsSeen(dirs, Done)

(* What each task has done once it is filled.                              *)
FilledInv ==
  /\ Filled("dirtree") => Walked
  /\ Filled("basic") => set.name = "given"
  /\ Filled("media") => set.label = "label" /\ set.type \in MediaTypes
  /\ Filled("content") => set.content = GuessContentType(set.type)
  /\ Filled("mime") => \A n \in Range(list) : mimed[n]
  /\ Filled("hashing") => Range(list) \subseteq Done

(* What the proofs show of every disc, tree and order of paths.            *)
ScanInv == ShapeInv /\ TasksInv /\ VisitedInv /\ HashedInv /\ FilledInv

-----------------------------------------------------------------------------
(* What the hash of directory d is made of, by position in list l, when    *)
(* entries have hashes h and conditions c: the names of its entries, those *)
(* of directories behind their hashes, then what is in its files.          *)
Data(c, n) == IF c[n] = Fine THEN Letters(Content[n]) ELSE <<[garbage |-> n]>>

AddName(s, h, n) ==
  IF n \in Dirs THEN s \o <<h[n]>> \o Letters(Name[n]) ELSE s \o Letters(Name[n])

AddFile(s, c, n) ==
  IF n \in Dirs \/ c[n] = Failing THEN s ELSE Tiger(<<Block(s)>> \o Data(c, n))

Noted(h, l, d) ==
  LET upTo[p \in 0 .. Len(l)] ==
        IF p = 0 THEN <<>>
        ELSE IF IsIn(l[p], d) THEN AddName(upTo[p - 1], h, l[p]) ELSE upTo[p - 1]
  IN  upTo

Mixed(h, l, c, d) ==
  LET upTo[p \in 0 .. Len(l)] ==
        IF p = 0 THEN Tiger(Noted(h, l, d)[Len(l)])
        ELSE IF IsIn(l[p], d) THEN AddFile(upTo[p - 1], c, l[p]) ELSE upTo[p - 1]
  IN  upTo

WholeHash(h, l, c, n) ==
  IF n \in Dirs THEN Mixed(h, l, c, n)[Len(l)] ELSE Tiger(Data(c, n))

(* How far a call of hash_dir has come with that.                          *)
SoFar(f, h, l, c, b) ==
  /\ f.phase = "names" => b[f.dir] = Noted(h, l, f.dir)[f.at - 1]
  /\ f.phase = "files" => h[f.dir] = Mixed(h, l, c, f.dir)[f.at - 1]

CallsSoFar(calls, h, l, c, b, v) ==
  \A i \in DOMAIN calls :
    /\ SoFar(calls[i], h, l, c, b)
    /\ ~ v[calls[i].dir]
    /\ \A j \in DOMAIN calls : i < j => Depth[calls[i].dir] < Depth[calls[j].dir]

(* A directory that is done is the first record, in one that is done, or    *)
(* one that a call has passed.                                             *)
Reached(d, v, calls) ==
  \/ d = Head(list)
  \/ d # Root /\ v[Parent[d]]
  \/ \E i \in DOMAIN calls, p \in DOMAIN list : list[p] = d /\ HasPassed(calls[i], p)

(* A task that has yet to fill does so once.                               *)
FillsOnce(frames, called) ==
  \A i \in DOMAIN frames : \A j \in DOMAIN frames[i].todo : frames[i].todo[j] = "fill" =>
    /\ frames[i].task \in called
    /\ \A k \in DOMAIN frames[i].todo : frames[i].todo[k] = "fill" => k = j

HashesInv ==
  /\ \A n \in Nodes : valid[n] => hash[n] = WholeHash(hash, list, disc, n)
  /\ CallsSoFar(dirs, hash, list, disc, blob, valid)
  /\ \A d \in Dirs : valid[d] => Reached(d, valid, dirs)
  /\ (\E d \in Dirs : valid[d]) => dirs # <<>> \/ Filled("hashing")

HashingInv == ScanInv /\ HashesInv /\ FillsOnce(stack, made)

-----------------------------------------------------------------------------
(* What a directory contains, as far as it could be listed and read: the   *)
(* names and contents below it, in no order.                               *)
Listed == Range(list)

Contents ==
  LET c[n \in Nodes] ==
        IF n \in Dirs
          THEN [dir |-> {<<Name[m], c[m]>> : m \in Children(n) \cap Listed}]
        ELSE IF disc[n] = Failing THEN [unreadable |-> TRUE]
        ELSE [content |-> Content[n]]
  IN  c

Below ==
  LET b[n \in Nodes] == {n} \cup UNION {b[m] : m \in Children(n) \cap Listed}
  IN  b

(* A file that cannot be opened is hashed as garbage.                      *)
NoGarbage(n) == \A m \in Below[n] \ Dirs : disc[m] # Closed

AllRead(n) == NoGarbage(n) /\ \A m \in Below[n] \ Dirs : disc[m] # Failing

Hashed == {n \in Listed : valid[n]}

(* The hash of a directory depends on its contents alone, not on the order *)
(* entries were met in nor on where the directory is: that is what makes   *)
(* "the same item" (README.md:64) found by its hash.                       *)
SameContentsSameHash ==
  \A d, e \in Hashed :
    NoGarbage(d) /\ NoGarbage(e) /\ Contents[d] = Contents[e] => hash[d] = hash[e]

(* The converse, as add_to_db (scan/main.cpp:125) takes for granted when   *)
(* it does not write: two files, or two directories, that have the same    *)
(* hash are the same item.  A file and a directory may have the same and   *)
(* not be the same item, an empty one of each does.  Names are put into    *)
(* the blob without a separator (hashing.cpp:82), so that it holds as long *)
(* as all names are equally long.                                          *)
SameHashSameContentsOfEvenNames ==
  (\A m, n \in Nodes \ {Root} : Len(Name[m]) = Len(Name[n])) =>
    \A d, e \in Hashed :
      (d \in Dirs <=> e \in Dirs) /\ AllRead(d) /\ AllRead(e) /\ hash[d] = hash[e]
        => Contents[d] = Contents[e]

-----------------------------------------------------------------------------
(* What is written is complete, in spite of tasks that run in either order *)
(* and share their data: each record has a mime type tried and either a    *)
(* hash or the mark that a read error left, the latter only with           *)
(* --ignore-errors; name, label, type and content of the set are set, the  *)
(* last from the whole list and the type that is written.                  *)
WrittenIsComplete ==
  result = "stored" =>
    /\ \A n \in Listed :
         /\ mimed[n]
         /\ valid[n] # unreadable[n]
         /\ unreadable[n] <=> n \notin Dirs /\ disc[n] = Failing
         /\ unreadable[n] => ignore
    /\ set.name = "given" /\ set.label = "label" /\ set.type \in MediaTypes
    /\ set.content = GuessContentType(set.type)

(* README.md:63, as far as it holds: unless opendir fails on a directory,  *)
(* every entry that can be reached from the search path is written.        *)
EveryEntryWritten ==
  result = "stored" /\ (\A d \in Dirs : disc[d] # Failing) =>
    \A n \in Nodes :
      n = top \/ (n # Root /\ Parent[n] \in Listed /\ disc[Parent[n]] = Fine)
        => (n \in Listed <=> disc[n] # Gone)

(* A scan comes to its end.                                                *)
ScanEnds == <>(result # "running")
=============================================================================
