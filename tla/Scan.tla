-------------------------------- MODULE Scan --------------------------------
(***************************************************************************)
(* One run of dindexer scan, up to the moment the backend is asked to      *)
(* write: the graph of tasks that fill the list of files and the record of *)
(* the set, the walk of the disc, the hashing of files and directories.    *)
(*                                                                         *)
(* The process is sequential.  What it does not choose is the order in     *)
(* which nftw meets the entries of a directory, which entries cannot be    *)
(* read, which of add_to_db's arguments is evaluated first, what the       *)
(* libraries (libmagic, blkid) answer, and whether the hash is known.      *)
(***************************************************************************)
EXTENDS SetListing, FiniteSets

CONSTANTS
  Name,          \* the basename of an entry, a sequence of letters
  Content,       \* what a file contains, a sequence of letters
  SearchPaths,   \* the paths a user may pass
  Discs,         \* the conditions the entries may be in, see below
  Matching,      \* the entries each glob of guess_content_type.cpp matches
  EntryLimit,    \* max_total_entries of the checkers: 100 and 200 in the code
  MediaTypes     \* the types of media a set may have

(* An entry is Fine; Closed: it can be listed and not opened; Failing: a   *)
(* file whose data cannot be read to the end, a directory that opendir     *)
(* fails on (for another reason than EACCES); Gone: nftw does not report   *)
(* it (a dangling link, another file system) or reports it as FTW_NS.      *)
Fine == "fine"
Closed == "closed"
Failing == "failing"
Gone == "gone"

ASSUME DiscAssumption ==
  /\ SearchPaths \subseteq Nodes
  /\ Discs \subseteq [Nodes -> {Fine, Closed, Failing, Gone}]

(* Names are not empty, those in a directory differ, and its entries are   *)
(* in their order: the paths of two of them differ in their names only.    *)
ASSUME NameAssumption ==
  /\ \A n \in Nodes \ {Root} : Name[n] \in Seq(Range(Name[n])) \ {<<>>}
  /\ \A k, l, m, n \in Nodes \ {Root} :
       Parent[k] = Parent[l] /\ Parent[m] = Parent[n] /\ Name[k] = Name[m] /\ Name[l] = Name[n] =>
         (Rank[k] < Rank[l] <=> Rank[m] < Rank[n])

\* A file may be empty.
ASSUME ContentAssumption ==
  \A n \in Nodes \ Dirs : Content[n] \in Seq(Range(Content[n]))

VARIABLES
  top,           \* the search path, DirTree::m_root
  disc,          \* the condition of every entry
  ignore,        \* --ignore-errors
  stack,         \* get_or_create calls under way, each with what it has yet to do
  made,          \* tasks whose m_data_created is set
  visited,       \* entries nftw has been at
  list,          \* the records, DirTree's m_data
  hash, valid, unreadable, mimed,   \* fields of the records, by entry
  dirs, blob,    \* hash_dir calls under way, and the dir_blob of each
  set,           \* the set's record, SetBasic's m_data
  result         \* running, stored, present (not written), failed

disk == <<top, disc, ignore>>
tasks == <<stack, made>>
walk == <<visited, list>>
records == <<hash, valid, unreadable, mimed>>
hashdir == <<dirs, blob>>
vars == <<disk, tasks, walk, records, hashdir, set, result>>

Tasks == {"files", "set", "mime", "hashing", "media", "content", "dirtree", "basic"}

-----------------------------------------------------------------------------
(* LeanBase: get_or_create runs on_data_fill unless m_data_created is set, *)
(* which it sets first, then on_data_get.  Both call get_or_create of      *)
(* other tasks; "open" and "fill" are what a filler does itself.           *)

\* Mutated: the set's record asks for the type of media itself.
FillInACircle(t) ==
  CASE t = "media" -> <<"basic", "fill">>
    [] t = "basic" -> <<"media", "fill">>
    [] OTHER       -> <<>>

\* Mutated: the type of media is filled in before the record is there.
FillMediaFirst(t) ==
  CASE t = "files"   -> <<"mime", "hashing">>
    [] t = "set"     -> <<"media", "content">>
    [] t \in {"mime", "hashing"} -> <<"dirtree", "fill">>
    [] t = "content" -> <<"basic", "media", "dirtree", "fill">>
    [] OTHER         -> <<"fill">>

Fill(t) ==
  CASE t = "files"   -> <<"mime", "hashing">>
    [] t = "set"     -> <<"media", "content">>
    [] t = "mime"    -> <<"open", "dirtree", "fill">>
    [] t = "hashing" -> <<"dirtree", "fill">>
    [] t = "media"   -> <<"basic", "fill">>
    [] t = "content" -> <<"basic", "media", "dirtree", "fill">>
    [] OTHER         -> <<"fill">>

Get(t) ==
  CASE t = "files"                -> <<"mime">>
    [] t = "set"                  -> <<"media">>
    [] t \in {"mime", "hashing"}  -> <<"dirtree">>
    [] t \in {"media", "content"} -> <<"basic">>
    [] OTHER                      -> <<>>

Frame(t) == [task |-> t, todo |-> IF t \in made THEN Get(t) ELSE Fill(t) \o Get(t)]

Now == Last(stack)

Busy(what) == result = "running" /\ Now.todo # <<>> /\ Head(Now.todo) = what

Working(t) == Busy("fill") /\ Now.task = t

Popped == Append(Front(stack), [Now EXCEPT !.todo = Tail(@)])

Call(t) ==
  /\ Busy(t)
  /\ stack' = Append(Popped, Frame(t))
  /\ made' = made \cup {t}
  /\ UNCHANGED <<disk, walk, records, hashdir, set, result>>

Return ==
  /\ result = "running" /\ Now.todo = <<>> /\ Len(stack) > 1
  /\ stack' = Front(stack)
  /\ UNCHANGED <<disk, made, walk, records, hashdir, set, result>>

(* An exception that no caller catches: the process ends.                  *)
Fail ==
  /\ result' = "failed"
  /\ UNCHANGED <<disk, tasks, walk, records, hashdir, set>>

-----------------------------------------------------------------------------
(* DirTree: nftw descends into a directory before it goes on with the next *)
(* entry, and reports a directory before what is in it.  A directory that  *)
(* opendir fails on ends the walk unless the error is EACCES; Search does  *)
(* not look at what nftw returns.                                          *)

Unfinished ==
  {d \in visited \cap Dirs : disc[d] = Fine /\ ~ Children(d) \subseteq visited}

IsNext(n) ==
  /\ n \notin visited
  /\ \/ n = top /\ visited = {}
     \/ \E d \in Unfinished :
          IsIn(n, d) /\ \A e \in Unfinished : Depth[e] <= Depth[d]

EndsWalk(n) == n \in Dirs /\ disc[n] = Failing

\* Mutated: a directory that cannot be read is not listed.
VisitReadable(n) ==
  /\ Working("dirtree") /\ IsNext(n) /\ ~ EndsWalk(n)
  /\ visited' = visited \cup {n}
  /\ list' = IF disc[n] = Gone \/ (n \in Dirs /\ disc[n] = Closed)
               THEN list ELSE Inserted(list, n)
  /\ UNCHANGED <<disk, tasks, records, hashdir, set, result>>

Visit(n) ==
  /\ Working("dirtree") /\ IsNext(n) /\ ~ EndsWalk(n)
  /\ visited' = visited \cup {n}
  /\ list' = IF disc[n] = Gone THEN list ELSE Inserted(list, n)
  /\ UNCHANGED <<disk, tasks, records, hashdir, set, result>>

\* Mutated: the walk waits for entries below directories it cannot read.
EndWalkWhenAllSeen ==
  /\ Working("dirtree") /\ visited = Nodes
  /\ stack' = Popped
  /\ UNCHANGED <<disk, made, walk, records, hashdir, set, result>>

EndWalk ==
  /\ Working("dirtree")
  /\ \A n \in Nodes : IsNext(n) => EndsWalk(n)
  /\ stack' = Popped
  /\ UNCHANGED <<disk, made, walk, records, hashdir, set, result>>

AbortWalk ==
  /\ Working("dirtree")
  /\ \E n \in Nodes : IsNext(n) /\ EndsWalk(n)
  /\ stack' = Popped
  /\ UNCHANGED <<disk, made, walk, records, hashdir, set, result>>

-----------------------------------------------------------------------------
(* Hashing.  A hash stands for the sequence it was made of, be that a blob *)
(* or a file: an empty directory and an empty file have the same.          *)
(* tiger_file goes on with the directory's hash, padded to a block, as if  *)
(* it were the first of the file.  It throws on a read error; when the     *)
(* file cannot be opened no badbit is set, and it hashes what happens to   *)
(* be before its buffer.                                                   *)

Tiger(bytes) == [of |-> bytes]
NoHash == [zero |-> TRUE]

Letters(text) == [i \in DOMAIN text |-> [letter |-> text[i]]]

Block(h) == [padded |-> h]

Bytes(n) == IF disc[n] = Fine THEN Letters(Content[n]) ELSE <<[garbage |-> n]>>

Dir == Last(dirs)
Entry == list[Dir.at]
DirAtEnd == AtEnd(list, Dir.dir, Dir.at)

HashDir(d, from) ==
  [dir |-> d, view |-> from, at |-> ViewBegin(list, d, from),
   phase |-> "names"]

(* The iterator goes on to the next record.                                *)
Advanced(frame) == [frame EXCEPT !.at = ViewNext(list, frame.dir, @)]

InHashDir(phase) ==
  Working("hashing") /\ dirs # <<>> /\ Dir.phase = phase

(* What tiger_file and the handlers around it do to file n.                *)
ReadFile(n) ==
  \/ /\ disc[n] # Failing
     /\ valid' = [valid EXCEPT ![n] = TRUE]
     /\ UNCHANGED <<unreadable, result>>
  \/ /\ disc[n] = Failing /\ ignore
     /\ unreadable' = [unreadable EXCEPT ![n] = TRUE]
     /\ UNCHANGED <<valid, result>>

FileHash(n) == IF disc[n] = Failing THEN NoHash ELSE Tiger(Bytes(n))

NothingToHash ==
  /\ Working("hashing") /\ list = <<>>
  /\ stack' = Popped
  /\ UNCHANGED <<disk, made, walk, records, hashdir, set, result>>

HashSingleFile ==
  /\ Working("hashing") /\ list # <<>> /\ Head(list) \notin Dirs
  /\ ReadFile(Head(list))
  /\ hash' = [hash EXCEPT ![Head(list)] = FileHash(Head(list))]
  /\ stack' = Popped
  /\ UNCHANGED <<disk, made, walk, mimed, hashdir, set>>

HashTop ==
  /\ Working("hashing") /\ dirs = <<>> /\ list # <<>> /\ Head(list) \in Dirs
  /\ dirs' = <<HashDir(Head(list), 1)>>
  /\ blob' = [blob EXCEPT ![Head(list)] = <<>>]
  /\ UNCHANGED <<disk, tasks, walk, records, set, result>>

NoteFileName ==
  /\ InHashDir("names") /\ ~ DirAtEnd /\ Entry \notin Dirs
  /\ dirs' = Append(Front(dirs), Advanced(Dir))
  /\ blob' = [blob EXCEPT ![Dir.dir] = @ \o Letters(Name[Entry])]
  /\ UNCHANGED <<disk, tasks, walk, records, set, result>>

Descend ==
  /\ InHashDir("names") /\ ~ DirAtEnd /\ Entry \in Dirs
  /\ dirs' = Append(dirs, HashDir(Entry, Dir.at))
  /\ blob' = [blob EXCEPT ![Entry] = <<>>]
  /\ UNCHANGED <<disk, tasks, walk, records, set, result>>

HashNames ==
  /\ InHashDir("names") /\ DirAtEnd
  /\ hash' = [hash EXCEPT ![Dir.dir] = Tiger(blob[Dir.dir])]
  /\ dirs' = Append(Front(dirs),
                    [Dir EXCEPT !.phase = "files",
                                !.at = FirstFile(list, Dir.dir, Dir.view)])
  /\ UNCHANGED <<disk, tasks, walk, valid, unreadable, mimed, blob, set, result>>

\* Mutated: a file's hash starts anew instead of going on with the directory's.
HashFileAnew ==
  /\ InHashDir("files") /\ ~ DirAtEnd
  /\ ReadFile(Entry)
  /\ hash' = [hash EXCEPT
       ![Entry] = FileHash(Entry),
       ![Dir.dir] = IF disc[Entry] = Failing THEN @ ELSE Tiger(Bytes(Entry))]
  /\ dirs' = Append(Front(dirs), Advanced(Dir))
  /\ UNCHANGED <<disk, tasks, walk, mimed, blob, set>>

HashFile ==
  /\ InHashDir("files") /\ ~ DirAtEnd
  /\ ReadFile(Entry)
  /\ hash' = [hash EXCEPT
       ![Entry] = FileHash(Entry),
       ![Dir.dir] = IF disc[Entry] = Failing THEN @ ELSE Tiger(<<Block(@)>> \o Bytes(Entry))]
  /\ dirs' = Append(Front(dirs), Advanced(Dir))
  /\ UNCHANGED <<disk, tasks, walk, mimed, blob, set>>

(* hash_dir returns to the call for the directory above, which notes hash  *)
(* and name.                                                               *)
EndDir ==
  /\ InHashDir("files") /\ DirAtEnd
  /\ valid' = [valid EXCEPT ![Dir.dir] = TRUE]
  /\ \/ /\ Len(dirs) = 1
        /\ dirs' = <<>> /\ stack' = Popped
        /\ UNCHANGED blob
     \/ LET above == Front(dirs)
            d == Last(above).dir
        IN  /\ Len(dirs) > 1
            /\ dirs' = Append(Front(above), Advanced(Last(above)))
            /\ blob' = [blob EXCEPT ![d] = @ \o <<hash[Dir.dir]>> \o Letters(Name[Dir.dir])]
            /\ UNCHANGED stack
  /\ UNCHANGED <<disk, made, walk, hash, unreadable, mimed, set, result>>

ReadError ==
  /\ ~ ignore
  /\ \/ Working("hashing") /\ list # <<>> /\ Head(list) \notin Dirs /\ disc[Head(list)] = Failing
     \/ InHashDir("files") /\ ~ DirAtEnd /\ disc[Entry] = Failing
  /\ Fail

-----------------------------------------------------------------------------
(* Mime: the constructor of MimeType may throw; an item libmagic cannot    *)
(* tell is left without a type.                                            *)

OpenMagic ==
  /\ Busy("open")
  /\ stack' = Popped
  /\ UNCHANGED <<disk, made, walk, records, hashdir, set, result>>

NoMagic == Busy("open") /\ Fail

FillMime ==
  /\ Working("mime")
  /\ mimed' = [n \in Nodes |-> mimed[n] \/ n \in Range(list)]
  /\ stack' = Popped
  /\ UNCHANGED <<disk, made, walk, hash, valid, unreadable, hashdir, set, result>>

-----------------------------------------------------------------------------
(* The record of the set.                                                  *)

FillBasic ==
  /\ Working("basic")
  /\ set' = [set EXCEPT !.name = "given", !.label = ""]
  /\ stack' = Popped
  /\ UNCHANGED <<disk, made, walk, records, hashdir, result>>

(* The type is forced or guessed; DiscInfo may throw.                      *)
FillMedia ==
  /\ Working("media")
  /\ \E t \in MediaTypes : set' = [set EXCEPT !.type = t, !.label = "label"]
  /\ stack' = Popped
  /\ UNCHANGED <<disk, made, walk, records, hashdir, result>>

NoDiscInfo == Working("media") /\ Fail

(* The chain of checkers, in their order.                                  *)
LooksLike(content, media, least, globs, type) ==
  /\ EntryLimit[content] >= Len(list) - 1
  /\ type \in media
  /\ Cardinality(InView(list, 1)) >= least
  /\ \A g \in globs : \E i \in Flattened(list) : list[i] \in Matching[g]

GuessContentType(type) ==
  IF list = <<>> \/ InView(list, 1) = {} THEN "Empty"
  ELSE IF LooksLike("VideoDVD", {"DVD", "Directory"}, 2,
                    {"VIDEO_TS/*.VOB", "AUDIO_TS"}, type) THEN "VideoDVD"
  ELSE IF LooksLike("VideoCD", {"CDRom", "Directory"}, 4,
                    {"SVCD/*.VCD", "MPEGAV/AVSEQ??.DAT",
                     "SEGMENT/ITEM???.DAT", "CDI"}, type) THEN "VideoCD"
  ELSE "Generic"

FillContent ==
  /\ Working("content")
  /\ set' = [set EXCEPT !.content = GuessContentType(set.type)]
  /\ stack' = Popped
  /\ UNCHANGED <<disk, made, walk, records, hashdir, result>>

-----------------------------------------------------------------------------
(* main: add_to_db looks for the hash of the first record, in an unknown   *)
(* database, and writes what it does not find.  An empty list has no first *)
(* record: front() is undefined, and reads through a null pointer.         *)

AddToDb ==
  /\ result = "running" /\ Len(stack) = 1 /\ Now.todo = <<>> /\ list # <<>>
  /\ result' \in {"stored", "present"}
  /\ UNCHANGED <<disk, tasks, walk, records, hashdir, set>>

NoFirstRecord ==
  /\ result = "running" /\ Len(stack) = 1 /\ Now.todo = <<>> /\ list = <<>>
  /\ Fail

Init ==
  /\ top \in SearchPaths
  /\ disc \in Discs
  /\ ignore \in BOOLEAN
  /\ \E todo \in {<<"files", "set">>, <<"set", "files">>} :
       stack = <<[task |-> "main", todo |-> todo]>>
  /\ made = {} /\ visited = {} /\ list = <<>> /\ dirs = <<>>
  /\ blob = [d \in Dirs |-> <<>>]
  /\ hash = [n \in Nodes |-> NoHash]
  /\ valid = [n \in Nodes |-> FALSE]
  /\ unreadable = [n \in Nodes |-> FALSE]
  /\ mimed = [n \in Nodes |-> FALSE]
  /\ set = [name |-> "", label |-> "", type |-> "", content |-> ""]
  /\ result = "running"

Next ==
  \/ \E t \in Tasks : Call(t)
  \/ Return
  \/ \E n \in Nodes : Visit(n)
  \/ EndWalk \/ AbortWalk
  \/ NothingToHash \/ HashSingleFile \/ HashTop
  \/ NoteFileName \/ Descend \/ HashNames \/ HashFile \/ EndDir \/ ReadError
  \/ OpenMagic \/ NoMagic \/ FillMime
  \/ FillBasic \/ FillMedia \/ NoDiscInfo \/ FillContent
  \/ AddToDb \/ NoFirstRecord

Spec == Init /\ [][Next]_vars

(* The process runs until it ends.                                         *)
FairSpec == Spec /\ WF_vars(Next)
=============================================================================
