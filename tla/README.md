# Verification of dindexer

dindexer catalogues removable media. `dindexer scan` hashes a disc and stores
one *set* with one record per file in a database; `locate`, `query` and
`navigate` read the catalogue; `tag` and `delete` edit it. Every action is a
process of its own, started by the user, that connects to one of two database
backends (Redis or PostgreSQL), runs one operation and ends. This directory
models those parts in TLA+, checks them with TLC and proves the main invariants
with TLAPS. Paths are relative to the repository, `src/src/...` being the
`src/` directory of the program.

## 1. Inventory

| component | code | state | operations | what is hard | what makes it correct |
|---|---|---|---|---|---|
| main program | `src/main` | the list of actions | finds the `dindexer-<action>` programs of the search path, splits the command line, runs the action by its name or suggests one | two passes over a directory that packages change in between; `lstat` of what is gone; edit distances | an installed action runs when it is called; no place of the list is read that was not filled; hints are close |
| backend interface | `include/backends/db_backend.hpp` | none | the operations both backends implement | - | both backends keep the same catalogue |
| Redis backend | `src/backends/redis` | the keys of one Redis database, three scripts in the server's cache | `connect`, `search_file_by_hash`, `write_files`, `tag_files`, `delete_tags`, `delete_all_tags`, `delete_group`, readers | every operation is many commands, commands of other clients run in between, a client may die anywhere | records, hash index, tag lists and tag keys agree; files belong to the set that holds their id; a deletion removes its sets and nothing else |
| PostgreSQL backend | `src/backends/postgresql` | tables `sets` and `files` (a row's tags are an array in it), two sequences of ids, row locks | the same, each one statement or one transaction at READ COMMITTED | statements that wait for rows, deadlocks, rollbacks, what is read before a transaction or before a question | every operation takes effect whole and at once; no tag that was added is lost; no deadlock stays |
| scan action | `src/scan` | - | runs the scan tasks, looks the root's hash up, writes | check-then-act | an item is stored once |
| scan tasks | `src/machinery/scantask` | lazily computed results shared by a graph of tasks | `get_or_create` (`clear_data` is never called) | re-entrance, exceptions half way | every filler runs once, after its inputs |
| machinery | `src/machinery` | listings, path names with pooled strings | directory walk, hashing, listing views, path names, the tree of a listing | order of records, counts of shared texts, offsets into a path as it was typed | hash of a directory does not depend on the walk; a path name means what it was made of; a record is under its directory |
| tag action | `src/tag` | - | by id or by glob, limited to a set or not | acts on a catalogue others edit | only the files asked for |
| delete action | `src/delete` | - | shows the sets, asks, deletes | acts on a list read before the question | only the sets asked for |
| locate, query | `src/locate`, `src/query` | the tree of a local directory | by path: a walk over all keys; by hash: a local file or directory, then what is in it where it is not known; `query` prints its words | SCAN and index lookups over a store that changes; batches | what stays in the store is found; what is printed is true; everything local is looked for |
| navigate | `src/navigate` | current path, cache of listings | cd, ls, completion, details | cached listings | what is shown is what the store holds |
| core, common | `src/core`, `src/common` | settings | settings, plugin loading, splitting strings | - | - |
| pq, glob2regex | `src/pq`, `lib/glob2regex` | a connection | wrappers | - | - |
| third party | `lib/libpqtypes-1.5.1`, `tiger.c` | - | - | - | - |

The processes interact only through the database (and, of the main program, with
whoever installs packages, through a directory). Within a scan the tasks call
each other, and the backend calls back the confirmation of a deletion. Nothing
else runs concurrently. What is hard, line by line, is the list `hazards` of
`PROJECT.json`, each with the properties that are about it.

## 2. Modules

| module | what it is |
|---|---|
| `RedisStore` | the key space of the Redis backend and the commands and Lua scripts that change it, each an operator |
| `RedisBackend` | the client processes: scans, taggers and deletions, one step per command, with `Init`, `Next`, `Spec`, `FairSpec` |
| `RedisProperties` | the properties |
| `RedisInvariant` | `IInv`, the inductive invariant |
| `RedisProofs` | the proof that `IInv` is inductive, and the theorems, three of which need a further invariant; how exact the chunked deletion is |
| `MCRedis` | hashes, tags and discs of the instances, symmetry |
| `RedisQueries` | extends `RedisBackend`: its taggers become users that tag by glob or run `locate`, by path or by hash, while scans and deletions go on |
| `RedisQueriesProperties`, `MCQueries` | their properties; a catalogue with one set in it to begin with |
| `RedisQueriesInvariant`, `RedisQueriesProofs` | `QueriesInv`, the inductive invariant of the queries; the proof of it beside `IInv`, and the theorems |
| `Catalogue` | what a backend promises, without commands or processes; abstract |
| `PgBackend` | the processes on the PostgreSQL backend: one step per statement, and per row where a statement locks rows |
| `PgProperties` | the properties, the refinement mapping to `Catalogue`, and `PgInv`, the inductive invariant |
| `PgProofs` | the proof that `PgInv` is inductive, the theorems, and the proof that `Catalogue` is implemented |
| `MCPg` | discs and requests of the instances |
| `Navigator` | `dindexer navigate`: the prompt, the entry path, the cache of listings, completion, and other processes that delete sets meanwhile |
| `LeastRecentlyUsed` | what a buffer of limited size that refreshes what is used promises; abstract |
| `NavigatorProperties` | the properties, the refinement mapping to `LeastRecentlyUsed`, and `NavigatorInv` (`PromptInv` and `LiveListing`), the inductive invariant |
| `NavigatorProofs` | the proof that `NavigatorInv` is inductive, and the theorems |
| `MCNavigator` | small catalogues, and what the user may type |
| `SetListing` | the list of records a scan collects: their order, insertion, and the iterators over one directory's records; operators only |
| `Scan` | one run of `dindexer scan`: the task graph, the directory walk, hashing, the record of the set, and `add_to_db` |
| `ScanProperties` | the properties, and `HashingInv`, the inductive invariant: `ScanInv`, in five parts, and what the hashes are |
| `SetListingProofs`, `ScanProofs` | lemmas about insertion and iterators; the proof that `ScanInv` and `HashingInv` are inductive, and the theorems |
| `MCScan` | a small disc, and what may be wrong with it |
| `PathNames` | `PathName` and the `StringPool` under it; operators only |
| `LocateLocal` | the local side of `locate --byhash`: the listing, `make_filerecord_tree` round by round, and what is asked for |
| `LocateLocalProperties`, `MCLocal` | their properties; small directories, and ways to type where they are |
| `LocateLocalProofs` | `LocalInv`, the inductive invariant of tree and asking; the proof of it, and the theorems |
| `Actions` | `dindexer` itself: the two passes over its directory, the command line, the choice of the action |
| `ActionsProperties`, `MCActions` | their properties; five entries and every word of three letters |
| `ActionsInvariant`, `ActionsProofs` | `ReadingInv`, the inductive invariant of the two passes; the proof of it, and the theorems |

`Scan` ends where `RedisBackend` and `PgBackend` begin: its result `stored` is a call of
`write_files`, with the disc these take as a parameter. `RedisQueries` composes
the readers with the writers of `RedisBackend`; `LocateLocal` is what
`locate --byhash` does before it asks, and `RedisQueries` what becomes of the asking.

### How the Redis model corresponds to the code

*Store.* Each variable of `RedisStore` is one family of keys; see the comment at
its head. A record keeps the fields the properties need: owner, hash and tags
of a file; first id and count of a set. A key that does not exist is a record
without owner (`NoFile`) or without files (`NoSet`), because that is how the code finds out. A
tag list is a set: the scripts keep it sorted and free of duplicates.

*Atomicity.* Redis runs one command, or one script, at a time. incredis queues
the commands of a batch and sends them in order over one connection, without
MULTI: a step of the model is one command together with the client code that
leads to the next one. Where a loop sends one command for each file or tag, each iteration is
a step. incredis itself (`lib/incredis`, a submodule that is not in the tree) is
external, modelled from how the code uses it: replies arrive in order;
`throw_if_failed` throws after all replies of the batch arrived, if one of them is an
error; `make_script` loads a script and `Script::run` sends EVALSHA, which
fails when the script cache was flushed. `connect` sends SCRIPT FLUSH
(`backend_redis.cpp:137`), so every connecting client takes the scripts from
those already connected.

*Clients.* `pc[c]` names the command client c sends next; `scan`, `edit` and
`dele` hold the local variables of the functions it is in, `err` whether a
reply of its batch was an error.

| code | actions |
|---|---|
| `connect` | `Connect`, `LoadScripts` |
| `search_file_by_hash` | `SRandMember`, `HScanFile`, `HScanSet` |
| `write_files` | `IncrSet`, `IncrFiles`, `HMSetSet`, then `WriteFile`, `SAddHash`, `ZAddLevel` for every file |
| `tag_files`, `delete_tags` by id | `StartTag`, `RunTagScript`, `EndTag` |
| `delete_all_tags` by id | `GetTags`, then `RunTagScript` |
| `confirm_dele` | `StartDelete`, `ConfirmRead`, `Confirm`, `Refuse` |
| `delete_group_from_db`, first loop | `GetTags`, `RunTagScript`, `NextUntag` |
| `delete_group_from_db`, second loop | `NextSet`, `GetHash`, `RunHash`, `DelSet`, `DelLevels`, `DelFiles`, `EndDelete` |

Deletion's second loop queues `dele_hash`, DEL set, DEL levels and the chunked
DELs of all sets in one batch but runs `hash_query_batch` of each set in
between; since all batches share one connection, commands reach the server in
the order they were queued, and the model runs them in that order.

*Crashes.* No client has anything to do after a failure, so a client that dies is one
that takes no further step; `Spec` has no fairness and therefore contains every
such behaviour.

### How the navigator's model corresponds to the code

*Paths.* An `EntryPath` is the stack of its components; the first is the id of
a set, so the empty stack is the root. What the user types is a piece in normal
form (absolute or not, up so many levels, down some names): all that
`PathName` and `push_piece` make of dots and slashes. A path that is a string
in the code (a file's path, a cache key) is the sequence of its components;
`Begins` says which name is the beginning of which, all `starts_with` needs to
see. Backslash escapes in typed paths are left out.

| code | actions |
|---|---|
| `do_navigation`, `exec_command` | `Cd`, `Ls`, `Pwd`, `Disconnect`, `Exit`, `Unknown`, and `EndOfInput`, `ReadAtEnd` for a null line |
| `ReadlineWrapper::matches`, `list_matches` | `Tab`; every `LineRead` ends the life of the wrapper and its last matches |
| `ListDirContent::ls`, up to the first command | `Ask` (a part of `Tab` and `Ls`): a hit refreshes the entry, a miss sends the command or fails |
| `find_all_sets`, `list_dir_content`, `find_set_details` | `List`, then `ReadRow` for every reply, in any order |
| the end of `ListDirContent::ls` | `EndList`: the completion's component, `push_back` on the circular buffer |
| `delete_group_from_db`, seen by another process | `DelSet`, `DelLevels`, `DelFile`, in the order `RedisBackend` has |

A failure is a value of `pc` after which the process takes no step: an
exception that nothing catches, or an assertion of a build that has them.

### How the scan's model corresponds to the code

*The disc* is a tree of constants: the directory each entry is in, its depth,
its place among all paths in the order of strings. Each run draws a condition for
every entry: fine, closed (can be listed and not opened), failing (a read
error in a file; `opendir` failing on a directory), or gone. nftw (external) goes depth first, reports a
directory before what is in it and takes the entries of a directory in any
order. Symbolic links are left out: the code lets nftw follow them.

*Tasks.* A frame of `stack` is a `get_or_create` under way: the task, and what it has
yet to do. `Fill(t)` and `Get(t)` list the tasks that `on_data_fill` and
`on_data_get` of t ask for; "fill" and "open" stand for the work a filler does
itself. `Call` sets `m_data_created` (here `made`) before it fills, as the code does.
The two ways to evaluate the arguments of `add_to_db` are two initial states.

*Hashing.* `hash_dir` calls itself: a frame of `dirs` is one call, its iterator `at` a
position in the list, its `dir_blob` in `blob`. A hash stands for the sequence it was made of, so
equal hashes are equal inputs; collisions of tiger itself are out of the model. Names and contents of files
are sequences of letters: names because `append_to_vec` puts them together without a separator,
contents because nothing tells tiger what the bytes it is given are. A file with nothing in it and a directory
with nothing in it both have the hash of nothing (`tiger.cpp:133`, `hashing.cpp:85`), in the model as in the code.
`tiger_file` called with the directory's hash makes a hash of that hash, padded to a `Block` (`tiger.cpp:85`), and the
contents. A file that cannot be opened is hashed as garbage, unlike any content. Two things are not
modelled: that the bytes of a hash, in a blob or before a file's contents, could be read as letters; and the length in the
last block, which is that of all the bytes for a blob and that of the last block for a file (`tiger.c:696`, `tiger.c:787`): it
tells apart some hashes of a file and of a directory that the model has equal, and makes none equal.

| code | actions |
|---|---|
| `LeanBase::get_or_create` | `Call`, `Return` |
| `FileSearcher::Search`, `DirTree::on_data_create`, `add_path` | `Visit`, `EndWalk`, `AbortWalk` |
| `Hashing::on_data_fill` | `NothingToHash`, `HashSingleFile`, `HashTop` |
| `hash_dir`: loop over names, the directory's own hash, loop over files, the end | `NoteFileName` and `Descend`, `HashNames`, `HashFile`, `EndDir` |
| `tiger_file` throwing without `--ignore-errors` | `ReadError` |
| `Mime::on_data_fill` | `OpenMagic`, `NoMagic`, `FillMime` |
| `SetBasic`, `MediaType`, `ContentType` | `FillBasic`, `FillMedia`, `NoDiscInfo`, `FillContent` |
| `add_to_db` | `AddToDb`, which finds the hash or not; `NoFirstRecord` when `front()` is called on an empty list |

An exception that leaves main, and `front()` of an empty list, are the result
`failed`, after which nothing is done.

### How the PostgreSQL model corresponds to the code

*Transactions.* `Connection::query` sends statements at PostgreSQL's default
level, READ COMMITTED. A statement sees the rows committed when it starts; UPDATE and DELETE
come to these rows one after another, wait for a row another
transaction has locked, skip it if that transaction deleted it, and otherwise work on what it
has become. So an UPDATE or DELETE is a step that collects its rows (`todo`), a step `LockRow`
for each, and a last one. What a transaction has written is in `draft`, visible to
nobody else, and becomes `files` when it commits. An INSERT draws its id from
a sequence, which no rollback takes back. The server (external) finds
deadlocks and aborts one of those that wait.

*Failures.* An exception leaves the process without COMMIT, the connection
closes, the server rolls back: a crash, a statement the server refuses and a deadlock are all
`Rollback`. Two of the tagging statements are refused whatever their parameters
(`Malformed`: `tag.cpp:102` and `tag.cpp:145`), one matches no file
(`tag.cpp:116`, see `Matches`).

| code | actions |
|---|---|
| `read_from_db` (scan.cpp), from `add_to_db` | `LookUp`, `ReadSet`: two statements, nothing around them |
| `write_to_db` | `InsertSet`, `InsertFile` for every file, `CommitScan`; `SequenceAtEnd` |
| `tag_files`, `delete_tags`, `delete_all_tags`, each by id and by glob | `Update`, `LockRow`, `CommitUpdate` |
| `delete_group_from_db` | `FetchExistingIds`, `Answer` (the user), `DeleteFiles`, `LockRow`, `EndDeleteFiles`, `DeleteSets`, `CommitDelete` |
| the server | `Deadlock`; `Crash` for everything that may fail |

### How the model of the queries on Redis corresponds to the code

*SCAN* (external) promises to return every key that is there from its beginning
to its end, and may return others that are there for some of the time, and keys twice.
`cursor` holds what it must and what it may still return; one surplus of each key is
allowed. Keys come in any order.

*Patterns.* A glob is the set of the hashes of the items it matches: paths and
hashes are not told apart otherwise. A file that is gone reads as the empty
path, which no pattern matches. `locate` is modelled without `--tags`.

*Batches.* `locate_in_bursts` sends the HMGETs while it queues them and puts replies
and ids together when the batch is full: the commands of others run in between. By
hash, SMEMBERS gives ids, every one of which is a result, that of a deleted
file too: what `lexical_cast` makes of its empty owner, a value or an exception, is a choice
(`EndMembers`). `Inside` says which hashes are in the directory of a hash, and
`collect_matching_recursively` asks for them when it gets no row for the directory itself (`ToAsk`), so down to
any depth. A file that is gone still counts as a row for its hash: the search does not go on below it. `delete_all_tags` by regex dereferences an empty `optional`
(`tag.cpp:164`), also a choice (`HMGetTags`).

| code | actions |
|---|---|
| `run_regex_based_script` (`tag_files`, `delete_tags`) | `StartGlob`, `NextKey`, `HGetPath`, `RunGlobScript`, `EndKey`, `EndGlob` |
| `delete_all_tags` by regex | `StartGlob`, `NextKey`, `HMGetTags`, `EndGlob` |
| `locate_in_db(regex)`, `locate_in_bursts` | `StartLocate`, `QueueKey`, `HMGetFile`, `Flush`, `EndLocate` |
| `collect_matching_recursively`, `locate_in_db(hash)` | `StartByHash`, `SMembers`, `HMGetFile`, `EndMembers`, `EndByHash` |

### How the model of the local directory corresponds to the code

Here texts are sequences of letters, because offsets, slashes and the order of strings
decide what happens: `a.b` comes between `a` and `a/b`, and an atom is shared
with any text that contains it. nftw (external) takes slashes off the end
of what it is given and puts one between a directory and what is in it.

*Path names.* A `PathName` is a list of ranges of texts in a pool that counts
the uses of each; `Update` is `StringPool::update`, which looks for the atom
anywhere in the texts there are.

*The tree.* One step is one round of the loop of `make_filerecord_tree`. `parent`
says under which node a record was put, in the order the children have. When
the way back up the stack ends at `retval`, the code reads its `index`, which
nobody has set: the result `undefined` (`ReadUnsetIndex`), after which nothing is
assumed. An item stands for its hash, and the database knows any part of the items that is
closed downwards: who knows a directory knows what is in it.

| code | actions |
|---|---|
| `hash`, `DirTree::on_data_create`, `SingleFileTask::on_data_create`, the sort | `Init`, `ListItems` |
| `make_filerecord_tree`, a subpath; another path | `SubPath`; `OtherPath`, `ReadUnsetIndex` |
| `fill_hash_nodes` | `EndTree` |
| `collect_matching_recursively` | `Ask`, `EndAsking` |

### How the main program's model corresponds to the code

`Read(e)` is one round of `foreach_dir`: readdir returns an entry, `lstat`
fills `st`, which keeps what it held when the entry is gone, and the
action is counted or written. Packages may be installed and removed (`Change`) between any two
rounds; readdir returns what stays, and may return what comes or goes. The list is
allocated and sorted at the length that was counted; a place nobody filled
is an unset pointer, and reading it is the result `undefined`. Words are sequences of
letters; `damerau_levenshtein` is the recursive function `Distance`, cell
by cell as the code fills its table.

| code | actions |
|---|---|
| `find_actions`, first pass, second pass, the sort | `Read` and `EndCount`, `Read` and `EndPush` |
| `manage_commandline`, `main` | `Choose`, by `ManageCommandline`, `Select`, `Suggest` |
| `execv` | `Execv`, which fails when the program is gone |

## 3. Runs

| run | instance | question |
|---|---|---|
| `redis_scan_delete` | 2 scanners, 1 deletion, 4 files | do records, ownership and hash index stay consistent command by command? (`FileOwnership`, `HashIndexSound`, `FilesFoundByHash`, `ScanComplete`) |
| `redis_tag_delete` | 2 scanners of the same disc, tagger limited to set 2, deletion, symmetric | do tag lists and tag keys agree, are scripts missing only while somebody connects, does an edit of one set leave the other alone? (`TagIndexExact`, `ScriptsLostOnlyWhileConnecting`, `TagsChangeOnlyInOwnSet`); `IInv` |
| `redis_deletions` | scanner, 2 deletions of which one survives, `Chunk = 2`, so that the whole set goes with one chunked DEL | is a finished deletion final (`DeletedSetStaysGone`), does one that survives take effect (`DeleteTakesEffect`)? |
| `redis_queries` | a catalogue with one set in it, one of whose files has a tag, a second scan, a deletion, and a user who tags by glob, removes tags by glob or locates, by hash also a directory that the catalogue does not have with two items in it that it may have; `Prefetch = 2` | does `locate` find all that stays (`LocateMissesNothing`), by hash every copy of an item or, with no result for it, every copy of each thing inside, whatever was found of the others (`ByHashMissesNothing`), and say what is true of it (`LocatedRowsTrue`, a part of `QueriesInv`)? does tagging by glob reach all that matches and nothing else (`GlobReachesAll`, `GlobsTagWhatTheyMatch`)? |
| `postgresql` | 2 scans of discs of one and two files, 1 tagger, 2 deletions of the same sets; one of each survives | are sets whole, and does every operation take effect at once (`SetsWhole`, `ImplementsCatalogue`)? is "Missing set" always due to a deletion (`MissingSetWasDeleted`)? does everyone end (`EveryoneEnds`)? |
| `postgresql_tags` | 2 scans, 2 taggers drawing any of six requests, a deletion | is no tag lost between two taggers of one file (`NoTagLost`), does nobody change what was not asked for (`OnlyWhatWasAsked`)? `PgInv` |
| `navigator` | 2 cached listings, two sets, another process deletes set 1 | are a listing's rows of the set it was asked of, remembered matches of this line's directory (`RowsOfTheirSet`, `MatchesOfThisDirectory`)? does a listing that races a deletion miss files of a set that is still recorded (`ListingOfLiveSetComplete`)? does the buffer implement `LeastRecentlyUsed` (`EvictsLeastRecentlyUsed`)? `NavigatorInv`, which says among others that a key is cached once (`KeysOnce`) |
| `scan` | a disc of 11 entries in which two directories have the same contents, an empty file among them; all of it is scanned, or one file; the disc is in one of eleven states, entries unreadable or gone, in one of them a directory empty | do list, task stack and iterators belong together, and has each task that is filled done its work (`ScanInv`, which holds `ListSorted`, `TasksDoNotReenter`, `ViewsShowChildren`), is a hash that is marked valid the one that the tree gives (`HashingInv`, which holds `ScanInv`), do the views cover the list (`ViewsCoverList`)? do equal contents give equal hashes whatever the order of the walk, and conversely for two files or two directories and names of one length (`SameContentsSameHash`, `SameHashSameContentsOfEvenNames`)? is what is written complete (`WrittenIsComplete`, `EveryEntryWritten`)? does a scan end (`ScanEnds`)? |
| `locate_local` | every directory that can be made of twelve files and directories, three levels deep, where names begin with one another; five ways to type the root; a database that knows any part | do path names keep their meaning (`PathsAreRight`), and are items left out, or asked about in vain, only where string order and tree order differ (`LeftOutBesideNested`, `AskedInVainOnlyIfSplit`)? |
| `actions` | five entries, three directories to begin with, two changes by others, every word of three letters of three | is the list used as it was filled unless something was removed (`ActionsInv`, a part of `ReadingInv`), does an installed action run (`WantedActionRuns`), are hints close (`HintsAreClose`)? |

Two runs show claims of the documentation or of the tests that do not hold:

| run | claim | what the code does |
|---|---|---|
| `redis_delete_other_sets` | README.md:77, `delete 3 28` deletes sets 3 and 28 | the tail of `chunked_run_pvt` (`delete.cpp:67`) starts at a multiple of the chunk in absolute ids: file keys of earlier sets are deleted (and for other ranges, some of its own are missed) |
| `locate_left_out` | `locate/commandline.cpp:31`, with `--byhash` a local path is searched by content; `test_make_filerecord_tree.cpp:66`, a directory is beside the one before it | coming back from two levels down, `make_filerecord_tree` (line 71) stops at a sibling and puts the item under it: of `a/`, `a/a/` and `b`, `b` is in `a`, and is not looked for when the database knows `a` |

### Bounds

Redis: `Chunk` is the template argument of `chunked_run`, 8 in the code. `MaxSets` and
`MaxFiles` bound the ids handed out: a scan that finds none left stops there,
which the crash of a client already allows. They are chosen so that every scanner of a run
can write its set. Two hashes suffice for sets that share and do not share
contents; a disc is one file, or a directory and a file. A batch of `locate` has 500
commands in the code; with 2 and three files one batch is full and one is not.
`redis_queries` begins with a set written by a scan that ended, because what is asked about is
what a query meets, and not how the set came there. Its user names set 1, since without `--set` tagging tags nothing (see below).

PostgreSQL: in `postgresql` two scans of the longer disc need four files and there are three ids, so a
sequence runs out in the middle of a transaction. There the bounds are the ends of the sequences, which the code has too.

Scan: eleven entries are what the twin directories need: each holds a directory with a file, and
two files, so that files follow directories in a view, views of one level interleave in
the list, and a hash goes two directories up. `EntryLimit` is 9 instead of 100 and 200, so that the limit is both
kept and exceeded.

Navigator: the cache holds 4 listings in the code; 2 fill it up, evict and
refresh just as well with fewer directories. `MaxDepth = 2` is as deep as the
catalogues are; a `cd` needs no directory to exist, so the bound cuts only paths of
which every listing is empty.

Local directories: three levels is where the way back up passes a sibling; the names `a`,
`a.`, `ab` and `b` are on both sides of a slash in the order of strings. Main program: three
letters are enough for two edits, swaps across another letter included, `MaxChanges = 2` for a
removal and an installation in either order.

### Fairness

Of the `Survivors` of `redis_deletions`: a process that does not die is
scheduled and Redis, which serves connections in turn, answers it. The clients
that are not survivors may stop anywhere. `DeleteTakesEffect` admits the end with an error, when
another client's SCRIPT FLUSH makes a script of the deletion fail. Of every process
of `PgBackend`: the server goes on with each statement it can go on with, and looks for
deadlocks; the answer of a user (`Answer`) is not fair, and `EveryoneEnds`
lets a deletion wait for it. Of `Scan` weak fairness of `Next`: a single process that
runs until it ends. No other run assumes fairness.

### Where the code falls short, told without a run

In the models, so that the properties hold in spite of it or say what holds instead:

- two scans of one disc both write it: `add_to_db` (`scan/main.cpp:122`) looks up and then
  writes, README.md:64 says "unless the same item was already present in the db";
- without `--set`, tagging by id on Redis tags nothing: `tag_if_in_set.lua:54` compares a string with the
  number 0;
- connecting flushes the scripts of the server (`backend_redis.cpp:137`), so the tagging and deleting of others
  fail in the middle;
- the assertion `parItem.hash == parHash` (`backend_redis.cpp:266`) fails when the file is
  deleted between SRANDMEMBER and HSCAN;
- `tag --alltags` with globs on Redis removes no tag: the arms of the ternary at `tag.cpp:164` are swapped;
- two copies of an item stop `locate --byhash` of a build with assertions (`locate/main.cpp:72`);
- a root typed with slashes side by side gives records wrong relative paths (`dirtree.cpp:34`: the offset is
  counted without the needless slashes), and then `make_filerecord_tree` may read the unset index of `retval`;
- a path one of whose siblings is a prefix of it in the order of strings (`photo`, `photo.x`,
  `photo/a`) is taken out of its directory, and asked about in vain when the directory is known;
- two statements of the PostgreSQL backend are refused (`tag.cpp:102`, `tag.cpp:145`), one removes nothing (`tag.cpp:116`);
- TAB after `/` or `..` completes a path to the root, which `listdircontent.cpp:113` takes to be
  impossible; completing a path that leads up reads a component that is not there (`listdircontent.cpp:120`, against the
  assertion of `entrypath.cpp:126`); a completion and a listing share a cache entry, so `ls` after TAB
  shows completions (`listdircontent.cpp:104`); `ls` of a directory also shows what is in a directory whose name begins
  with its name (`find.cpp:312`); at the end of its input the navigator reads empty lines for ever (`navigate/main.cpp:98`);
- a file that cannot be opened is hashed as garbage and not marked (`tiger.cpp:68`, against README.md:66);
  directories with files `x`, `yz` and `xy`, `z` of the same contents have one hash (`hashing.cpp:82`, against README.md:64), and so
  have a directory with nothing in it and any empty file (`hashing.cpp:85`), so that the scan of the one is not written when the other
  is in the database; what nftw
  returns is not looked at (`filesearcher.cpp:166`), so a scan that stops at a directory `opendir` fails on is
  written as if it were the whole disc; `front()` of an empty list (`scan/main.cpp:123`);
- `dindexer --` is looked up as if it were an action.

Seen while reading, and not in the models: `dindexer delete 3 3` fails an assertion (`redis/delete.cpp:106`); `locate_sets_in_db` on Redis
reads a field `desc` that `write_files` never writes; on PostgreSQL, `locate_sets_in_db` limited to sets passes its parameters in the
wrong order, and the `connect` of the connection is never called (`backend_postgresql.cpp:85`).

`FilesFoundByHash`, `HashIndexSound` and the others hold in spite of the chunked DEL of other sets' files: a
file that is gone takes its tags along and leaves only stale ids in the
indexes, which the properties allow since the readers check the file.

## 4. Proofs

All theorems hold for every value of the constants that satisfies the named
assumptions of the modules: any number of processes, files, tags, any disc, any
catalogue. TLC evaluates the assumptions on the instances.

| module | theorems, with the property they state |
|---|---|
| `RedisProofs` | `Invariance` (`IInv`), `TypeCorrect` (`TypeOK`), `OwnershipTheorem` (`FileOwnership`), `TagIndexTheorem` (`TagIndexExact`), `HashIndexTheorem` (`HashIndexSound`), `DeletionTheorem` (`DeletedSetStaysGone`), `ScriptsTheorem` (`ScriptsLostOnlyWhileConnecting`), `TagsTheorem` (`TagsChangeOnlyInOwnSet`), `FoundTheorem` (`FilesFoundByHash`), `CompleteTheorem` (`ScanComplete`), `VanishTheorem`; `ChunkedRunNames`, `ChunkedRunExact` |
| `RedisQueriesProofs` | `QueriesInvTheorem` (`QueriesInv`), `RowsTheorem` (`LocatedRowsTrue`), `LocateTheorem` (`LocateMissesNothing`), `ByHashTheorem` (`ByHashMissesNothing`), `GlobTheorem` (`GlobReachesAll`), `GlobTagsTheorem` (`GlobsTagWhatTheyMatch`) |
| `PgProofs` | `PgInvariant` (`PgInv`), `PgTypes` (`TypeOK`), `PgSetsWhole` (`SetsWhole`), `PgForeignKey` (`ForeignKeyHolds`), `PgNeverContended` (`SetsNeverContended`), `PgMissingSet` (`MissingSetWasDeleted`), `PgNoTagLost` (`NoTagLost`), `PgImplements` (`ImplementsCatalogue`), `PgOnlyWhatWasAsked` (`OnlyWhatWasAsked`) |
| `NavigatorProofs` | `NavigatorCorrect` (`NavigatorInv`), `NavigatorTypes` (`TypeOK`), `KeysOnceTheorem` (`KeysOnce`), `RowsTheorem` (`RowsOfTheirSet`), `MatchesTheorem` (`MatchesOfThisDirectory`), `CompleteTheorem` (`ListingOfLiveSetComplete`), `LeastRecentlyUsedTheorem` (`EvictsLeastRecentlyUsed`) |
| `ScanProofs`, `SetListingProofs` | `ScanInvariant` (`ScanInv`), `ScanTypes`, `ListAlwaysSorted`, `TasksNeverReenter`, `ViewsAlwaysShowChildren`, `EveryEntryTheorem` (`EveryEntryWritten`), `WrittenTheorem` (`WrittenIsComplete`), `ViewsCoverTheorem` (`ViewsCoverList`), `HashingInvariant` (`HashingInv`), `SameContentsTheorem` (`SameContentsSameHash`), `SameHashTheorem` (`SameHashSameContentsOfEvenNames`); `InsertedIsSorted` |
| `LocateLocalProofs` | `LocalInvariant`, `LeftOutTheorem` (`LeftOutBesideNested`), `AskedInVainTheorem` (`AskedInVainOnlyIfSplit`) |
| `ActionsProofs` | `ReadingInvTheorem` (`ReadingInv`), `ActionsInvTheorem` (`ActionsInv`), `WantedTheorem` (`WantedActionRuns`) |

### Redis

None of the properties is inductive alone: that a file belongs to the set whose
range holds it depends on what the ids were when they were handed out.
`IInv` (module `RedisInvariant`) traces everything back to the scan that wrote
it: the counters are past every id (`IdsCounted`), no two scans share one
(`IdsDistinct`), and every set record, file record, hash index entry, tag key
entry and range of a deletion has the scan that wrote it (`SetsHaveWriters`,
`FilesHaveWriters`, `HashedFilesWritten`, `TaggedFilesWritten`,
`RangesHaveWriters`). `ScanProgress` and `DeleteProgress` say how far a process
is. A file whose id is looked up later can then only be the one its index entry
was made for. The proof has one lemma per action: connect and scan, then tag and delete.

Three theorems need more than `IInv`, each an invariant of its own proved beside it:

- `TagsTheorem`: what a process has queued stays within the files and the set it was
  given (`EditWithin`).
- `FoundTheorem`: a file of a set is indexed by its hash, or its scan has yet to do so, or a
  deletion of its set was confirmed (`FoundOrDeleted`). `dele_hash` removes ids from the keys of
  hashes it read earlier; that these are ids of the condemned set only, whatever other deletions do, is the core of it.
- `CompleteTheorem`: levels and files of a scan that ended are there as far as it came (`ScansSoFar`,
  `LevelsCounted`) until some deletion is under way (`DeletionsUnderWay`), together `CompleteInv`.

`chunked_run` (redis/delete.cpp:67) begins its tail at a multiple of the chunk and not where its
whole chunks end. `ChunkedRunNames` says which ids its DELs name, for every first id, count and chunk;
`ChunkedRunExact`, that these are the files of the set, all and only, exactly if that multiple is in the
set and not behind the last whole chunk. What it means for the running system is
`VanishTheorem` (the action property `FilesVanishOnlyNearNamedSets`): a file goes only when a confirmed deletion
comes to it, and it is of a set which that deletion named, or less than a chunk of ids in front of one
that has fewer files than a chunk (`Removable`). Besides `IInv` it takes that the DELs under work are those of the
set at hand (`DelsOfCurrentSet`). That a deletion keeps to its sets (`DeleteOnlyNamedSets`) is not so, as the
run `redis_delete_other_sets` shows; the theorem says how far it goes astray, for the chunk of the code as for any other.

### Queries on Redis

`QSpec` is proved to keep `IInv` and `QueriesInv` together. A step of a scan or a deletion is a step of
`RedisBackend`, so that the lemmas of `RedisProofs` serve for these; the queries themselves change
tags only, as a tagger does. All else rests on one fact of `IInv`: an id is written once. Every id that a query has
come by, from SCAN, in a batch, in a row, was written (`SeenWritten`), so from then on a file of that id is
there as it was read, or not there at all. Hence `RepliesTrue`, by which replies and ids that are put together
when the batch is full agree, and `LocatedRowsTrue`.

That nothing is missed needs an account of every file that was there when a request began (`since`): it is ahead of SCAN,
or in the batch, or under work, or done. These are `WalkProgress` for `locate` by path, `ByHashProgress` by hash,
and `GlobProgress` for tagging. By hash, every item that was asked for is yet to be answered, or all its copies
are results and, where it had none, what is inside was asked for too (`Asking`). What counts as a result
is a row with an id that was written for that hash (`WrittenAs`), for the row of a file that is gone has no hash any more. Deletions of others show in different ways: a file that is gone needs no account, but a
file whose set is being deleted may have lost its tags or its place in the index
before it goes, so there `Deleting` is one of the cases: `dele_hash` takes ids of a
condemned set only, so that a file which was indexed when the request began still is, or its set is condemned. Where another user removes the same tag meanwhile,
`GlobProgress` names that user, as the property does. `GlobTagsTheorem` looks at one step: a script runs
on a file that `WorkMatches` says was found to match, and by the above still does.

### PostgreSQL

`PgInv` says of every process what its locks mean: ids in use have been
drawn (`IdsHandedOut`); a scan's uncommitted rows are new, of its set, and the items of its disc written so far
(`ScanHolds`); a statement's rows are made of the committed ones by its own
change (`EditHolds`, `TaggerHolds`); a deletion that has come to its sets has locked every file of
them (`DeleterHolds`). The last is why the foreign key holds and why two deletions of
the same sets never meet at table `sets`: who comes second waits at the files,
finds them gone, and then the sets too. It rests on sets being whole and not empty: the read
before the question can only name sets whose scan has committed. For
`PgImplements`, every commit is one step of `Catalogue` (`AddSet`, `RemoveSets`, `Edit`), a
rollback is `GiveUp` of the ids it drew, and everything else is a stutter.

### Navigator

The properties lean on one another through the listing
that is being made, which may take any number of steps: `ListingInProgress`
says that its key is still not cached, that it is the path the user asked for,
and that what it collected comes from that path's set. Without it nothing
keeps `EndList` from caching a key twice. These make `PromptInv`; `NavigatorInv` adds
`LiveListing`, the order of a deletion as others see it: while the record of a set is
there its levels are, and while its levels are there all its files are, so that each
entry of the directory has been read or is still to be. `NavigatorAssumption`
asks that every name begins with itself, besides the types of the constants.

For `EvictsLeastRecentlyUsed` the buffer is seen as what it holds (`Held`) and the order of
its keys (`Older`). A refresh is a use of the key (`UseStep`), a push to the back an
addition (`AddStep`), a full buffer giving up the one key that is older than all others; that keys
are cached once is what makes both well defined.

### Scan

`ScanInv` is proved from `TreeAssumption`, `OrderAssumption` and `DiscAssumption`; it has five parts. What is said of hashes
needs `NameAssumption` too, and `ContentAssumption` in `SameHashTheorem`: contents of files are sequences.

`ShapeInv` is inductive by itself, and enough for types, order, tasks and views:

- Every search in the list is a least position with some property
  (`MinIsLeast`), so that `InsertedIsSorted`, `ViewNextFacts` and `FirstFileFacts` follow
  without induction over the list. That no directory follows a file of the same level
  in a sorted list (`FilesLast`) is why the loop over files meets no directory:
  `ViewsShowChildren` needs `ListSorted`.
- Tasks are in tiers, and each asks only for tasks of lower ones
  (`Descending`), so no task is twice on the stack.
- The list does not change while a `hash_dir` is under way, since walking and
  hashing are the work of different tasks (`HashingInProgress`); calls that
  wait are in their loop over names and not at their end (`CallersWait`), so
  that the iterator can go on when the call below returns.

That what is written is complete takes the other four, which lean on it:

- `TasksInv`: no task is left out and none is filled before what it needs. What a task needs is
  read off its filler (`Needs`); a frame comes to its own work when all of it has been called (`Prepared`), and what
  was called has returned, since it is of a lower tier (`NeedsFilled`). When `main` has nothing left to do every task is filled.
- `VisitedInv`: what nftw has been at hangs together below the search path, and the list is what was there.
- `HashedInv`: a call of `hash_dir` has done what is before its iterator (`Seen`), directories in the loop
  over names and files in the other. In a sorted list levels ascend, so that an iterator at its end is behind
  everything in its directory (`AllBefore`) and neither loop skips an entry (`SeenAdvances`, `SeenFiles`); a directory is marked
  valid after all that is in it, and with the first record everything is (`AllDone`, by the least level that is not).
- `FilledInv`: what each task has done once it is filled. A filler leaves alone what was filled before
  it, because the tasks whose work it could disturb need it, and so are not filled
  (`SetFilled`, `VisitFilled`): `FillBasic`, which resets the label, runs before `FillMedia`, which sets it, though either
  of `media` and `content` may ask for it first.

`WrittenTheorem` follows for a result of `stored`. `EveryEntryTheorem` adds that a walk ends only when no entry is next
(`Walked`): an entry left out would have a directory above it whose entries are not all met, and the deepest of
these (`DeepestExists`) has an entry that is next.

`ViewsCoverTheorem` is about a function defined by recursion over the tree (`Flattened`, the calls of `guess_content_type`
on the view of a directory). The proof uses no induction principle: records of a list have a
greatest level, a solution of the equation for the levels from k on gives one for the levels from k - 1 on (`Levels`),
and the least k without one is a contradiction (`FlattenedSolves`). Any solution counts what is below a directory,
since the counts of its children are sizes of disjoint sets (`SumOfSizes`, `DescendedFacts`), again by a least
counterexample. `ListRooted` says that every record but the first has its directory in the list.

That a valid hash is the right one takes more (`HashingInv`):

- `WholeHash` is what the hash of a record has to be, given the hashes of the others: of a file, what can be read of it; of
  a directory, the names of its entries with the hashes of directories among them (`Noted`), then the contents of its
  files mixed in (`Mixed`), both folded over the list. `SoFar` says that a call has put into its blob, or its hash, what the
  entries before its iterator give.
- These folds read hashes of other records, which change. They keep what they read because hashes of directories are
  read when they are done (`NotedAgrees`, `SoFarKept`), and one that is done is not hashed again: everything that is
  done has been passed by a call or is in a directory that is done (`Reached`), and the iterator goes on
  to what no call has passed (`EntryNotDone`).
- `on_data_fill` would hash everything again if the hashing task were filled twice; `FillsOnce` says that a frame has at most
  one filling left, and only of a task that has been asked for.

`SameContentsTheorem` then compares two directories: by `HashingInv` their hashes are folds over the same list that stop at
different places, as the list is sorted by level and path and not by directory. Equal contents make a relation between the entries of the
two (`Alike`: same name, same contents), which keeps the order (`AlikeOrder`), and functions that change in the same way at
positions in such a relation end alike (`PairsInStep`, `InStepAgree`). `NameAssumption` is what makes order and
names go together: the entries of two directories are in the order of their names, since `path()` of two of them
differs in nothing else. `Contents` and `Below` are functions by recursion over the tree, shown to have solutions from the deepest
entries upwards (`ContentsExist`, `BelowExist`); so is the theorem itself, by the least number that counts from there
(`Upwards`), in place of an induction principle.

`SameHashTheorem` goes the other way, where names are equally long, for two files or for two directories: an empty file
and an empty directory have one hash, and `add_to_db` (scan/main.cpp:125) would take the one for the other when the
first record it looks up is such. Files of one hash have the same letters (`FileContents`). Nothing separates names and hashes in a blob
but what they are: it ends in the letters of a name (`EndsInLetter`), as long as all names are, and
what is before these is a hash, which is no letter, or the end of the blob before (`NamesTell`). Two equal
blobs thus noted the same names and hashes in the same order (`SameNames`), and equal hashes they are mixed into had the same
contents of files mixed in (`SameEntries`): a `Block` is no letter, and what follows it is the contents (`BlockTells`). Directories in the one then have the hashes of those in the
other, and so the same contents, from the deepest entries upwards (`KidsTold`). That names are
not empty is in `NameAssumption`: one that is would leave nothing in the blob.

### Main program

`ReadingInv` compares what was counted and listed with what is in the directory. In general nothing relates the two passes: so
it says what does while no action is removed (`ReadIsCounted`: the second pass finds at least what was counted,
so every place is filled), while none is installed (`PlaceForAll`: there is room for what is still to be
read), and of the actions that are there all the time (`SteadyOnesSeen`). `SeenOrRemoved` ties the list
to what was removed, and `Outcome` the result to what was typed. `FiniteDirectory` makes the counts sizes of sets;
`ActionsAssumption` asks that the directories are finite. `lstat` of an entry that is gone leaves the buffer as it was, so that a
removed entry may be counted or not; no conjunct depends on which.

### The local side of locate

Both theorems are for any local directory and rest on `PathsTell`: relative paths
differ, their order puts a directory before what is in it, and `is_ancestor` and `are_siblings` tell of the names of two items
what is so. That is what `PathsAreRight` checks, of texts; from there on the proofs are about the tree.
`LocalAssumption` asks that a directory is finite and that names in it differ.

`LocalInv` has four parts. `ListedRight`: every item is listed once, in the order of paths (`OrderedFacts`, by
counting what is ahead of each; `BeforeIsOrder`). `TreeRight`: what a node is under is the directory
it is in, or one beside it that has a directory inside (`MayTake`), since only such are on the stack. `AskRight`: an item
is asked for, or about to be, if and only if what it is under was asked for and is not known. Hence `LeftOutTheorem`: going up
from an item that was not asked for one comes to something that was found, and each step up is to what the item
is in, or to what is beside it.

`SubtreesRight` is for `AskedInVainTheorem`: as long as everything listed after a directory is inside of it, the directory
is at hand, or still on the stack with nothing above it that is not under it (`OnWay`), so that a search on the stack stops
at it at the latest. That one node is above another in the tree is said without recursion: every set of nodes that
has the parent of the one, and with a node its parent, has the other (`Above`). `Open`, the nodes whose children
are asked for, is such a set; a directory that was found is not in it.

### Only model-checked

- Liveness (`DeleteTakesEffect`, `EveryoneEnds`, `ScanEnds`), which is beyond TLAPS.
- `HintsAreClose`: the edit distance is a recursive function of two words, and the property an
  equivalence of two ways to compute it.
- `PathsAreRight` of `locate_local`: texts are folded over, an induction over data. `PathsTell`, which the theorems about the
  tree presuppose, is a part of it.

## 5. Not modelled, and what could come next

- `locate_sets_in_db` and `find_set_details` of both backends, `locate --tags`, and on PostgreSQL the
  SELECTs of `locate.cpp` and `navigate.cpp`: one statement each, or a loop over sets whose
  answers do not depend on one another.
- The creation of the tables, settings, plugin loading, formatting and parsing of values, terminal
  handling, libpq and its wrapper, the wrappers of libmagic and blkid, the translation of globs,
  the tiger hash (a hash is a value), `query`, which prints its words.
- Symbolic links, which the scan lets nftw follow; escapes in the navigator's paths; repeated ids in one deletion.

More than half of the lines of implementation in the tree are not the program's own decisions: libpqtypes, which is vendored,
`tiger.c`, a table of constants, and the headers and build files around them. The models cover the functions that
change state or decide something.

Next: `PathsTell` from what `PathName` does with a text; scans of
`RedisBackend` as a refinement of a weaker catalogue, one in which a set grows file by file.
