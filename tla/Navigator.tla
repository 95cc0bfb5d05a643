------------------------------ MODULE Navigator ------------------------------
(***************************************************************************)
(* dindexer navigate: one user at a prompt who changes directory, lists    *)
(* it, and presses TAB; a cache of listings between the prompt and the     *)
(* backend; other processes that delete sets meanwhile.                    *)
(*                                                                         *)
(* An entry path is the stack of its components, the first of which is the *)
(* id of a set.  The path string that is a cache key, a file's path or a   *)
(* completion is the sequence of its components too: a component holds no  *)
(* slash.  What the user types as a path is a piece in normal form: after  *)
(* an optional leading slash, go up so many levels, then down some names;  *)
(* "." and names followed by ".." cancel.                                  *)
(***************************************************************************)
EXTENDS Integers, Sequences, SequencesExt

CONSTANTS
  Names,        \* path components
  SetIds,       \* the components that are numbers, and so may be the id of a set
  Begins,       \* <<m, n>> : the string m is the beginning of the string n
  Catalogue,    \* the records [set, path] stored at first
  Pieces,       \* what the user may give to cd: [abs, up, names]
  Words,        \* what the user may complete: [abs, up, names]
  Doomed,       \* the sets other processes delete
  CacheSize,    \* g_max_cached_lists
  MaxDepth      \* bound: deepest directory the user goes to

ASSUME NavigatorAssumption ==
  /\ SetIds \subseteq Names
  /\ Begins \subseteq Names \X Names
  /\ \A n \in Names : <<n, n>> \in Begins
  /\ \A r \in Catalogue : r.set \in SetIds /\ r.path \in Seq(Names)
  /\ \A p \in Pieces \cup Words : p.abs \in BOOLEAN /\ p.up \in Nat /\ p.names \in Seq(Names)
  /\ Doomed \subseteq SetIds
  /\ CacheSize \in Nat \ {0}
  /\ MaxDepth \in Nat

VARIABLES
  records,    \* keys set:<id>; the ids of the sets
  levels,     \* keys levels:<id>; the ids of the sets that have one
  files,      \* keys file:<id>; the records
  connected,  \* whether the backend is connected
  dir,        \* dir_man: the current directory
  cache,      \* m_cache, oldest first: [key, rows]
  prefix,     \* m_last_prefix of the line that is being read
  matches,    \* m_last_matches of it
  ask,        \* the listing that is being made: [tab, op, key, at]
  want,       \* what its first command found and is not looked up yet: [set, path]
  rows,       \* rows it has so far
  shown,      \* what the last ls printed: [dir, rows]
  closed,     \* whether the input is at its end
  pc          \* "prompt", "list", "rows", "ended" or how it failed

db == <<records, levels, files>>
reading == <<prefix, matches>>
listing == <<ask, want, rows>>
vars == <<db, connected, dir, cache, reading, listing, shown, closed, pc>>

Failures == {"uncaught", "not_implemented", "entry_index"}
NoPiece == [abs |-> FALSE, up |-> 0, names |-> <<>>]
SetRecord(s) == [set |-> s, path |-> <<>>]
NoAsk == [tab |-> FALSE, op |-> "ls", key |-> <<>>, at |-> 0]

-----------------------------------------------------------------------------
(* Entry paths.                                                            *)

PushPiece(stack, p) ==
  LET base == IF p.abs THEN <<>> ELSE stack
      kept == IF p.up < Len(base) THEN SubSeq(base, 1, Len(base) - p.up) ELSE <<>>
  IN  kept \o p.names

\* Mutated: an empty path has no level either.
LevelUnchecked(stack) == Len(stack) - 1

Level(stack) == IF stack = <<>> THEN 0 ELSE Len(stack) - 1
PointsToGroup(stack) == stack = <<>>
FilePath(stack) == Tail(stack)

\* boost::starts_with on two path strings.
StartsWith(path, start) ==
  \/ start = <<>>
  \/ /\ Len(start) <= Len(path)
     /\ \A i \in 1..Len(start) - 1 : path[i] = start[i]
     /\ <<Last(start), path[Len(start)]>> \in Begins

-----------------------------------------------------------------------------
(* The cache of listings.                                                  *)

CachedAt(key) == {i \in DOMAIN cache : cache[i].key = key}

Without(c, i) == [j \in 1..Len(c) - 1 |-> IF j < i THEN c[j] ELSE c[j + 1]]

\* Mutated: a full buffer overwrites its newest element.
PushBackOverNewest(c, e) ==
  IF Len(c) < CacheSize THEN Append(c, e) ELSE [c EXCEPT ![Len(c)] = e]

\* A full circular buffer overwrites its oldest element.
PushBack(c, e) ==
  IF Len(c) < CacheSize THEN Append(c, e)
  ELSE [j \in 1..Len(c) |-> IF j < Len(c) THEN c[j + 1] ELSE e]

\* Mutated: the entry is not erased.
RefreshKeepingOld(i) == PushBack(cache, cache[i])

FindAndRefresh(i) == PushBack(Without(cache, i), cache[i])

-----------------------------------------------------------------------------
Init ==
  /\ records = {r.set : r \in Catalogue}
  /\ levels = {r.set : r \in Catalogue}
  /\ files = Catalogue
  /\ connected = TRUE
  /\ dir = <<>>
  /\ cache = <<>>
  /\ prefix = NoPiece /\ matches = {}
  /\ ask = NoAsk /\ want = {} /\ rows = {}
  /\ shown = [dir |-> <<>>, rows |-> {}]
  /\ closed = FALSE
  /\ pc = "prompt"

\* The answer goes to readline or to the terminal.  A line that was read ends
\* the life of the ReadlineWrapper it was read with.
Answer(a, answer) ==
  /\ pc' = "prompt"
  /\ IF a.tab
     THEN matches' = answer /\ UNCHANGED shown
     ELSE matches' = {} /\ shown' = [dir |-> dir, rows |-> answer]

NoAnswer(a) ==
  /\ matches' = IF a.tab THEN matches ELSE {}
  /\ UNCHANGED shown

\* The key names a set whose id lexical_cast cannot convert, or there is no
\* connection to send a command over: nothing catches the exception.
AskThrows(key) ==
  \/ ~connected
  \/ ~PointsToGroup(key) /\ key[1] \notin SetIds

\* ListDirContent::ls, both overloads, up to its first command.
Ask(a) ==
  \/ \E i \in CachedAt(a.key) :
       /\ cache' = FindAndRefresh(i)
       /\ Answer(a, Last(cache').rows)
       /\ UNCHANGED listing
  \/ /\ CachedAt(a.key) = {}
     /\ a.op = "complete" /\ PointsToGroup(a.key)
     /\ pc' = "not_implemented"
     /\ NoAnswer(a)
     /\ UNCHANGED <<cache, listing>>
  \/ /\ CachedAt(a.key) = {}
     /\ ~(a.op = "complete" /\ PointsToGroup(a.key))
     /\ NoAnswer(a)
     /\ IF AskThrows(a.key)
        THEN pc' = "uncaught" /\ UNCHANGED listing
        ELSE pc' = "list" /\ ask' = a /\ want' = {} /\ rows' = {}
     /\ UNCHANGED cache

\* The level of the files that are asked for.
WantedLevel == IF ask.op = "ls" THEN Level(ask.key) + 1 ELSE Level(ask.key)

FilesAt(s, level) ==
  IF s \in levels THEN {f \in Catalogue : f.set = s /\ Len(f.path) = level} ELSE {}

\* Mutated: the set is taken from the current directory.
ListOfCurrentSet ==
  /\ pc = "list"
  /\ want' = IF PointsToGroup(ask.key) THEN {SetRecord(s) : s \in records}
             ELSE FilesAt(IF dir = <<>> THEN ask.key[1] ELSE dir[1], WantedLevel)
  /\ pc' = "rows"
  /\ UNCHANGED <<db, connected, dir, cache, reading, ask, rows, shown, closed>>

\* SCAN set:*, or ZRANGEBYSCORE of the level that is asked for: it also finds
\* files that are being deleted.
List ==
  /\ pc = "list"
  /\ want' = IF PointsToGroup(ask.key) THEN {SetRecord(s) : s \in records}
             ELSE FilesAt(ask.key[1], WantedLevel)
  /\ pc' = "rows"
  /\ UNCHANGED <<db, connected, dir, cache, reading, ask, rows, shown, closed>>

\* HMGET of one set, or HGET of one file: what is gone, or does not start with
\* the path that is asked for, makes no row.
RowOf(r) ==
  IF PointsToGroup(ask.key) THEN {<<s>> : s \in {r.set} \cap records}
  ELSE {f.path : f \in {g \in {r} \cap files : StartsWith(g.path, FilePath(ask.key))}}

ReadRow(r) ==
  /\ pc = "rows"
  /\ r \in want
  /\ want' = want \ {r}
  /\ rows' = rows \cup RowOf(r)
  /\ UNCHANGED <<db, connected, dir, cache, reading, ask, shown, closed, pc>>

\* A completion keeps the component at the level of the current directory.
HasComponents == ask.op = "complete" => \A x \in rows : ask.at < Len(x)
Result == IF ask.op = "complete" THEN {<<x[ask.at + 1]>> : x \in rows} ELSE rows

EndList ==
  /\ pc = "rows"
  /\ want = {}
  /\ IF HasComponents
     THEN /\ cache' = PushBack(cache, [key |-> ask.key, rows |-> Result])
          /\ Answer(ask, Result)
          /\ ask' = NoAsk /\ rows' = {}
     ELSE pc' = "entry_index" /\ UNCHANGED <<cache, shown, matches, ask, rows>>
  /\ UNCHANGED <<db, connected, dir, prefix, want, closed>>

-----------------------------------------------------------------------------
\* TAB: list_matches, called when the word before the cursor is not the one
\* ReadlineWrapper::matches answered last.
Tab(p) ==
  /\ pc = "prompt"
  /\ ~closed
  /\ p # prefix
  /\ Len(PushPiece(dir, p)) <= MaxDepth
  /\ prefix' = p
  /\ Ask([tab |-> TRUE,
          op |-> IF p = NoPiece THEN "ls" ELSE "complete",
          key |-> PushPiece(dir, p),
          at |-> Level(dir)])
  /\ UNCHANGED <<db, connected, dir, closed>>

\* Mutated: the ReadlineWrapper outlives the line.
LineReadSameWrapper ==
  /\ pc = "prompt"
  /\ ~closed
  /\ prefix' = prefix

\* A line was read; the next one is read by a new ReadlineWrapper.
LineRead ==
  /\ pc = "prompt"
  /\ ~closed
  /\ prefix' = NoPiece

Cd(p) ==
  /\ LineRead
  /\ Len(PushPiece(dir, p)) <= MaxDepth
  /\ dir' = PushPiece(dir, p)
  /\ matches' = {}
  /\ UNCHANGED <<db, connected, cache, listing, shown, closed, pc>>

Ls ==
  /\ LineRead
  /\ Ask([tab |-> FALSE, op |-> "ls", key |-> dir, at |-> Level(dir)])
  /\ UNCHANGED <<db, connected, dir, closed>>

\* pwd, or an empty line.
Pwd ==
  /\ LineRead
  /\ matches' = {}
  /\ UNCHANGED <<db, connected, dir, cache, listing, shown, closed, pc>>

Disconnect ==
  /\ LineRead
  /\ matches' = {}
  /\ connected' = FALSE
  /\ UNCHANGED <<db, dir, cache, listing, shown, closed, pc>>

Exit ==
  /\ LineRead
  /\ matches' = {}
  /\ connected' = FALSE
  /\ pc' = "ended"
  /\ UNCHANGED <<db, dir, cache, listing, shown, closed>>

\* exec_command throws at a line it cannot parse or a command it does not know.
Unknown ==
  /\ LineRead
  /\ matches' = {}
  /\ pc' = "uncaught"
  /\ UNCHANGED <<db, connected, dir, cache, listing, shown, closed>>

\* readline returns a null pointer from then on, which reads as an empty line.
EndOfInput ==
  /\ pc = "prompt"
  /\ closed' = TRUE
  /\ UNCHANGED <<db, connected, dir, cache, reading, listing, shown, pc>>

ReadAtEnd ==
  /\ pc = "prompt"
  /\ closed
  /\ prefix' = NoPiece /\ matches' = {}
  /\ UNCHANGED <<db, connected, dir, cache, listing, shown, closed, pc>>

-----------------------------------------------------------------------------
\* Another process deletes the set s: its record, its levels, its files.
DelSet(s) ==
  /\ s \in records \cap Doomed
  /\ records' = records \ {s}
  /\ UNCHANGED <<levels, files, connected, dir, cache, reading, listing, shown, closed, pc>>

DelLevels(s) ==
  /\ s \in levels \ records
  /\ levels' = levels \ {s}
  /\ UNCHANGED <<records, files, connected, dir, cache, reading, listing, shown, closed, pc>>

\* Mutated: files go before the levels.
DelFileFirst(r) ==
  /\ r \in files
  /\ r.set \in Doomed
  /\ files' = files \ {r}
  /\ UNCHANGED <<records, levels, connected, dir, cache, reading, listing, shown, closed, pc>>

DelFile(r) ==
  /\ r \in files
  /\ r.set \notin levels
  /\ files' = files \ {r}
  /\ UNCHANGED <<records, levels, connected, dir, cache, reading, listing, shown, closed, pc>>

OtherProcess ==
  \/ \E s \in SetIds : DelSet(s) \/ DelLevels(s)
  \/ \E r \in Catalogue : DelFile(r)

Listing == List \/ EndList \/ \E r \in want : ReadRow(r)

Command ==
  \/ \E p \in Pieces : Cd(p)
  \/ Ls \/ Pwd \/ Disconnect \/ Exit \/ Unknown

Next ==
  \/ Listing
  \/ \E p \in Words \cup {NoPiece} : Tab(p)
  \/ Command
  \/ EndOfInput \/ ReadAtEnd
  \/ OtherProcess

Spec == Init /\ [][Next]_vars
=============================================================================
