------------------------------- MODULE Actions -------------------------------
(***************************************************************************)
(* `dindexer` itself: it lists the actions of the directory they are       *)
(* installed in, reads its command line, and runs the action it was given  *)
(* or suggests one.  Others install and remove actions meanwhile, and the  *)
(* directory is read twice: once to count and once to list.                *)
(***************************************************************************)
EXTENDS Integers, Sequences, SequencesExt, FiniteSets, FiniteSetsExt

CONSTANTS
  Entries,      \* what may be in the search path, each with a kind and a name
  Installed,    \* the directories that runs may begin with
  CommandLines, \* sequences of words and options
  MaxChanges    \* bound of what others install and remove

Dash == 0       \* letters are numbers in the order of strcmp, this is '-'

(* A "program" is a file dindexer-<name>, a "folder" holds such a file, a  *)
(* "bare" folder does not.                                                 *)
ASSUME ActionsAssumption ==
  /\ \A e \in Entries : e.kind \in {"program", "folder", "bare"} /\ e.name \in Seq(Nat)
  /\ Installed \subseteq SUBSET Entries
  /\ \A directory \in Installed : IsFiniteSet(directory)
  /\ MaxChanges \in Nat

VARIABLES
  installed,  \* what the search path holds
  changed,    \* what was installed or removed since the start, and how often
  pc,         \* "count", "push", "choose", "exec" or "ended"
  sure,       \* entries that readdir has yet to return
  maybe,      \* entries that it may return, as they came or went meanwhile
  st,         \* what the buffer of lstat says
  count,      \* how many actions the first pass found
  list,       \* the actions the second pass found
  args,       \* the command line
  result, named

vars == <<installed, changed, pc, sure, maybe, st, count, list, args, result, named>>

NoEntry == [kind |-> "none", name |-> <<>>]
Modes == {"directory", "other"}
Results == {"running", "usage", "shown", "no_actions", "hint", "unknown",
            "executed", "exec_failed", "undefined"}

-----------------------------------------------------------------------------
(* damerau_levenshtein, all of whose costs are 1.                          *)

\* The last place before k where word w has letter c, or 0.
LastBefore(w, k, c) == Max({0} \cup {i \in 1 .. k - 1 : w[i] = c})

\* Mutant: letters can be swapped only if they are neighbours in both words.
SwapNeighbours(s, t, table, i, j) ==
  LET i0 == LastBefore(s, i, t[j])
      j0 == LastBefore(t, j, s[i]) IN
    IF i0 # i - 1 \/ j0 # j - 1 \/ i0 = 0 \/ j0 = 0 THEN {}
    ELSE {1 + IF i0 = 1 /\ j0 = 1 THEN 0 ELSE table[Max({1, i0 - 1}), Max({1, j0 - 1})]}

\* Swap a letter with the one it was matched with last, across what is between.
Swap(s, t, table, i, j) ==
  LET i0 == LastBefore(s, i, t[j])
      j0 == LastBefore(t, j, s[i])
      before == IF i0 = 1 /\ j0 = 1 THEN 0
                ELSE table[Max({1, i0 - 1}), Max({1, j0 - 1})]
  IN  IF i0 = 0 \/ j0 = 0 THEN {} ELSE {before + (i - i0 - 1) + (j - j0 - 1) + 1}

Distance(s, t) ==
  LET Replace(i, j) == IF s[i] = t[j] THEN 0 ELSE 1
      table[i \in DOMAIN s, j \in DOMAIN t] ==
        Min(CASE i = 1 /\ j = 1 -> {Replace(1, 1)}
              [] i > 1 /\ j = 1 -> {table[i - 1, 1] + 1, i + 1, i - 1 + Replace(i, 1)}
              [] i = 1 /\ j > 1 -> {j + 1, table[1, j - 1] + 1, j - 1 + Replace(1, j)}
              [] OTHER -> {table[i - 1, j] + 1, table[i, j - 1] + 1,
                           table[i - 1, j - 1] + Replace(i, j)}
                          \cup Swap(s, t, table, i, j))
  IN  IF s = <<>> \/ t = <<>> THEN Len(s) + Len(t) ELSE table[Len(s), Len(t)]

Similar(action, input) == Distance(input, action) <= 2

-----------------------------------------------------------------------------
(* find_actions.                                                           *)

Mode(e) == IF e.kind = "program" THEN "other" ELSE "directory"

Init ==
  /\ installed \in Installed
  /\ changed = <<>>
  /\ pc = "count"
  /\ sure = installed /\ maybe = {}
  /\ st \in Modes
  /\ count = 0 /\ list = <<>>
  /\ args \in CommandLines
  /\ result = "running" /\ named = NoEntry

\* foreach_dir takes an entry for an action, going by what st holds.
IsAction(e, mode) ==
  IF mode = "directory" THEN e.kind = "folder" /\ e \in installed
  ELSE e.kind = "program"

\* lstat fails for what is gone, and nobody looks; a folder may go after it.
Lstat(e) == CASE e \in installed -> {Mode(e)}
              [] e \notin installed /\ e.kind = "program" -> {st}
              [] OTHER -> {st, "directory"}

Increase(e, mode) == /\ count' = count + IF IsAction(e, mode) THEN 1 ELSE 0
                     /\ UNCHANGED list

\* Mutant: one place less than was counted.
PushActionShort(e, mode) ==
  /\ list' = IF IsAction(e, mode) /\ Len(list) + 1 < count
             THEN Append(list, e) ELSE list
  /\ UNCHANGED count

PushAction(e, mode) ==
  /\ list' = IF IsAction(e, mode) /\ Len(list) < count
             THEN Append(list, e) ELSE list
  /\ UNCHANGED count

Read(e) ==
  /\ pc \in {"count", "push"}
  /\ e \in sure \cup maybe
  /\ sure' = sure \ {e} /\ maybe' = maybe \ {e}
  /\ \E mode \in Lstat(e) :
       /\ st' = mode
       /\ IF pc = "count" THEN Increase(e, mode) ELSE PushAction(e, mode)
  /\ UNCHANGED <<installed, changed, pc, args, result, named>>

\* The second pass has a st of its own, not initialised.
EndCount ==
  /\ pc = "count"
  /\ sure = {}
  /\ \/ count = 0 /\ pc' = "choose" /\ UNCHANGED <<sure, maybe, st>>
     \/ count # 0 /\ pc' = "push" /\ sure' = installed /\ maybe' = {} /\ st' \in Modes
  /\ UNCHANGED <<installed, changed, count, list, args, result, named>>

\* strcmp: at the first letter that differs, or when v ends first.
NotAfter(v, w) ==
  \/ IsPrefix(v, w)
  \/ \E k \in DOMAIN v \cap DOMAIN w :
       v[k] < w[k] /\ \A i \in 1 .. k - 1 : v[i] = w[i]

\* qsort: actions of one name in any order.
Orders == {p \in [DOMAIN list -> DOMAIN list] : Range(p) = DOMAIN list}

SortedLists ==
  LET orders == {[i \in DOMAIN list |-> list[p[i]]] : p \in Orders} IN
    {q \in orders : \A i, j \in DOMAIN list :
                      i < j => NotAfter(q[i].name, q[j].name)}

\* Pointers the second pass has not set are sorted, compared and printed.
EndPush ==
  /\ pc = "push"
  /\ sure = {}
  /\ IF Len(list) < count
     THEN pc' = "ended" /\ result' = "undefined" /\ UNCHANGED list
     ELSE pc' = "choose" /\ list' \in SortedLists /\ UNCHANGED result
  /\ UNCHANGED <<installed, changed, sure, maybe, st, count, args, named>>

-----------------------------------------------------------------------------
(* manage_commandline and main.                                            *)

IsWord(a) == a.kind = "word"
EndsOptions(a) == ~IsWord(a) /\ a.name = "--"

\* The action is the first argument and is not parsed.
Forwards == args # <<>> /\ IsWord(args[1]) /\ args[1].name # <<>>

\* getopt_long looks at options up to "--" and leaves the rest.
Options == LET end == {i \in DOMAIN args : EndsOptions(args[i])} IN
  {i \in DOMAIN args : ~IsWord(args[i]) /\ \A k \in end : i < k}
Operands == LET end == {i \in DOMAIN args : EndsOptions(args[i])} IN
  {i \in DOMAIN args : i \notin Options /\ i \notin end}
            \cup {i \in end : \E k \in end : k < i}
Given(option) == \E i \in Options : args[i].name = option

\* "running" when it is for main to look the action up.
ManageCommandline ==
  IF Forwards THEN "running"
  ELSE IF Given("invalid") \/ Operands # {} \/ args = <<>> THEN "usage"
  ELSE IF Options # {} THEN "shown"
  ELSE "running"

\* `dindexer --` is no option: it is looked up like an action.
Typed == IF Forwards THEN args[1].name ELSE <<Dash, Dash>>

\* Where foreach_avail_action stops, given the actions it would stop at.
ForeachAvailAction(stops) == {i \in stops : \A k \in stops : i <= k}

End(r) == pc' = "ended" /\ result' = r

OwnCommandLine ==
  /\ pc = "choose" /\ ManageCommandline # "running"
  /\ End(ManageCommandline)
  /\ UNCHANGED named

LooksUp == pc = "choose" /\ ManageCommandline = "running"

NoActions ==
  /\ LooksUp /\ count = 0
  /\ End("no_actions")
  /\ UNCHANGED named

\* Mutant: the last action is never looked at.
SameActionShort ==
  ForeachAvailAction({i \in DOMAIN list : list[i].name = Typed /\ i < Len(list)})

SameAction == ForeachAvailAction({i \in DOMAIN list : list[i].name = Typed})
FindSimilar == ForeachAvailAction({i \in DOMAIN list : Similar(list[i].name, Typed)})

Select ==
  /\ LooksUp
  /\ \E i \in SameAction : named' = list[i]
  /\ pc' = "exec"
  /\ UNCHANGED result

Suggest ==
  /\ LooksUp /\ count # 0 /\ SameAction = {}
  /\ \/ FindSimilar = {} /\ End("unknown") /\ UNCHANGED named
     \/ End("hint") /\ \E i \in FindSimilar : named' = list[i]

Choose ==
  /\ OwnCommandLine \/ NoActions \/ Select \/ Suggest
  /\ UNCHANGED <<installed, changed, sure, maybe, st, count, list, args>>

Execv ==
  /\ pc = "exec"
  /\ End(IF named \in installed THEN "executed" ELSE "exec_failed")
  /\ UNCHANGED <<installed, changed, sure, maybe, st, count, list, args, named>>

-----------------------------------------------------------------------------
(* Whoever installs packages.                                              *)

Change(e) == Len(changed) < MaxChanges /\ pc # "ended" /\ changed' = Append(changed, e)

Install(e) ==
  /\ e \notin installed
  /\ Change([what |-> "install", entry |-> e])
  /\ installed' = installed \cup {e}
  /\ maybe' = maybe \cup {e}
  /\ UNCHANGED <<pc, sure, st, count, list, args, result, named>>

Uninstall(e) ==
  /\ e \in installed
  /\ Change([what |-> "remove", entry |-> e])
  /\ installed' = installed \ {e}
  /\ maybe' = maybe \cup (sure \cap {e})
  /\ sure' = sure \ {e}
  /\ UNCHANGED <<pc, st, count, list, args, result, named>>

Next ==
  \/ \E e \in Entries : Read(e) \/ Install(e) \/ Uninstall(e)
  \/ EndCount \/ EndPush \/ Choose \/ Execv

Spec == Init /\ [][Next]_vars
=============================================================================
