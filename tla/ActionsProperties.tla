-------------------------- MODULE ActionsProperties --------------------------
(* What a user of `dindexer` may rely on.                                  *)
EXTENDS Actions

TypeOK ==
  /\ installed \subseteq Entries
  /\ changed \in Seq([what : {"install", "remove"}, entry : Entries])
  /\ pc \in {"count", "push", "choose", "exec", "ended"}
  /\ sure \subseteq installed /\ maybe \subseteq Entries /\ sure \cap maybe = {}
  /\ st \in Modes
  /\ count \in Nat
  /\ list \in Seq(Entries) /\ Len(list) <= count
  /\ args \in CommandLines
  /\ result \in Results /\ (pc = "ended") = (result # "running")
  /\ named \in Entries \cup {NoEntry}

Changes(what) == {c.entry : c \in {d \in Range(changed) : d.what = what}}

(* The list of the second pass is sorted and used at the length the first  *)
(* pass counted (findactions.c:58): places nobody filled are met only if   *)
(* an action was removed while dindexer was reading, never because of what *)
(* lstat left in its buffer or because something was installed.            *)
UnsetOnlyAfterRemoval == result = "undefined" => Changes("remove") # {}

\* The types, the length of the list, and when what was never set is read.
ActionsInv == TypeOK /\ UnsetOnlyAfterRemoval

(* An action that is installed all the time and typed as it is called is   *)
(* run, unless what others did meanwhile took its place in the list, made  *)
(* the list shorter than counted, or removed its namesake.                 *)
WantedActionRuns ==
  /\ result \notin {"running", "executed"}
  /\ Forwards
  /\ \E e \in installed \ (Changes("install") \cup Changes("remove")) :
       e.kind # "bare" /\ e.name = args[1].name
  => \/ result = "undefined" /\ Changes("remove") # {}
     \/ result \in {"hint", "unknown"} /\ Changes("install") # {}
     \/ /\ result = "exec_failed"
        /\ \E e \in Changes("remove") : e.name = args[1].name

Letters == {Dash} \cup UNION {Range(e.name) : e \in Entries}

\* Words that are one deletion, insertion, replacement or swap away.
Edits(w) ==
  LET places == DOMAIN w IN
    {RemoveAt(w, i) : i \in places}
      \cup {InsertAt(w, i, c) : i \in 1 .. Len(w) + 1, c \in Letters}
      \cup {ReplaceAt(w, i, c) : i \in places, c \in Letters}
      \cup {[w EXCEPT ![i] = w[i + 1], ![i + 1] = w[i]] : i \in places \ {Len(w)}}

WithinTwoEdits(w) == LET one == Edits(w) \cup {w} IN one \cup UNION {Edits(v) : v \in one}

(* The hint (main.c:96) is the first action of the list that two edits     *)
(* make of what was typed, and there is no hint only if there is none:     *)
(* damerau_levenshtein agrees with what its comment promises.              *)
HintsAreClose ==
  LET near == {i \in DOMAIN list : list[i].name \in WithinTwoEdits(Typed)} IN
    /\ result = "unknown" => near = {}
    /\ result = "hint" => near # {} /\ named = list[Min(near)]
=============================================================================
