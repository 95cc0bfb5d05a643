------------------------------- MODULE PathNames -------------------------------
(***************************************************************************)
(* PathName: a path as its atoms, the names between slashes, each a range  *)
(* of a text in a pool that counts how many atoms use it.  Only operators: *)
(* who uses path names is in other modules.  A text is a sequence of       *)
(* letters, and letters are numbers in the order of char.                  *)
(***************************************************************************)
EXTENDS Integers, Sequences, SequencesExt, FiniteSets, FiniteSetsExt

Dot == 0
Slash == 1

Part(text, range) == SubSeq(text, range.start, range.start + range.len - 1)

\* Where an atom begins: after a slash, or after any number of them.
Starts(text) ==
  {i \in DOMAIN text : text[i] # Slash /\ (i = 1 \/ text[i - 1] = Slash)}

SplitPath(text) ==
  LET End(i) == Min({j \in i .. Len(text) : text[j] = Slash} \cup {Len(text) + 1})
      starts == SelectSeq([i \in DOMAIN text |-> i], LAMBDA i : i \in Starts(text))
  IN  [k \in DOMAIN starts |-> [start |-> starts[k], len |-> End(starts[k]) - starts[k]]]

-----------------------------------------------------------------------------
(* StringPool.                                                             *)

NoAtoms == [pool |-> <<>>, strings |-> <<>>, absolute |-> FALSE]

Places(atom, text) ==
  {i \in 1 .. Len(text) - Len(atom) + 1 : SubSeq(text, i, i + Len(atom) - 1) = atom}

\* Mutant: a text that is used again is not counted.
UpdateUncounted(p, source, range) ==
  LET atom == Part(source, range)
      holders == {k \in DOMAIN p.pool : Places(atom, p.pool[k].text) # {}}
      k == Min(holders) IN
    IF holders = {}
    THEN [p EXCEPT !.pool = Append(@, [text |-> source, uses |-> 1]),
                   !.strings = Append(@, [start |-> range.start, len |-> range.len,
                                          at |-> Len(p.pool) + 1])]
    ELSE [p EXCEPT !.strings =
            Append(@, [start |-> Min(Places(atom, p.pool[k].text)),
                       len |-> range.len, at |-> k])]

\* One more string: in the first text that has it anywhere, or in its own.
Update(p, source, range) ==
  LET atom == Part(source, range)
      holders == {k \in DOMAIN p.pool : Places(atom, p.pool[k].text) # {}}
      k == Min(holders) IN
    IF holders = {}
    THEN [p EXCEPT !.pool = Append(@, [text |-> source, uses |-> 1]),
                   !.strings = Append(@, [start |-> range.start, len |-> range.len,
                                          at |-> Len(p.pool) + 1])]
    ELSE [p EXCEPT !.pool[k].uses = @ + 1,
                   !.strings = Append(@, [start |-> Min(Places(atom, p.pool[k].text)),
                                          len |-> range.len, at |-> k])]

Insert(p, source, ranges) ==
  FoldLeft(LAMBDA q, range : Update(q, source, range), p, ranges)

\* Not only the last string goes, but its text when nothing else uses it.
PopRight(p) ==
  IF p.strings = <<>> THEN p
  ELSE LET k == Last(p.strings).at
           left == [p EXCEPT !.strings = Front(@), !.pool[k].uses = @ - 1]
       IN  IF left.pool[k].uses = 0 THEN [left EXCEPT !.pool = RemoveAt(@, k)] ELSE left

-----------------------------------------------------------------------------
(* PathName.                                                               *)

PathName(text) ==
  Insert([NoAtoms EXCEPT !.absolute = text # <<>> /\ text[1] = Slash],
         text, SplitPath(text))

Atom(p, i) == Part(p.pool[p.strings[i].at].text, p.strings[i])

AtomCount(p) == Len(p.strings)

\* calc_join_size, with nothing left out on the right.
StrPathSize(p) ==
  IF AtomCount(p) = 0 THEN (IF p.absolute THEN 1 ELSE 0)
  ELSE (IF p.absolute THEN 1 ELSE 0) + AtomCount(p) - 1
         + FoldLeft(LAMBDA sum, s : sum + s.len, 0, p.strings)

\* get_joint_atoms: no slash ends a path but the one of the root.
PathText(p) ==
  IF AtomCount(p) = 0 THEN (IF p.absolute THEN <<Slash>> ELSE <<>>)
  ELSE LET Lead(i) == IF i > 1 \/ p.absolute THEN <<Slash>> ELSE <<>>
       IN  FlattenSeq([i \in DOMAIN p.strings |-> Lead(i) \o Atom(p, i)])

\* How many atoms a and b begin with in common.
CommonAtoms(a, b) ==
  LET shortest == Min({AtomCount(a), AtomCount(b)}) IN
    Max({n \in 0 .. shortest : \A i \in 1 .. n : Atom(a, i) = Atom(b, i)})

MakeRelativePath(base, other) ==
  IF ~base.absolute /\ other.absolute THEN other
  ELSE LET common == CommonAtoms(base, other)
           Up(p, i) == Insert(p, <<Dot, Dot>>, <<[start |-> 1, len |-> 2]>>)
           Down(p, i) == LET s == other.strings[i] IN
                           Insert(p, other.pool[s.at].text, <<s>>)
           ups == [i \in 1 .. AtomCount(base) - common |-> i]
           downs == [i \in 1 .. AtomCount(other) - common |-> common + i]
       IN  FoldLeft(Down, FoldLeft(Up, NoAtoms, ups), downs)

\* Without a limit of levels either path may be the longer one.
IsAncestor(ancestor, child) ==
  CommonAtoms(ancestor, child) = Min({AtomCount(ancestor), AtomCount(child)})

AreSiblings(a, b) ==
  /\ AtomCount(a) = AtomCount(b)
  /\ CommonAtoms(a, b) >= AtomCount(a) - 1

SameAtoms(a, b) ==
  /\ AtomCount(a) = AtomCount(b)
  /\ CommonAtoms(a, b) = AtomCount(a)
=============================================================================
