------------------------- MODULE LocateLocalProperties -------------------------
(* What `dindexer locate --byhash` makes of what is on the local disc.     *)
EXTENDS LocateLocal

\* A text with slashes side by side, other than at its end.
Redundant(text) ==
  \E i \in 1 .. Len(text) - 2 :
    /\ text[i] = Slash /\ text[i + 1] = Slash
    /\ \E k \in i .. Len(text) : text[k] # Slash

Joined(names) ==
  FoldLeft(LAMBDA text, name :
             IF text = <<>> THEN name ELSE text \o <<Slash>> \o name, <<>>, names)

\* Every string is in a text of the pool, and every text used as it says.
Sound(p) ==
  /\ \A s \in Range(p.strings) :
       /\ s.at \in DOMAIN p.pool
       /\ s.len > 0 /\ s.start + s.len - 1 <= Len(p.pool[s.at].text)
  /\ \A k \in DOMAIN p.pool :
       /\ p.pool[k].uses > 0
       /\ p.pool[k].uses = Cardinality({i \in DOMAIN p.strings : p.strings[i].at = k})

Atoms(p) == [i \in DOMAIN p.strings |-> Atom(p, i)]

\* What the relative paths tell of how items lie to one another is true.
PathsTell ==
  \A d, e \in local :
    LET p == PathName(Path(d))
        q == PathName(Path(e))
    IN  /\ Path(d) \in Seq(Nat)
        /\ Path(d) = Path(e) => d = e
        /\ IsAncestor(p, q) <=> IsPrefix(d.path, e.path) \/ IsPrefix(e.path, d.path)
        /\ AreSiblings(p, q) => \/ d = e
                               \/ /\ d.path # <<>> /\ e.path # <<>>
                                  /\ Front(d.path) = Front(e.path)
        /\ IsStrictPrefix(d.path, e.path) => Before(Path(d), Path(e))

(* Path names mean the names they were made of, however the atoms share    *)
(* the texts they are kept in: after parsing, popping (the assertion of    *)
(* hashing.cpp:70) and being written out again.  What a record calls its   *)
(* path is then the relative one (dirtree.cpp:34), but for a root that was *)
(* typed with slashes side by side, and tells which items are in which     *)
(* (is_ancestor, are_siblings).                                            *)
PathsAreRight ==
  /\ Sound(prevDir)
  /\ pc = "list" =>   \* root and local never change
       \A e \in local :
         LET p == PathName(AbsPath(e))
             up == PopRight(p)
         IN  /\ Sound(p) /\ Sound(up)
             /\ Atoms(p) = root.names \o e.path
             /\ e.path # <<>> =>
                  LET dir == [path |-> Front(e.path), dir |-> TRUE] IN
                    SameAtoms(up, PathName(AbsPath(dir)))
             /\ Len(PathText(p)) = StrPathSize(p)
             /\ RootDir \in local /\ ~Redundant(root.text) =>
                  Path(e) = Joined(e.path)
  /\ pc = "list" /\ ~Redundant(root.text) => PathsTell
  /\ pc = "undefined" => Redundant(root.text)

LeftOut(e) == e \notin asked /\ \A d \in found : ~IsIn(e, d)

(* The database is asked about every local item unless it knows a          *)
(* directory the item is in (locate/main.cpp:66).                          *)
NothingLeftOut ==
  pc = "done" /\ ~Redundant(root.text) => \A e \in local : ~LeftOut(e)

(* make_filerecord_tree puts an item under a directory beside it only when *)
(* it comes back from more than one level below that directory; an item is *)
(* left out only if the database knows a directory beside it, or beside    *)
(* one it is in, with another directory inside.                            *)
LeftOutBesideNested ==
  pc = "done" /\ ~Redundant(root.text) =>
    \A e \in local : LeftOut(e) =>
      \E d \in found :
        /\ d.path # <<>> /\ ~IsIn(e, d)
        /\ IsPrefix(Front(d.path), e.path)
        /\ \E c \in local : c.dir /\ IsIn(c, d)

(* An item whose directory was found is asked about for nothing only if    *)
(* another name comes between the directory and what is in it in the order *)
(* of strings (make_filerecord_tree.cpp:45).                               *)
AskedInVainOnlyIfSplit ==
  \A e \in asked : \A d \in found :
    IsIn(e, d) /\ ~Redundant(root.text) =>
      \E b \in local :
        /\ ~IsIn(b, d) /\ b # d
        /\ Before(Path(d), Path(b)) /\ Before(Path(b), Path(e))
=============================================================================
