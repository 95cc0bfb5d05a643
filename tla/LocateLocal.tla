------------------------------ MODULE LocateLocal ------------------------------
(***************************************************************************)
(* `dindexer locate --byhash <path>`: a local file or directory is listed  *)
(* and hashed, the records are made into a tree, and whatever the database *)
(* does not know is looked for by what is in it.  The hashes are those of  *)
(* module Scan; here an item stands for its hash, and the database is      *)
(* asked about one item after the other (RedisQueries has what others do   *)
(* to the database meanwhile).                                             *)
(***************************************************************************)
EXTENDS PathNames

CONSTANTS
  Roots,   \* what users type: a text, and the names it goes down
  Items,   \* what may be in the local directory: names from the root, a kind
  Locals   \* sets of items of which each is in one directory, or is a file

RootDir == [path |-> <<>>, dir |-> TRUE]

ASSUME LocalAssumption ==
  /\ \A r \in Roots : r.text \in Seq(Nat) \ {<<>>} /\ r.names \in Seq(Seq(Nat))
  /\ \A e \in Items : e.path \in Seq(Seq(Nat)) /\ e.dir \in BOOLEAN
  /\ Locals \subseteq SUBSET (Items \cup {RootDir})
  /\ \A S \in Locals :   \* names differ in a directory
       IsFiniteSet(S) /\ \A d, e \in S : d.path = e.path => d = e

VARIABLES
  root, local,  \* what was typed, and what is there
  pc,           \* "list", "tree", "ask", "done" or "undefined"
  records,      \* the items in the order of their paths
  parent,       \* for each record in the tree so far, the one it was put under
  nodeStack, currNode, prevDir,  \* locals of make_filerecord_tree
  todo,         \* records collect_matching_recursively has yet to ask for
  asked, found

vars == <<root, local, pc, records, parent, nodeStack, currNode, prevDir,
          todo, asked, found>>

Retval == 0    \* the node whose children are the result

Init ==
  /\ root \in Roots
  /\ local \in Locals
  /\ RootDir \notin local => Last(root.text) # Slash   \* else stat fails
  /\ pc = "list"
  /\ records = <<>>
  /\ parent = <<>>
  /\ nodeStack = <<>> /\ currNode = Retval /\ prevDir = NoAtoms
  /\ todo = <<>> /\ asked = {} /\ found = {}

-----------------------------------------------------------------------------
(* DirTree or SingleFileTask, and the sort of make_filerecord_tree.        *)

\* nftw takes the slashes off the end of what it is given.
Walked(text) ==
  SubSeq(text, 1, Max({1} \cup {i \in DOMAIN text : text[i] # Slash}))

Entered(dir, names) ==
  FoldLeft(LAMBDA text, name : IF Last(text) = Slash THEN text \o name
                                                     ELSE text \o <<Slash>> \o name,
           dir, names)

AbsPath(e) ==
  IF RootDir \notin local THEN root.text ELSE Entered(Walked(root.text), e.path)

\* calc_rel_path_offs: of the lengths without needless slashes.
CalcRelPathOffs(rootPath, path) ==
  StrPathSize(path) - StrPathSize(MakeRelativePath(rootPath, path))

\* FileRecordData::path: the path of a single file is all of it.
Path(e) ==
  LET offset == IF RootDir \in local
                THEN CalcRelPathOffs(PathName(root.text), PathName(AbsPath(e)))
                ELSE 0
  IN  SubSeq(AbsPath(e), offset + 1, Len(AbsPath(e)))

\* The order of std::string.
Before(v, w) ==
  \/ IsStrictPrefix(v, w)
  \/ \E k \in DOMAIN v \cap DOMAIN w :
       v[k] < w[k] /\ \A i \in 1 .. k - 1 : v[i] = w[i]

\* The members of S in the order of the pairs in less.
Ordered(S, less) ==
  LET place == [e \in S |-> Cardinality({d \in S : <<d, e>> \in less})]
  IN  [i \in 1 .. Cardinality(S) |-> CHOOSE e \in S : place[e] = i - 1]

ListItems ==
  /\ pc = "list"
  /\ LET path == [e \in local |-> Path(e)] IN
       records' = Ordered(local, {p \in local \X local : Before(path[p[1]], path[p[2]])})
  /\ pc' = "tree"
  /\ UNCHANGED <<root, local, parent, nodeStack, currNode, prevDir, todo, asked, found>>

-----------------------------------------------------------------------------
(* make_filerecord_tree: one round of its loop.                            *)

This == Len(parent) + 1

CurrPath == PathName(Path(records[This]))

\* Mutant: directories take nothing.
PutUnderFlat(n, stack, dir) ==
  /\ parent' = Append(parent, n)
  /\ nodeStack' = stack /\ currNode' = n /\ prevDir' = dir
  /\ UNCHANGED <<root, local, pc, records, todo, asked, found>>

\* The node becomes a child of n; a directory takes what comes next.
PutUnder(n, stack, dir) ==
  /\ parent' = Append(parent, n)
  /\ IF records[This].dir
     THEN /\ nodeStack' = Append(stack, n)
          /\ currNode' = This
          /\ prevDir' = CurrPath
     ELSE nodeStack' = stack /\ currNode' = n /\ prevDir' = dir
  /\ UNCHANGED <<root, local, pc, records, todo, asked, found>>

Placing == pc = "tree" /\ This <= Len(records)

SubPath ==
  /\ Placing /\ IsAncestor(prevDir, CurrPath)
  /\ PutUnder(currNode, nodeStack, prevDir)

\* Mutant: one node is popped, whatever it is.
FitsAny(k) == TRUE

\* The nodes on the stack at which the search for another one stops.
Fits(k) ==
  LET test == PathName(Path(records[nodeStack[k]])) IN
    AreSiblings(test, CurrPath) \/ IsAncestor(test, CurrPath)

Candidates == {k \in DOMAIN nodeStack : nodeStack[k] # Retval /\ Fits(k)}

OtherPath ==
  /\ Placing /\ ~IsAncestor(prevDir, CurrPath)
  /\ Candidates # {}
  /\ LET k == Max(Candidates) IN
       PutUnder(nodeStack[k], SubSeq(nodeStack, 1, k - 1),
                PathName(Path(records[nodeStack[k]])))

\* retval is popped, and has no index.
ReadUnsetIndex ==
  /\ Placing /\ ~IsAncestor(prevDir, CurrPath)
  /\ Candidates = {}
  /\ pc' = "undefined"
  /\ UNCHANGED <<root, local, records, parent, nodeStack, currNode, prevDir,
                 todo, asked, found>>

Children(n) ==
  LET mine == {r \in DOMAIN parent : parent[r] = n}
  IN  Ordered(mine, {p \in mine \X mine : p[1] < p[2]})

EndTree ==
  /\ pc = "tree" /\ This > Len(records)
  /\ todo' = Children(Retval)
  /\ pc' = "ask"
  /\ UNCHANGED <<root, local, records, parent, nodeStack, currNode, prevDir, asked, found>>

-----------------------------------------------------------------------------
(* collect_matching_recursively.                                           *)

IsIn(e, d) == d.dir /\ IsStrictPrefix(d.path, e.path)

\* What is in a directory the database knows is known as well.
Ask(known) ==
  /\ pc = "ask" /\ todo # <<>>
  /\ LET e == records[Head(todo)] IN
       /\ (\E d \in found : IsIn(e, d)) => known
       /\ asked' = asked \cup {e}
       /\ IF known
          THEN found' = found \cup {e} /\ todo' = Tail(todo)
          ELSE found' = found /\ todo' = Children(Head(todo)) \o Tail(todo)
  /\ UNCHANGED <<root, local, pc, records, parent, nodeStack, currNode, prevDir>>

EndAsking ==
  /\ pc = "ask" /\ todo = <<>>
  /\ pc' = "done"
  /\ UNCHANGED <<root, local, records, parent, nodeStack, currNode, prevDir,
                 todo, asked, found>>

Next ==
  \/ ListItems
  \/ SubPath \/ OtherPath \/ ReadUnsetIndex \/ EndTree
  \/ \E known \in BOOLEAN : Ask(known)
  \/ EndAsking

Spec == Init /\ [][Next]_vars
=============================================================================
