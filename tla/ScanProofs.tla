----------------------------- MODULE ScanProofs -----------------------------
(***************************************************************************)
(* The invariant of a scan, for every disc, tree and order of paths.       *)
(***************************************************************************)
EXTENDS ScanProperties, SetListingProofs

Steps == Tasks \cup {"open", "fill"}

-----------------------------------------------------------------------------
(* Sequences used as stacks.                                               *)

LEMMA StackFacts ==
  ASSUME NEW S, NEW s \in Seq(S), s # <<>>
  PROVE  /\ Len(s) \in Nat \ {0}
         /\ Last(s) = s[Len(s)] /\ Last(s) \in S
         /\ Front(s) \in Seq(S) /\ Len(Front(s)) = Len(s) - 1
         /\ \A i \in 1 .. Len(s) - 1 : Front(s)[i] = s[i]
<1>1. Len(s) \in Nat \ {0} /\ \A i \in 1 .. Len(s) : s[i] \in S
  BY EmptySeq, ElementOfSeq, LenProperties
<1>2. Last(s) = s[Len(s)] /\ Last(s) \in S
  BY <1>1 DEF Last
<1>3. /\ Front(s) \in Seq(S) /\ Len(Front(s)) = Len(s) - 1
      /\ \A i \in 1 .. Len(s) - 1 : Front(s)[i] = s[i]
  <2>1. \A i \in 1 .. Len(s) - 1 : s[i] \in S
    BY <1>1
  <2>2. CASE Len(s) = 1
    <3>1. Front(s) = <<>>
      BY <2>2, <1>1, SubSeqEmpty DEF Front
    <3> QED BY <3>1, <2>2
  <2>3. CASE Len(s) > 1
    <3> DEFINE f == SubSeq(s, 1, Len(s) - 1)
    <3>1. 1 \in Int /\ Len(s) - 1 \in Int
      BY <1>1
    <3>2. /\ f \in Seq(S)
          /\ Len(f) = IF 1 <= Len(s) - 1 THEN Len(s) - 1 - 1 + 1 ELSE 0
          /\ \A i \in 1 .. Len(s) - 1 - 1 + 1 : f[i] = s[1 + i - 1]
      BY <2>1, <3>1, SubSeqProperties
    <3>3. Front(s) = f
      BY DEF Front
    <3> HIDE DEF f
    <3>4. f \in Seq(S) /\ Len(f) = Len(s) - 1
      BY <1>1, <2>3, <3>2
    <3>5. ASSUME NEW i \in 1 .. Len(s) - 1
          PROVE  f[i] = s[i]
      <4>1. i \in 1 .. Len(s) - 1 - 1 + 1 /\ 1 + i - 1 = i
        BY <1>1
      <4> QED BY <4>1, <3>2
    <3> QED BY <3>3, <3>4, <3>5
  <2>4. Len(s) = 1 \/ Len(s) > 1
    <3>1. \A l \in Nat \ {0} : l = 1 \/ l > 1
      OBVIOUS
    <3> QED BY <1>1, <3>1
  <2> QED BY <2>2, <2>3, <2>4
<1> QED BY <1>1, <1>2, <1>3

LEMMA ReplaceTop ==
  ASSUME NEW S, NEW s \in Seq(S), s # <<>>, NEW T, S \subseteq T, NEW e \in T
  PROVE  LET r == Append(Front(s), e) IN
         /\ r \in Seq(T) /\ Len(r) = Len(s) /\ r # <<>> /\ Last(r) = e
         /\ \A i \in 1 .. Len(s) : r[i] = IF i = Len(s) THEN e ELSE s[i]
<1> DEFINE f == Front(s)
           r == Append(f, e)
<1>1. /\ Len(s) \in Nat \ {0}
      /\ f \in Seq(S) /\ Len(f) = Len(s) - 1
      /\ \A i \in 1 .. Len(s) - 1 : f[i] = s[i]
  BY StackFacts
<1>2. f \in Seq(T)
  BY <1>1, SeqMonotonic
<1> HIDE DEF f
<1>3. /\ r \in Seq(T) /\ Len(r) = Len(s)
      /\ \A i \in 1 .. Len(s) : r[i] = IF i = Len(s) THEN e ELSE f[i]
  BY <1>1, <1>2, AppendProperties
<1> HIDE DEF r
<1>4. r # <<>> /\ Last(r) = e
  BY <1>1, <1>3 DEF Last
<1> QED BY <1>1, <1>3, <1>4 DEF r, f

LEMMA PushTop ==
  ASSUME NEW S, NEW s \in Seq(S), NEW e \in S
  PROVE  LET r == Append(s, e) IN
         /\ r \in Seq(S) /\ Len(r) = Len(s) + 1 /\ r # <<>> /\ Last(r) = e
         /\ \A i \in 1 .. Len(s) + 1 : r[i] = IF i = Len(s) + 1 THEN e ELSE s[i]
<1> DEFINE r == Append(s, e)
<1>1. /\ r \in Seq(S) /\ Len(r) = Len(s) + 1 /\ Len(s) \in Nat
      /\ \A i \in 1 .. Len(s) + 1 : r[i] = IF i = Len(s) + 1 THEN e ELSE s[i]
  BY AppendProperties, LenProperties
<1> HIDE DEF r
<1>2. r # <<>> /\ Last(r) = e
  BY <1>1 DEF Last
<1> QED BY <1>1, <1>2 DEF r

-----------------------------------------------------------------------------
(* The calls.                                                              *)

LEMMA TierIsNat == \A t : Tier(t) \in Nat
BY DEF Tier

(* A filler asks only for tasks below its own tier.                        *)
LEMMA ProgramDescends ==
  ASSUME NEW t \in Tasks
  PROVE  /\ Fill(t) \in Seq(Steps) /\ Get(t) \in Seq(Steps)
         /\ \A k \in 1 .. Len(Fill(t)) : Fill(t)[k] \in Tasks => Tier(Fill(t)[k]) < Tier(t)
         /\ \A k \in 1 .. Len(Get(t)) : Get(t)[k] \in Tasks => Tier(Get(t)[k]) < Tier(t)
<1>1. CASE t = "files"
  BY <1>1 DEF Fill, Get, Tasks, Steps, Tier
<1>2. CASE t = "set"
  BY <1>2 DEF Fill, Get, Tasks, Steps, Tier
<1>3. CASE t = "mime"
  BY <1>3 DEF Fill, Get, Tasks, Steps, Tier
<1>4. CASE t = "hashing"
  BY <1>4 DEF Fill, Get, Tasks, Steps, Tier
<1>5. CASE t = "media"
  BY <1>5 DEF Fill, Get, Tasks, Steps, Tier
<1>6. CASE t = "content"
  BY <1>6 DEF Fill, Get, Tasks, Steps, Tier
<1>7. CASE t \in {"dirtree", "basic"}
  BY <1>7 DEF Fill, Get, Tasks, Steps, Tier
<1> QED BY <1>1, <1>2, <1>3, <1>4, <1>5, <1>6, <1>7 DEF Tasks

LEMMA FrameDescends ==
  ASSUME NEW t \in Tasks
  PROVE  /\ Frame(t) \in Frames /\ Frame(t).task = t
         /\ \A k \in 1 .. Len(Frame(t).todo) :
              Frame(t).todo[k] \in Tasks => Tier(Frame(t).todo[k]) < Tier(t)
<1> DEFINE all == Fill(t) \o Get(t)
<1>1. /\ Fill(t) \in Seq(Steps) /\ Get(t) \in Seq(Steps)
      /\ \A k \in 1 .. Len(Fill(t)) : Fill(t)[k] \in Tasks => Tier(Fill(t)[k]) < Tier(t)
      /\ \A k \in 1 .. Len(Get(t)) : Get(t)[k] \in Tasks => Tier(Get(t)[k]) < Tier(t)
  BY ProgramDescends
<1>2. /\ all \in Seq(Steps) /\ Len(all) = Len(Fill(t)) + Len(Get(t))
      /\ \A k \in 1 .. Len(all) :
           all[k] = IF k <= Len(Fill(t)) THEN Fill(t)[k] ELSE Get(t)[k - Len(Fill(t))]
  BY <1>1, ConcatProperties
<1>3. Len(Fill(t)) \in Nat /\ Len(Get(t)) \in Nat
  BY <1>1, LenProperties
<1> HIDE DEF all
<1>4. ASSUME NEW k \in 1 .. Len(all), all[k] \in Tasks
      PROVE  Tier(all[k]) < Tier(t)
  <2>1. CASE k <= Len(Fill(t))
    <3>1. k \in 1 .. Len(Fill(t)) /\ all[k] = Fill(t)[k]
      BY <2>1, <1>2, <1>3
    <3> QED BY <3>1, <1>1, <1>4
  <2>2. CASE k > Len(Fill(t))
    <3> DEFINE j == k - Len(Fill(t))
    <3>1. j \in 1 .. Len(Get(t)) /\ all[k] = Get(t)[j]
      BY <2>2, <1>2, <1>3
    <3> HIDE DEF j
    <3> QED BY <3>1, <1>1, <1>4
  <2> QED BY <2>1, <2>2, <1>2, <1>3
<1>5. Frame(t) = [task |-> t, todo |-> IF t \in made THEN Get(t) ELSE all]
  BY DEF Frame, all
<1> QED BY <1>1, <1>2, <1>4, <1>5 DEF Frames, Steps

(* The top frame has done a step.                                          *)
LEMMA PoppedFacts ==
  ASSUME TypeOK, Descending(stack), Now.todo # <<>>
  PROVE  /\ Popped \in Seq(Frames) /\ Popped # <<>> /\ Len(Popped) = Len(stack)
         /\ Descending(Popped)
         /\ \A i \in 1 .. Len(stack) : Popped[i].task = stack[i].task
<1> DEFINE e == [Now EXCEPT !.todo = Tail(@)]
           r == Append(Front(stack), e)
<1>1. /\ stack \in Seq(Frames) /\ stack # <<>> /\ Len(stack) \in Nat \ {0}
      /\ Now = stack[Len(stack)] /\ Now \in Frames
  BY StackFacts DEF TypeOK, Now
<1>2. /\ Now.todo \in Seq(Steps) /\ Len(Now.todo) \in Nat \ {0}
      /\ Tail(Now.todo) \in Seq(Steps)
      /\ Len(Tail(Now.todo)) = Len(Now.todo) - 1
      /\ \A k \in 1 .. Len(Now.todo) - 1 : Tail(Now.todo)[k] = Now.todo[k + 1]
  <2>1. Now.todo \in Seq(Steps)
    BY <1>1 DEF Frames, Steps
  <2> QED BY <2>1, HeadTailProperties, EmptySeq, LenProperties
<1>3. e \in Frames /\ e.task = Now.task /\ e.todo = Tail(Now.todo)
  BY <1>1, <1>2 DEF Frames, Steps
<1> HIDE DEF e
<1>4. /\ r \in Seq(Frames) /\ Len(r) = Len(stack) /\ r # <<>>
      /\ \A i \in 1 .. Len(stack) : r[i] = IF i = Len(stack) THEN e ELSE stack[i]
  BY <1>1, <1>3, ReplaceTop
<1>5. Popped = r
  BY DEF Popped, e
<1> HIDE DEF r
<1>6. \A i \in 1 .. Len(stack) : r[i].task = stack[i].task
  BY <1>1, <1>3, <1>4
<1>7. /\ DOMAIN stack = 1 .. Len(stack) /\ DOMAIN r = 1 .. Len(stack)
      /\ \A i \in 1 .. Len(stack) : /\ stack[i] \in Frames /\ r[i] \in Frames
                                    /\ stack[i].todo \in Seq(Steps)
                                    /\ r[i].todo \in Seq(Steps)
  <2>1. DOMAIN stack = 1 .. Len(stack) /\ DOMAIN r = 1 .. Len(stack)
    BY <1>1, <1>4, LenProperties
  <2>2. \A i \in 1 .. Len(stack) : stack[i] \in Frames /\ r[i] \in Frames
    BY <1>1, <1>4, ElementOfSeq
  <2>3. \A f \in Frames : f.todo \in Seq(Steps)
    BY DEF Frames, Steps
  <2> QED BY <2>1, <2>2, <2>3
<1>8. \A i \in 1 .. Len(stack) : /\ DOMAIN stack[i].todo = 1 .. Len(stack[i].todo)
                                 /\ DOMAIN r[i].todo = 1 .. Len(r[i].todo)
  BY <1>7, LenProperties
<1>9. ASSUME NEW i \in 1 .. Len(stack), NEW k \in 1 .. Len(r[i].todo), r[i].todo[k] \in Tasks
      PROVE  Tier(r[i].todo[k]) < Tier(r[i].task)
  <2>0. \A l \in 1 .. Len(stack[i].todo) :
          stack[i].todo[l] \in Tasks => Tier(stack[i].todo[l]) < Tier(stack[i].task)
    BY <1>7, <1>8 DEF Descending
  <2>1. CASE i = Len(stack)
    <3>1. r[i].todo = Tail(Now.todo) /\ stack[i].todo = Now.todo
      BY <2>1, <1>1, <1>3, <1>4
    <3>2. k \in 1 .. Len(Now.todo) - 1
      BY <3>1, <1>2
    <3>3. k + 1 \in 1 .. Len(Now.todo) /\ r[i].todo[k] = Now.todo[k + 1]
      BY <3>1, <3>2, <1>2
    <3> QED BY <3>1, <3>3, <1>6, <1>9, <2>0
  <2>2. CASE i # Len(stack)
    <3>1. r[i] = stack[i]
      BY <2>2, <1>4
    <3> QED BY <3>1, <1>9, <2>0
  <2> QED BY <2>1, <2>2
<1>10. Descending(r)
  <2> SUFFICES ASSUME NEW i \in 1 .. Len(stack)
               PROVE  /\ \A j \in 1 .. Len(stack) : i < j => Tier(r[j].task) < Tier(r[i].task)
                      /\ \A k \in 1 .. Len(r[i].todo) :
                           r[i].todo[k] \in Tasks => Tier(r[i].todo[k]) < Tier(r[i].task)
    BY <1>7, <1>8 DEF Descending
  <2>1. \A j \in 1 .. Len(stack) : i < j => Tier(r[j].task) < Tier(r[i].task)
    BY <1>6, <1>7 DEF Descending
  <2> QED BY <2>1, <1>9
<1> QED BY <1>1, <1>4, <1>5, <1>6, <1>10

(* While something else than a fill of the hashing task is to be done, no  *)
(* hash_dir is under way.                                                  *)
LEMMA NoHashDir ==
  ASSUME ShapeInv
  PROVE  /\ Now.todo = <<>> => dirs = <<>>
         /\ \A t \in Steps \ {"fill"} : Busy(t) => dirs = <<>>
         /\ \A t \in Tasks \ {"hashing"} : Working(t) => dirs = <<>>
BY DEF ShapeInv, HashingInProgress, Busy, Working

-----------------------------------------------------------------------------
(* The calls of hash_dir.                                                  *)

HashFrames ==
  [dir : Dirs, view : 1 .. Len(list), at : 1 .. Len(list) + 1, phase : {"names", "files"}]

(* The parts of ViewsShowChildren and CallersWait that are about one call. *)
Shows(f) ==
  ~ AtEnd(list, f.dir, f.at) =>
    /\ IsIn(list[f.at], f.dir)
    /\ f.phase = "files" => list[f.at] \notin Dirs

Waits(f) == f.phase = "names" /\ ~ AtEnd(list, f.dir, f.at)

DirsOK(ds) ==
  /\ ds \in Seq(HashFrames)
  /\ \A i \in 1 .. Len(ds) : Shows(ds[i]) /\ (i < Len(ds) => Waits(ds[i]))

LEMMA DirsOKEquiv ==
  DirsOK(dirs) <=> dirs \in Seq(HashFrames) /\ CallersWait /\ ViewsShowChildren
<1>1. ASSUME dirs \in Seq(HashFrames)
      PROVE  DOMAIN dirs = 1 .. Len(dirs)
  BY <1>1, LenProperties
<1> QED BY <1>1 DEF DirsOK, CallersWait, ViewsShowChildren, Shows, Waits

LEMMA DirsFront ==
  ASSUME NEW ds, DirsOK(ds), ds # <<>>
  PROVE  /\ DirsOK(Front(ds)) /\ Last(ds) \in HashFrames /\ Shows(Last(ds))
         /\ Front(ds) # <<>> => Last(Front(ds)) \in HashFrames /\ Waits(Last(Front(ds)))
<1> DEFINE f == Front(ds)
<1>1. /\ Len(ds) \in Nat \ {0} /\ Last(ds) = ds[Len(ds)] /\ Last(ds) \in HashFrames
      /\ f \in Seq(HashFrames) /\ Len(f) = Len(ds) - 1
      /\ \A i \in 1 .. Len(ds) - 1 : f[i] = ds[i]
  BY StackFacts DEF DirsOK
<1>2. Len(ds) \in 1 .. Len(ds)
  BY <1>1
<1>3. Shows(Last(ds))
  BY <1>1, <1>2 DEF DirsOK
<1> HIDE DEF f
<1>4. DirsOK(f)
  <2> SUFFICES ASSUME NEW i \in 1 .. Len(f)
               PROVE  Shows(f[i]) /\ Waits(f[i])
    BY <1>1 DEF DirsOK
  <2>1. i \in 1 .. Len(ds) /\ i < Len(ds) /\ f[i] = ds[i]
    BY <1>1
  <2> QED BY <2>1 DEF DirsOK
<1>5. ASSUME f # <<>>
      PROVE  Last(f) \in HashFrames /\ Waits(Last(f))
  <2>1. Len(f) \in Nat \ {0} /\ Last(f) = f[Len(f)] /\ Last(f) \in HashFrames
    BY <1>1, <1>5, StackFacts
  <2>2. Len(f) \in 1 .. Len(ds) - 1 /\ Len(f) \in 1 .. Len(ds) /\ Len(f) < Len(ds)
    BY <1>1, <2>1
  <2>3. Last(f) = ds[Len(f)]
    BY <2>1, <2>2, <1>1
  <2> QED BY <2>1, <2>2, <2>3 DEF DirsOK
<1> QED BY <1>1, <1>3, <1>4, <1>5 DEF f

LEMMA DirsPush ==
  ASSUME NEW ds, DirsOK(ds), ds # <<>> => Waits(Last(ds)),
         NEW f \in HashFrames, Shows(f)
  PROVE  DirsOK(Append(ds, f))
<1> DEFINE r == Append(ds, f)
<1>1. /\ ds \in Seq(HashFrames) /\ Len(ds) \in Nat
      /\ r \in Seq(HashFrames) /\ Len(r) = Len(ds) + 1
      /\ \A i \in 1 .. Len(ds) + 1 : r[i] = IF i = Len(ds) + 1 THEN f ELSE ds[i]
  BY PushTop, LenProperties DEF DirsOK
<1> HIDE DEF r
<1> SUFFICES ASSUME NEW i \in 1 .. Len(ds) + 1
             PROVE  Shows(r[i]) /\ (i < Len(ds) + 1 => Waits(r[i]))
  BY <1>1 DEF DirsOK, r
<1>2. CASE i = Len(ds) + 1
  BY <1>1, <1>2
<1>3. CASE i < Len(ds)
  <2>1. i \in 1 .. Len(ds) /\ r[i] = ds[i]
    BY <1>1, <1>3
  <2> QED BY <1>3, <2>1 DEF DirsOK
<1>4. CASE i = Len(ds)
  <2>1. i \in 1 .. Len(ds) /\ r[i] = ds[i] /\ ds # <<>>
    BY <1>1, <1>4
  <2>2. Last(ds) = ds[i]
    BY <1>4 DEF Last
  <2> QED BY <2>1, <2>2 DEF DirsOK
<1> QED BY <1>1, <1>2, <1>3, <1>4

-----------------------------------------------------------------------------
(* What the steps have in common.                                          *)

Typed ==
  /\ made \subseteq Tasks
  /\ DOMAIN hash = Nodes /\ DOMAIN blob = Dirs
  /\ valid \in [Nodes -> BOOLEAN]
  /\ unreadable \in [Nodes -> BOOLEAN]
  /\ mimed \in [Nodes -> BOOLEAN]
  /\ set \in [name : {"", "given"}, label : {"", "label"}, type : MediaTypes \cup {""},
              content : {"", "Empty", "Generic", "VideoCD", "VideoDVD"}]
  /\ result \in {"running", "stored", "present", "failed"}

(* A step that changes the calls of tasks while no hash_dir is under way.  *)
LEMMA TaskStep ==
  ASSUME ShapeInv, Typed', UNCHANGED <<disk, walk>>, dirs' = <<>>,
         stack' \in Seq(Frames), stack' # <<>>, Descending(stack')
  PROVE  ShapeInv'
<1>0. dirs' \in Seq(HashFrames')
  <2>1. \A S : <<>> \in Seq(S)
    OBVIOUS
  <2> QED BY <2>1
<1> USE DEF ShapeInv, disk, walk
<1>1. TypeOK'
  <2>1. /\ top' \in SearchPaths /\ disc' \in Discs /\ ignore' \in BOOLEAN
        /\ visited' \subseteq Nodes /\ list' \in Seq(Nodes)
    BY DEF TypeOK
  <2> QED BY <2>1, <1>0 DEF TypeOK, Typed, HashFrames
<1>2. ListSorted' /\ (Range(list) \subseteq visited)'
  BY DEF ListSorted
<1>3. Descending(stack)' /\ HashingInProgress'
  BY DEF Descending, HashingInProgress
<1>4. CallersWait' /\ ViewsShowChildren'
  BY DEF CallersWait, ViewsShowChildren
<1> QED BY <1>1, <1>2, <1>3, <1>4

(* A step of the hashing task's filler.                                    *)
LEMMA HashStep ==
  ASSUME ShapeInv, Typed', UNCHANGED <<disk, tasks, walk>>,
         Working("hashing"), list # <<>>, Head(list) \in Dirs, DirsOK(dirs)'
  PROVE  ShapeInv'
<1> USE DEF ShapeInv, disk, tasks, walk
<1>1. (dirs \in Seq(HashFrames) /\ CallersWait /\ ViewsShowChildren)'
  BY DirsOKEquiv, PTL
<1>2. TypeOK'
  BY <1>1 DEF TypeOK, Typed, HashFrames
<1>3. ListSorted' /\ (Range(list) \subseteq visited)' /\ Descending(stack)'
  BY DEF ListSorted, Descending
<1>4. HashingInProgress'
  BY DEF HashingInProgress, Working, Busy, Now
<1> QED BY <1>1, <1>2, <1>3, <1>4

LEMMA TypedNow == ShapeInv => Typed
BY DEF ShapeInv, TypeOK, Typed

(* A step of the filler of a task other than hashing.                      *)
LEMMA PopStep ==
  ASSUME ShapeInv, Typed', UNCHANGED <<disk, walk>>, dirs' = <<>>,
         Now.todo # <<>>, stack' = Popped
  PROVE  ShapeInv'
<1>1. TypeOK /\ Descending(stack)
  BY DEF ShapeInv
<1>2. Popped \in Seq(Frames) /\ Popped # <<>> /\ Descending(Popped)
  BY <1>1, PoppedFacts
<1> QED BY <1>2, TaskStep

(* A step that decides how the run ends.                                   *)
LEMMA ResultStep ==
  ASSUME ShapeInv, UNCHANGED <<disk, tasks, walk, records, hashdir, set>>,
         result' \in {"stored", "present", "failed"}
  PROVE  ShapeInv'
<1> USE DEF ShapeInv, disk, tasks, walk, records, hashdir
<1>1. TypeOK'
  BY DEF TypeOK
<1>2. ListSorted' /\ (Range(list) \subseteq visited)' /\ Descending(stack)'
  BY DEF ListSorted, Descending
<1>3. HashingInProgress'
  BY DEF HashingInProgress, Now
<1>4. CallersWait' /\ ViewsShowChildren'
  BY DEF CallersWait, ViewsShowChildren
<1> QED BY <1>1, <1>2, <1>3, <1>4

-----------------------------------------------------------------------------
(* Calls and returns.                                                      *)

LEMMA DescendingPush ==
  ASSUME NEW s \in Seq(Frames), s # <<>>, Descending(s),
         NEW f \in Frames, Tier(f.task) < Tier(Last(s).task),
         \A k \in 1 .. Len(f.todo) : f.todo[k] \in Tasks => Tier(f.todo[k]) < Tier(f.task)
  PROVE  Descending(Append(s, f))
<1> DEFINE r == Append(s, f)
           n == Len(s)
<1>1. /\ n \in Nat \ {0} /\ Last(s) = s[n]
      /\ r \in Seq(Frames) /\ Len(r) = n + 1
      /\ \A i \in 1 .. n + 1 : r[i] = IF i = n + 1 THEN f ELSE s[i]
  <2>1. n \in Nat \ {0} /\ Last(s) = s[n]
    BY StackFacts
  <2>2. /\ r \in Seq(Frames) /\ Len(r) = n + 1
        /\ \A i \in 1 .. n + 1 : r[i] = IF i = n + 1 THEN f ELSE s[i]
    BY PushTop
  <2> QED BY <2>1, <2>2
<1>2. DOMAIN s = 1 .. n /\ DOMAIN r = 1 .. n + 1
  BY <1>1, LenProperties
<1>3. f.todo \in Seq(Steps)
  BY DEF Frames, Steps
<1>4. DOMAIN f.todo = 1 .. Len(f.todo)
  BY <1>3, LenProperties
<1>5. /\ \A i, j \in 1 .. n : i < j => Tier(s[j].task) < Tier(s[i].task)
      /\ \A i \in 1 .. n : \A k \in DOMAIN s[i].todo :
           s[i].todo[k] \in Tasks => Tier(s[i].todo[k]) < Tier(s[i].task)
  BY <1>2 DEF Descending
<1> HIDE DEF r, n
<1>6. ASSUME NEW i \in 1 .. n + 1, NEW j \in 1 .. n + 1, i < j
      PROVE  Tier(r[j].task) < Tier(r[i].task)
  <2>1. i \in 1 .. n /\ r[i] = s[i]
    BY <1>1, <1>6
  <2>2. CASE j \in 1 .. n
    <3>1. r[j] = s[j]
      BY <2>2, <1>1
    <3> QED BY <2>1, <2>2, <3>1, <1>5, <1>6
  <2>3. CASE j = n + 1
    <3>1. r[j] = f
      BY <2>3, <1>1
    <3>2. Tier(s[n].task) <= Tier(s[i].task)
      <4>1. CASE i = n
        BY <4>1, TierIsNat
      <4>2. CASE i < n
        <5>1. n \in 1 .. n
          BY <1>1
        <5>2. Tier(s[n].task) < Tier(s[i].task)
          BY <2>1, <4>2, <5>1, <1>5
        <5>3. Tier(s[n].task) \in Nat /\ Tier(s[i].task) \in Nat
          BY TierIsNat
        <5> QED BY <5>2, <5>3
      <4> QED BY <1>1, <2>1, <4>1, <4>2
    <3>3. Tier(f.task) \in Nat /\ Tier(s[n].task) \in Nat /\ Tier(s[i].task) \in Nat
      BY TierIsNat
    <3>4. Tier(f.task) < Tier(s[n].task)
      BY <1>1
    <3> QED BY <3>1, <3>2, <3>3, <3>4, <2>1
  <2> QED BY <2>2, <2>3, <1>1
<1>7. ASSUME NEW i \in 1 .. n + 1, NEW k \in DOMAIN r[i].todo, r[i].todo[k] \in Tasks
      PROVE  Tier(r[i].todo[k]) < Tier(r[i].task)
  <2>1. CASE i \in 1 .. n
    <3>1. r[i] = s[i]
      BY <2>1, <1>1
    <3> QED BY <2>1, <3>1, <1>5, <1>7
  <2>2. CASE i = n + 1
    <3>1. r[i] = f
      BY <2>2, <1>1
    <3> QED BY <3>1, <1>4, <1>7
  <2> QED BY <2>1, <2>2, <1>1
<1> QED BY <1>2, <1>6, <1>7 DEF Descending, r

LEMMA CallInv ==
  ASSUME ShapeInv, NEW t \in Tasks, Call(t)
  PROVE  ShapeInv'
<1>1. TypeOK /\ Descending(stack) /\ Now.todo # <<>> /\ Head(Now.todo) = t
  BY DEF ShapeInv, Call, Busy
<1>2. dirs' = <<>>
  <2>1. t \in Steps \ {"fill"}
    BY DEF Steps, Tasks
  <2> QED BY <2>1, NoHashDir DEF Call, hashdir
<1>3. /\ Popped \in Seq(Frames) /\ Popped # <<>> /\ Len(Popped) = Len(stack)
      /\ Descending(Popped)
      /\ \A i \in 1 .. Len(stack) : Popped[i].task = stack[i].task
  BY <1>1, PoppedFacts
<1>4. /\ Len(stack) \in Nat \ {0} /\ Now = stack[Len(stack)] /\ Now \in Frames
      /\ stack \in Seq(Frames)
  BY <1>1, StackFacts DEF TypeOK, Now
<1>5. Last(Popped).task = Now.task
  <2>1. Len(stack) \in 1 .. Len(stack)
    BY <1>4
  <2>2. Last(Popped) = Popped[Len(stack)]
    BY <1>3 DEF Last
  <2> QED BY <2>1, <2>2, <1>3, <1>4
<1>6. Tier(t) < Tier(Now.task)
  <2>1. Now.todo \in Seq(Steps)
    BY <1>4 DEF Frames, Steps
  <2>2. 1 \in DOMAIN Now.todo /\ Now.todo[1] = t
    BY <2>1, <1>1, EmptySeq, LenProperties
  <2>3. Len(stack) \in DOMAIN stack
    BY <1>4, LenProperties
  <2> QED BY <2>2, <2>3, <1>1, <1>4 DEF Descending
<1>7. /\ Frame(t) \in Frames /\ Frame(t).task = t
      /\ \A k \in 1 .. Len(Frame(t).todo) :
           Frame(t).todo[k] \in Tasks => Tier(Frame(t).todo[k]) < Tier(t)
  BY FrameDescends
<1>8. Descending(Append(Popped, Frame(t)))
  BY <1>3, <1>5, <1>6, <1>7, DescendingPush
<1>9. Append(Popped, Frame(t)) \in Seq(Frames) /\ Append(Popped, Frame(t)) # <<>>
  BY <1>3, <1>7, PushTop
<1>10. Typed' /\ UNCHANGED <<disk, walk>> /\ stack' = Append(Popped, Frame(t))
  BY TypedNow DEF Typed, Call, records, hashdir
<1> QED BY <1>2, <1>8, <1>9, <1>10, TaskStep

LEMMA ReturnInv ==
  ASSUME ShapeInv, Return
  PROVE  ShapeInv'
<1>1. dirs' = <<>>
  BY NoHashDir DEF Return, hashdir
<1>2. stack \in Seq(Frames) /\ stack # <<>> /\ Descending(stack) /\ Len(stack) > 1
  BY DEF ShapeInv, TypeOK, Return
<1> DEFINE f == Front(stack)
<1>3. /\ Len(stack) \in Nat /\ f \in Seq(Frames) /\ Len(f) = Len(stack) - 1
      /\ \A i \in 1 .. Len(stack) - 1 : f[i] = stack[i]
  BY <1>2, StackFacts
<1> HIDE DEF f
<1>4. f # <<>>
  BY <1>2, <1>3
<1>5. Descending(f)
  <2>1. DOMAIN f = 1 .. Len(stack) - 1 /\ DOMAIN stack = 1 .. Len(stack)
    BY <1>2, <1>3, LenProperties
  <2>2. \A i \in DOMAIN f : i \in DOMAIN stack /\ f[i] = stack[i]
    BY <2>1, <1>3
  <2> QED BY <2>2, <1>2 DEF Descending
<1>6. Typed' /\ UNCHANGED <<disk, walk>> /\ stack' = f
  BY TypedNow DEF Typed, Return, records, hashdir, f
<1> QED BY <1>1, <1>3, <1>4, <1>5, <1>6, TaskStep

-----------------------------------------------------------------------------
(* The walk.                                                               *)

LEMMA VisitInv ==
  ASSUME ShapeInv, NEW n \in Nodes, Visit(n)
  PROVE  ShapeInv'
<1>1. dirs = <<>>
  <2>1. "dirtree" \in Tasks \ {"hashing"}
    BY DEF Tasks
  <2> QED BY <2>1, NoHashDir DEF Visit
<1>2. /\ UNCHANGED <<disk, tasks, records, hashdir, set, result>>
      /\ n \notin visited /\ visited' = visited \cup {n}
      /\ list' = list \/ list' = Inserted(list, n)
  BY DEF Visit, IsNext
<1>3. list \in Seq(Nodes) /\ IsSorted(list, Before) /\ Range(list) \subseteq visited
  BY DEF ShapeInv, TypeOK, ListSorted
<1>4. list' \in Seq(Nodes) /\ IsSorted(list', Before) /\ Range(list') \subseteq visited'
  <2>1. CASE list' = list
    BY <2>1, <1>2, <1>3
  <2>2. CASE list' = Inserted(list, n)
    <3>1. n \in Nodes \ Range(list)
      BY <1>2, <1>3
    <3>2. /\ Inserted(list, n) \in Seq(Nodes) /\ IsSorted(Inserted(list, n), Before)
          /\ Range(Inserted(list, n)) = Range(list) \cup {n}
      BY <3>1, <1>3, InsertedIsSorted
    <3> QED BY <2>2, <3>2, <1>2, <1>3
  <2> QED BY <2>1, <2>2, <1>2
<1>5. dirs' = <<>>
  BY <1>1, <1>2 DEF hashdir
<1>6. Typed'
  BY <1>2, TypedNow DEF Typed, tasks, records, hashdir
<1>7. dirs' \in Seq(HashFrames')
  <2>1. \A S : <<>> \in Seq(S)
    OBVIOUS
  <2> QED BY <1>5, <2>1
<1>8. TypeOK'
  <2>1. /\ top' \in SearchPaths /\ disc' \in Discs /\ ignore' \in BOOLEAN
        /\ stack' \in Seq(Frames) /\ stack' # <<>>
        /\ visited' \subseteq Nodes /\ list' \in Seq(Nodes)
    BY <1>2, <1>4 DEF ShapeInv, TypeOK, disk, tasks
  <2> QED BY <2>1, <1>6, <1>7 DEF TypeOK, Typed, HashFrames
<1>9. ListSorted' /\ Descending(stack)'
  BY <1>2, <1>4 DEF ListSorted, ShapeInv, Descending, tasks
<1>10. HashingInProgress' /\ CallersWait' /\ ViewsShowChildren'
  BY <1>5 DEF HashingInProgress, CallersWait, ViewsShowChildren
<1> QED BY <1>4, <1>8, <1>9, <1>10 DEF ShapeInv

LEMMA EndOfWalkInv ==
  ASSUME ShapeInv, EndWalk \/ AbortWalk
  PROVE  ShapeInv'
<1>1. Working("dirtree") /\ stack' = Popped
      /\ UNCHANGED <<disk, made, walk, records, hashdir, set, result>>
  BY DEF EndWalk, AbortWalk
<1>2. "dirtree" \in Tasks \ {"hashing"}
  BY DEF Tasks
<1>3. dirs' = <<>>
  BY <1>1, <1>2, NoHashDir DEF hashdir
<1>4. Typed' /\ UNCHANGED <<disk, walk>>
  BY <1>1, TypedNow DEF Typed, records, hashdir
<1>5. Now.todo # <<>>
  BY <1>1 DEF Working, Busy
<1> QED BY <1>1, <1>3, <1>4, <1>5, PopStep

-----------------------------------------------------------------------------
(* The other fillers.                                                      *)

LEMMA GuessIsType ==
  \A t : GuessContentType(t) \in {"Empty", "Generic", "VideoCD", "VideoDVD"}
BY DEF GuessContentType

LEMMA FillersInv ==
  ASSUME ShapeInv, FillMime \/ FillBasic \/ FillMedia \/ FillContent \/ OpenMagic
  PROVE  ShapeInv'
<1>1. /\ stack' = Popped /\ UNCHANGED <<disk, made, walk, hash, valid, unreadable, hashdir, result>>
      /\ Working("mime") \/ Working("basic") \/ Working("media") \/ Working("content")
           \/ Busy("open")
  BY DEF FillMime, FillBasic, FillMedia, FillContent, OpenMagic, records
<1>2. {"mime", "basic", "media", "content"} \subseteq Tasks \ {"hashing"}
      /\ "open" \in Steps \ {"fill"}
  BY DEF Tasks, Steps
<1>3. dirs' = <<>>
  BY <1>1, <1>2, NoHashDir DEF hashdir
<1>4. Now.todo # <<>>
  BY <1>1 DEF Working, Busy
<1>5. mimed' \in [Nodes -> BOOLEAN]
  <2>1. mimed \in [Nodes -> BOOLEAN]
    BY TypedNow DEF Typed
  <2> QED BY <2>1 DEF FillMime, FillBasic, FillMedia, FillContent, OpenMagic, records
<1>6. set' \in [name : {"", "given"}, label : {"", "label"}, type : MediaTypes \cup {""},
                content : {"", "Empty", "Generic", "VideoCD", "VideoDVD"}]
  <2> DEFINE Sets == [name : {"", "given"}, label : {"", "label"}, type : MediaTypes \cup {""},
                      content : {"", "Empty", "Generic", "VideoCD", "VideoDVD"}]
  <2>1. set \in Sets
    BY TypedNow DEF Typed
  <2>2. CASE FillBasic
    BY <2>1, <2>2 DEF FillBasic
  <2>3. CASE FillMedia
    BY <2>1, <2>3 DEF FillMedia
  <2>4. CASE FillContent
    BY <2>1, <2>4, GuessIsType DEF FillContent
  <2>5. CASE FillMime \/ OpenMagic
    BY <2>1, <2>5 DEF FillMime, OpenMagic
  <2> QED BY <2>2, <2>3, <2>4, <2>5
<1>7. Typed'
  BY <1>1, <1>5, <1>6, TypedNow DEF Typed, hashdir
<1> QED BY <1>1, <1>3, <1>4, <1>7, PopStep

LEMMA EndsInv ==
  ASSUME ShapeInv, ReadError \/ NoMagic \/ NoDiscInfo \/ NoFirstRecord \/ AddToDb
  PROVE  ShapeInv'
<1>1. /\ UNCHANGED <<disk, tasks, walk, records, hashdir, set>>
      /\ result' \in {"stored", "present", "failed"}
  BY DEF ReadError, NoMagic, NoDiscInfo, NoFirstRecord, AddToDb, Fail
<1> QED BY <1>1, ResultStep

-----------------------------------------------------------------------------
(* Hashing.                                                                *)

LEMMA HashDirFacts ==
  ASSUME ShapeInv, NEW phase, InHashDir(phase)
  PROVE  /\ list \in Seq(Nodes) /\ IsSorted(list, Before)
         /\ DirsOK(dirs) /\ dirs # <<>>
         /\ Dir \in HashFrames /\ Shows(Dir)
         /\ Working("hashing") /\ list # <<>> /\ Head(list) \in Dirs
         /\ ~ DirAtEnd => Entry \in Nodes
<1>1. list \in Seq(Nodes) /\ IsSorted(list, Before)
  BY DEF ShapeInv, TypeOK, ListSorted
<1>2. DirsOK(dirs) /\ dirs # <<>> /\ Working("hashing")
  BY DirsOKEquiv DEF ShapeInv, TypeOK, HashFrames, InHashDir
<1>3. list # <<>> /\ Head(list) \in Dirs
  BY <1>2 DEF ShapeInv, HashingInProgress
<1>4. Dir \in HashFrames /\ Shows(Dir)
  BY <1>2, DirsFront DEF Dir
<1>5. ASSUME ~ DirAtEnd
      PROVE  Entry \in Nodes
  <2>1. Dir.at \in 1 .. Len(list)
    BY <1>4, <1>5 DEF DirAtEnd, AtEnd, HashFrames
  <2> QED BY <1>1, <2>1, ElementOfSeq DEF Entry
<1> QED BY <1>1, <1>2, <1>3, <1>4, <1>5

(* A call of hash_dir begins at a child of its directory.                  *)
LEMMA HashDirBegins ==
  ASSUME list \in Seq(Nodes), NEW d \in Dirs, NEW from \in 1 .. Len(list)
  PROVE  HashDir(d, from) \in HashFrames /\ Shows(HashDir(d, from))
<1> DEFINE b == ViewBegin(list, d, from)
<1>1. b \in from .. Len(list) + 1 /\ (~ AtEnd(list, d, b) => IsIn(list[b], d))
  <2>1. from \in 1 .. Len(list) + 1
    OBVIOUS
  <2> QED BY <2>1, ViewBeginFacts
<1>2. HashDir(d, from) = [dir |-> d, view |-> from, at |-> b, phase |-> "names"]
  BY DEF HashDir
<1> HIDE DEF b
<1>3. b \in 1 .. Len(list) + 1
  BY <1>1
<1> QED BY <1>1, <1>2, <1>3 DEF HashFrames, Shows

(* The iterator goes on to a child, from a file to a file.                 *)
LEMMA AdvancedFacts ==
  ASSUME list \in Seq(Nodes), IsSorted(list, Before),
         NEW f \in HashFrames, Shows(f), ~ AtEnd(list, f.dir, f.at)
  PROVE  Advanced(f) \in HashFrames /\ Shows(Advanced(f))
<1> DEFINE j == ViewNext(list, f.dir, f.at)
           g == Advanced(f)
<1>1. /\ f.at \in 1 .. Len(list) /\ Depth[list[f.at]] = Depth[f.dir] + 1
      /\ f.phase = "files" => list[f.at] \notin Dirs
  BY DEF HashFrames, AtEnd, Shows
<1>2. j \in f.at + 1 .. Len(list) + 1 /\ (~ AtEnd(list, f.dir, j) => IsIn(list[j], f.dir))
  BY <1>1, ViewNextFacts
<1>3. g = [f EXCEPT !.at = j]
  BY DEF Advanced
<1> HIDE DEF j, g
<1>4. g \in HashFrames /\ g.dir = f.dir /\ g.at = j /\ g.phase = f.phase
  <2>1. j \in 1 .. Len(list) + 1
    BY <1>1, <1>2
  <2> QED BY <1>3, <2>1 DEF HashFrames
<1>5. ASSUME ~ AtEnd(list, f.dir, j), f.phase = "files"
      PROVE  list[j] \notin Dirs
  <2>1. j \in 1 .. Len(list) /\ f.at < j /\ Depth[list[j]] = Depth[f.dir] + 1
    BY <1>1, <1>2, <1>5 DEF AtEnd
  <2> QED BY <1>1, <1>5, <2>1, FilesLast
<1>6. Shows(g)
  BY <1>2, <1>4, <1>5 DEF Shows
<1> QED BY <1>4, <1>6 DEF g

LEMMA TopAdvances ==
  ASSUME ShapeInv, NEW phase, InHashDir(phase), ~ DirAtEnd
  PROVE  DirsOK(Append(Front(dirs), Advanced(Dir)))
<1>1. /\ list \in Seq(Nodes) /\ IsSorted(list, Before)
      /\ DirsOK(dirs) /\ dirs # <<>> /\ Dir \in HashFrames /\ Shows(Dir)
  BY HashDirFacts
<1>2. Advanced(Dir) \in HashFrames /\ Shows(Advanced(Dir))
  BY <1>1, AdvancedFacts DEF DirAtEnd
<1>3. DirsOK(Front(dirs)) /\ (Front(dirs) # <<>> => Waits(Last(Front(dirs))))
  BY <1>1, DirsFront
<1> QED BY <1>2, <1>3, DirsPush

LEMMA DirsPrime ==
  ASSUME NEW ds, DirsOK(ds), dirs' = ds, list' = list
  PROVE  DirsOK(dirs)'
BY DEF DirsOK, Shows, Waits, HashFrames

LEMMA ReadFileFacts ==
  ASSUME Typed, NEW n \in Nodes, ReadFile(n)
  PROVE  /\ valid' \in [Nodes -> BOOLEAN] /\ unreadable' \in [Nodes -> BOOLEAN]
         /\ result' = result
BY DEF Typed, ReadFile

(* A single file, or nothing at all, is hashed.                            *)
LEMMA NoDirectoryInv ==
  ASSUME ShapeInv, NothingToHash \/ HashSingleFile
  PROVE  ShapeInv'
<1>1. list \in Seq(Nodes) /\ dirs = <<>> /\ Typed
  BY TypedNow DEF NothingToHash, HashSingleFile, ShapeInv, TypeOK, HashingInProgress
<1>2. stack' = Popped /\ dirs' = <<>> /\ UNCHANGED <<disk, walk>>
  BY <1>1 DEF NothingToHash, HashSingleFile, hashdir
<1>3. Now.todo # <<>>
  BY DEF NothingToHash, HashSingleFile, Working, Busy
<1>4. Typed'
  <2>1. CASE NothingToHash
    BY <1>1, <2>1 DEF NothingToHash, Typed, records, hashdir
  <2>2. CASE HashSingleFile
    <3>1. Head(list) \in Nodes
      BY <1>1, <2>2, HeadTailProperties DEF HashSingleFile
    <3>2. /\ valid' \in [Nodes -> BOOLEAN] /\ unreadable' \in [Nodes -> BOOLEAN]
          /\ result' = result
      BY <1>1, <2>2, <3>1, ReadFileFacts DEF HashSingleFile
    <3>3. DOMAIN hash' = Nodes
      BY <1>1, <2>2 DEF HashSingleFile, Typed
    <3> QED BY <1>1, <2>2, <3>2, <3>3 DEF HashSingleFile, Typed, hashdir
  <2> QED BY <2>1, <2>2
<1> QED BY <1>2, <1>3, <1>4, PopStep

LEMMA HashTopInv ==
  ASSUME ShapeInv, HashTop
  PROVE  ShapeInv'
<1> DEFINE f == HashDir(Head(list), 1)
<1>1. list \in Seq(Nodes) /\ list # <<>> /\ Head(list) \in Dirs /\ Working("hashing")
  BY DEF ShapeInv, TypeOK, HashTop
<1>2. 1 \in 1 .. Len(list)
  BY <1>1, EmptySeq, LenProperties
<1>3. f \in HashFrames /\ Shows(f)
  BY <1>1, <1>2, HashDirBegins
<1> HIDE DEF f
<1>4. DirsOK(<<f>>)
  BY <1>3 DEF DirsOK
<1>5. dirs' = <<f>> /\ UNCHANGED <<disk, tasks, walk, records, set, result>>
  BY DEF HashTop, f
<1>6. DirsOK(dirs)'
  BY <1>4, <1>5, DirsPrime DEF walk
<1>7. Typed'
  <2>1. DOMAIN blob' = Dirs
    BY TypedNow DEF Typed, HashTop
  <2> QED BY <1>5, <2>1, TypedNow DEF Typed, tasks, records
<1> QED BY <1>1, <1>5, <1>6, <1>7, HashStep

LEMMA NamesInv ==
  ASSUME ShapeInv, NoteFileName \/ Descend
  PROVE  ShapeInv'
<1>1. InHashDir("names") /\ ~ DirAtEnd /\ UNCHANGED <<disk, tasks, walk, records, set, result>>
  BY DEF NoteFileName, Descend
<1>2. /\ list \in Seq(Nodes) /\ DirsOK(dirs) /\ dirs # <<>> /\ Dir \in HashFrames
      /\ Working("hashing") /\ list # <<>> /\ Head(list) \in Dirs
  BY <1>1, HashDirFacts
<1>3. DirsOK(dirs)'
  <2>1. CASE NoteFileName
    <3>1. DirsOK(Append(Front(dirs), Advanced(Dir)))
      BY <1>1, TopAdvances
    <3> QED BY <2>1, <3>1, <1>1, DirsPrime DEF NoteFileName, walk
  <2>2. CASE Descend
    <3>1. Dir.at \in 1 .. Len(list)
      BY <1>1, <1>2 DEF DirAtEnd, AtEnd, HashFrames
    <3>2. HashDir(Entry, Dir.at) \in HashFrames /\ Shows(HashDir(Entry, Dir.at))
      BY <2>2, <3>1, <1>2, HashDirBegins DEF Descend
    <3>3. Waits(Last(dirs))
      BY <1>1 DEF InHashDir, Dir, DirAtEnd, Waits
    <3>4. DirsOK(Append(dirs, HashDir(Entry, Dir.at)))
      BY <1>2, <3>2, <3>3, DirsPush
    <3> QED BY <2>2, <3>4, <1>1, DirsPrime DEF Descend, walk
  <2> QED BY <2>1, <2>2
<1>4. Typed'
  <2>1. DOMAIN blob' = Dirs
    BY TypedNow DEF Typed, NoteFileName, Descend
  <2> QED BY <1>1, <2>1, TypedNow DEF Typed, tasks, records
<1> QED BY <1>1, <1>2, <1>3, <1>4, HashStep

LEMMA HashNamesInv ==
  ASSUME ShapeInv, HashNames
  PROVE  ShapeInv'
<1> DEFINE at == FirstFile(list, Dir.dir, Dir.view)
           f == [Dir EXCEPT !.phase = "files", !.at = at]
<1>1. /\ InHashDir("names") /\ dirs' = Append(Front(dirs), f)
      /\ UNCHANGED <<disk, tasks, walk, valid, unreadable, mimed, blob, set, result>>
  BY DEF HashNames
<1>2. /\ list \in Seq(Nodes) /\ DirsOK(dirs) /\ dirs # <<>> /\ Dir \in HashFrames
      /\ Working("hashing") /\ list # <<>> /\ Head(list) \in Dirs
  BY <1>1, HashDirFacts
<1>3. /\ at \in 1 .. Len(list) + 1
      /\ ~ AtEnd(list, Dir.dir, at) => IsIn(list[at], Dir.dir) /\ list[at] \notin Dirs
  <2>1. Dir.view \in 1 .. Len(list) + 1
    BY <1>2 DEF HashFrames
  <2>2. /\ at \in Dir.view .. Len(list) + 1
        /\ ~ AtEnd(list, Dir.dir, at) => IsIn(list[at], Dir.dir) /\ list[at] \notin Dirs
    BY <1>2, <2>1, FirstFileFacts
  <2> HIDE DEF at
  <2>3. at \in 1 .. Len(list) + 1
    BY <2>1, <2>2
  <2> QED BY <2>2, <2>3
<1> HIDE DEF at
<1>4. f \in HashFrames /\ f.dir = Dir.dir /\ f.at = at
  BY <1>2, <1>3 DEF HashFrames
<1>5. Shows(f)
  BY <1>3, <1>4 DEF Shows
<1> HIDE DEF f
<1>6. DirsOK(Append(Front(dirs), f))
  <2>1. DirsOK(Front(dirs)) /\ (Front(dirs) # <<>> => Waits(Last(Front(dirs))))
    BY <1>2, DirsFront
  <2> QED BY <2>1, <1>4, <1>5, DirsPush
<1>7. DirsOK(dirs)'
  BY <1>1, <1>6, DirsPrime DEF walk
<1>8. Typed'
  <2>1. DOMAIN hash' = Nodes
    BY TypedNow DEF Typed, HashNames
  <2> QED BY <1>1, <2>1, TypedNow DEF Typed, tasks
<1> QED BY <1>1, <1>2, <1>7, <1>8, HashStep

LEMMA HashFileInv ==
  ASSUME ShapeInv, HashFile
  PROVE  ShapeInv'
<1>1. /\ InHashDir("files") /\ ~ DirAtEnd /\ ReadFile(Entry)
      /\ dirs' = Append(Front(dirs), Advanced(Dir))
      /\ UNCHANGED <<disk, tasks, walk, mimed, blob, set>>
  BY DEF HashFile
<1>2. /\ Working("hashing") /\ list # <<>> /\ Head(list) \in Dirs /\ Entry \in Nodes
  BY <1>1, HashDirFacts
<1>3. DirsOK(dirs)'
  <2>1. DirsOK(Append(Front(dirs), Advanced(Dir)))
    BY <1>1, TopAdvances
  <2> QED BY <2>1, <1>1, DirsPrime DEF walk
<1>4. Typed'
  <2>1. /\ valid' \in [Nodes -> BOOLEAN] /\ unreadable' \in [Nodes -> BOOLEAN]
        /\ result' = result
    BY <1>1, <1>2, TypedNow, ReadFileFacts
  <2>2. DOMAIN hash' = Nodes
    BY TypedNow DEF Typed, HashFile
  <2> QED BY <1>1, <2>1, <2>2, TypedNow DEF Typed, tasks
<1> QED BY <1>1, <1>2, <1>3, <1>4, HashStep

(* hash_dir returns: to the hashing task from the first directory, to the  *)
(* loop over names of the directory above from another.                    *)
LEMMA EndDirInv ==
  ASSUME ShapeInv, EndDir
  PROVE  ShapeInv'
<1>1. /\ InHashDir("files") /\ valid' = [valid EXCEPT ![Dir.dir] = TRUE]
      /\ UNCHANGED <<disk, made, walk, hash, unreadable, mimed, set, result>>
  BY DEF EndDir
<1>2. /\ list \in Seq(Nodes) /\ IsSorted(list, Before) /\ DirsOK(dirs) /\ dirs # <<>>
      /\ Working("hashing") /\ list # <<>> /\ Head(list) \in Dirs
  BY <1>1, HashDirFacts
<1>3. valid' \in [Nodes -> BOOLEAN]
  BY <1>1, TypedNow DEF Typed
<1>4. CASE Len(dirs) = 1
  <2>1. dirs' = <<>> /\ stack' = Popped /\ UNCHANGED blob
    BY <1>4 DEF EndDir
  <2>2. Typed'
    BY <1>1, <1>3, <2>1, TypedNow DEF Typed
  <2>3. Now.todo # <<>>
    BY <1>2 DEF Working, Busy
  <2> QED BY <1>1, <2>1, <2>2, <2>3, PopStep
<1>5. CASE Len(dirs) > 1
  <2> DEFINE above == Front(dirs)
             f == Last(above)
  <2>1. /\ dirs' = Append(Front(above), Advanced(f)) /\ UNCHANGED stack
        /\ DOMAIN blob' = DOMAIN blob
    <3>1. /\ dirs' = Append(Front(above), Advanced(f))
          /\ blob' = [blob EXCEPT ![f.dir] = @ \o <<hash[Dir.dir]>> \o Letters(Name[Dir.dir])]
          /\ UNCHANGED stack
      <4>1. Len(dirs) # 1
        <5>1. Len(dirs) \in Nat
          BY <1>2, LenProperties DEF DirsOK
        <5>2. \A l \in Nat : l > 1 => l # 1
          OBVIOUS
        <5> QED BY <1>5, <5>1, <5>2
      <4> QED BY <4>1, Zenon DEF EndDir
    <3>2. DOMAIN blob' = DOMAIN blob
      BY <3>1
    <3> QED BY <3>1, <3>2
  <2>2. DirsOK(above) /\ above # <<>>
    <3>1. Len(above) = Len(dirs) - 1 /\ Len(dirs) \in Nat
      BY <1>2, StackFacts DEF DirsOK
    <3> QED BY <1>2, <1>5, <3>1, DirsFront
  <2>3. f \in HashFrames /\ Shows(f) /\ Waits(f)
    BY <1>2, <2>2, DirsFront
  <2>4. DirsOK(Front(above)) /\ (Front(above) # <<>> => Waits(Last(Front(above))))
    BY <2>2, DirsFront
  <2> HIDE DEF above, f
  <2>5. Advanced(f) \in HashFrames /\ Shows(Advanced(f))
    BY <1>2, <2>3, AdvancedFacts DEF Waits
  <2>6. DirsOK(Append(Front(above), Advanced(f)))
    BY <2>4, <2>5, DirsPush
  <2>7. DirsOK(dirs)'
    BY <1>1, <2>1, <2>6, DirsPrime DEF walk
  <2>8. Typed'
    BY <1>1, <1>3, <2>1, TypedNow DEF Typed
  <2> QED BY <1>1, <1>2, <2>1, <2>7, <2>8, HashStep DEF tasks
<1> QED BY <1>4, <1>5 DEF EndDir

-----------------------------------------------------------------------------

LEMMA InitInv == Init => ShapeInv
<1> SUFFICES ASSUME Init PROVE ShapeInv
  OBVIOUS
<1>1. PICK todo \in {<<"files", "set">>, <<"set", "files">>} :
        stack = <<[task |-> "main", todo |-> todo]>>
  BY DEF Init
<1>2. /\ todo \in Seq(Steps) /\ DOMAIN todo = 1 .. 2
      /\ \A k \in 1 .. 2 : todo[k] \in {"files", "set"}
  <2>1. "files" \in Steps /\ "set" \in Steps
    BY DEF Steps, Tasks
  <2>2. CASE todo = <<"files", "set">>
    BY <2>1, <2>2
  <2>3. CASE todo = <<"set", "files">>
    BY <2>1, <2>3
  <2> QED BY <2>2, <2>3
<1>3. stack \in Seq(Frames) /\ stack # <<>>
  BY <1>1, <1>2 DEF Frames, Steps
<1>4. Descending(stack)
  <2>1. DOMAIN stack = {1} /\ stack[1].task = "main" /\ stack[1].todo = todo
    BY <1>1
  <2>2. \A k \in 1 .. 2 : Tier(todo[k]) < Tier("main")
    BY <1>2 DEF Tier
  <2> QED BY <1>2, <2>1, <2>2 DEF Descending
<1>5. dirs = <<>> /\ list = <<>> /\ visited = {}
  BY DEF Init
<1>6. TypeOK
  <2>1. \A S : <<>> \in Seq(S)
    OBVIOUS
  <2>2. list \in Seq(Nodes) /\ dirs \in Seq(HashFrames)
    BY <2>1, <1>5
  <2>3. /\ DOMAIN hash = Nodes /\ DOMAIN blob = Dirs /\ made = {}
        /\ valid \in [Nodes -> BOOLEAN] /\ unreadable \in [Nodes -> BOOLEAN]
        /\ mimed \in [Nodes -> BOOLEAN]
    BY DEF Init
  <2>4. /\ set \in [name : {"", "given"}, label : {"", "label"}, type : MediaTypes \cup {""},
                    content : {"", "Empty", "Generic", "VideoCD", "VideoDVD"}]
        /\ top \in SearchPaths /\ disc \in Discs /\ ignore \in BOOLEAN
        /\ result = "running"
    BY DEF Init
  <2> QED BY <1>3, <1>5, <2>2, <2>3, <2>4 DEF TypeOK, HashFrames
<1>7. ListSorted /\ Range(list) \subseteq visited
  BY <1>5 DEF ListSorted, IsSorted, Range
<1>8. HashingInProgress /\ CallersWait /\ ViewsShowChildren
  BY <1>5 DEF HashingInProgress, CallersWait, ViewsShowChildren
<1> QED BY <1>4, <1>6, <1>7, <1>8 DEF ShapeInv

LEMMA NextInv == ShapeInv /\ [Next]_vars => ShapeInv'
<1> SUFFICES ASSUME ShapeInv, [Next]_vars PROVE ShapeInv'
  OBVIOUS
<1>1. ASSUME NEW t \in Tasks, Call(t) PROVE ShapeInv'
  BY <1>1, CallInv
<1>2. CASE Return
  BY <1>2, ReturnInv
<1>3. ASSUME NEW n \in Nodes, Visit(n) PROVE ShapeInv'
  BY <1>3, VisitInv
<1>4. CASE EndWalk \/ AbortWalk
  BY <1>4, EndOfWalkInv
<1>5. CASE NothingToHash \/ HashSingleFile
  BY <1>5, NoDirectoryInv
<1>6. CASE HashTop
  BY <1>6, HashTopInv
<1>7. CASE NoteFileName \/ Descend
  BY <1>7, NamesInv
<1>8. CASE HashNames
  BY <1>8, HashNamesInv
<1>9. CASE HashFile
  BY <1>9, HashFileInv
<1>10. CASE EndDir
  BY <1>10, EndDirInv
<1>11. CASE FillMime \/ FillBasic \/ FillMedia \/ FillContent \/ OpenMagic
  BY <1>11, FillersInv
<1>12. CASE ReadError \/ NoMagic \/ NoDiscInfo \/ NoFirstRecord \/ AddToDb
  BY <1>12, EndsInv
<1>13. CASE UNCHANGED vars
  <2> USE <1>13 DEF vars, disk, tasks, walk, records, hashdir
  <2>1. TypeOK'
    BY DEF ShapeInv, TypeOK
  <2>2. ListSorted' /\ (Range(list) \subseteq visited)' /\ Descending(stack)'
    BY DEF ShapeInv, ListSorted, Descending
  <2>3. HashingInProgress'
    BY DEF ShapeInv, HashingInProgress, Now
  <2>4. CallersWait' /\ ViewsShowChildren'
    BY DEF ShapeInv, CallersWait, ViewsShowChildren
  <2> QED BY <2>1, <2>2, <2>3, <2>4 DEF ShapeInv
<1> QED BY <1>1, <1>2, <1>3, <1>4, <1>5, <1>6, <1>7, <1>8, <1>9, <1>10, <1>11, <1>12, <1>13
        DEF Next

(* List, stack and calls of hash_dir belong together in every state.       *)
THEOREM ShapeInvariant == Spec => []ShapeInv
BY InitInv, NextInv, PTL DEF Spec

(* The variables keep their types (include/dindexer-machinery and          *)
(* lib/machinery): in particular no iterator of hash_dir leaves the list.  *)
THEOREM ScanTypes == Spec => []TypeOK
<1>1. ShapeInv => TypeOK
  BY DEF ShapeInv
<1> QED BY ShapeInvariant, <1>1, PTL

(* Whatever order nftw reports the entries of a disc in, the list that     *)
(* DirTree keeps is sorted by file_record_data_lt, without duplicates.     *)
THEOREM ListAlwaysSorted == Spec => []ListSorted
<1>1. ShapeInv => ListSorted
  BY DEF ShapeInv
<1> QED BY ShapeInvariant, <1>1, PTL

(* No task's get_or_create is entered again while it is under way, in      *)
(* whichever order add_to_db's arguments are evaluated.                    *)
THEOREM TasksNeverReenter == Spec => []TasksDoNotReenter
<1>1. ShapeInv => TasksDoNotReenter
  <2> SUFFICES ASSUME ShapeInv, NEW i \in DOMAIN stack, NEW j \in DOMAIN stack, i # j
               PROVE  stack[i].task # stack[j].task
    BY DEF TasksDoNotReenter
  <2>1. stack \in Seq(Frames) /\ Descending(stack)
    BY DEF ShapeInv, TypeOK
  <2>2. i \in Int /\ j \in Int
    BY <2>1, LenProperties
  <2>3. Tier(stack[i].task) \in Nat /\ Tier(stack[j].task) \in Nat
    BY TierIsNat
  <2>4. Tier(stack[i].task) # Tier(stack[j].task)
    <3>1. CASE i < j
      BY <2>1, <2>3, <3>1 DEF Descending
    <3>2. CASE j < i
      BY <2>1, <2>3, <3>2 DEF Descending
    <3> QED BY <2>2, <3>1, <3>2
  <2> QED BY <2>4
<1> QED BY ShapeInvariant, <1>1, PTL

(* hash_dir hashes only what is in its directory: what an iterator of a    *)
(* view points at is a child of the view's directory, and no directory in  *)
(* the loop over files.                                                    *)
THEOREM ViewsAlwaysShowChildren == Spec => []ViewsShowChildren
<1>1. ShapeInv => ViewsShowChildren
  BY DEF ShapeInv
<1> QED BY ShapeInvariant, <1>1, PTL

-----------------------------------------------------------------------------
(* The order of tasks.                                                     *)

LEMMA TailFacts ==
  ASSUME NEW S, NEW s \in Seq(S), s # <<>>
  PROVE  /\ Tail(s) \in Seq(S) /\ DOMAIN s = 1 .. Len(s) /\ Len(s) \in Nat \ {0}
         /\ DOMAIN Tail(s) = 1 .. Len(s) - 1
         /\ Head(s) = s[1]
         /\ \A j \in 1 .. Len(s) - 1 : Tail(s)[j] = s[j + 1]
         /\ Range(s) = {Head(s)} \cup Range(Tail(s))
<1>1. /\ Tail(s) \in Seq(S) /\ DOMAIN s = 1 .. Len(s) /\ Len(s) \in Nat \ {0}
      /\ Len(Tail(s)) = Len(s) - 1
      /\ Head(s) = s[1]
      /\ \A j \in 1 .. Len(s) - 1 : Tail(s)[j] = s[j + 1]
  BY HeadTailProperties, EmptySeq, LenProperties
<1>2. DOMAIN Tail(s) = 1 .. Len(s) - 1
  BY <1>1, LenProperties
<1>3. Range(s) = {Head(s)} \cup Range(Tail(s))
  <2>1. ASSUME NEW e \in Range(s), e # Head(s) PROVE e \in Range(Tail(s))
    <3>1. PICK j \in 1 .. Len(s) : e = s[j]
      BY <2>1, <1>1 DEF Range
    <3>2. j - 1 \in 1 .. Len(s) - 1 /\ (j - 1) + 1 = j
      BY <2>1, <3>1, <1>1
    <3> QED BY <3>1, <3>2, <1>1, <1>2 DEF Range
  <2>2. ASSUME NEW e \in Range(Tail(s)) PROVE e \in Range(s)
    <3>1. PICK j \in 1 .. Len(s) - 1 : e = Tail(s)[j]
      BY <1>2 DEF Range
    <3>2. j + 1 \in 1 .. Len(s)
      BY <1>1
    <3> QED BY <3>1, <3>2, <1>1 DEF Range
  <2>3. Head(s) \in Range(s)
    BY <1>1 DEF Range
  <2> QED BY <2>1, <2>2, <2>3
<1> QED BY <1>1, <1>2, <1>3

LEMMA PoppedIs ==
  ASSUME TypeOK, Now.todo # <<>>
  PROVE  /\ stack \in Seq(Frames) /\ Len(stack) \in Nat \ {0} /\ Now = stack[Len(stack)]
         /\ Now.todo \in Seq(Steps)
         /\ Popped \in Seq(Frames) /\ Len(Popped) = Len(stack)
         /\ DOMAIN stack = 1 .. Len(stack) /\ DOMAIN Popped = 1 .. Len(stack)
         /\ \A i \in 1 .. Len(stack) : i # Len(stack) => Popped[i] = stack[i]
         /\ Popped[Len(stack)].task = Now.task /\ Popped[Len(stack)].todo = Tail(Now.todo)
         /\ Len(stack) \in 1 .. Len(stack)
<1> DEFINE e == [Now EXCEPT !.todo = Tail(@)]
           r == Append(Front(stack), e)
<1>1. /\ stack \in Seq(Frames) /\ stack # <<>> /\ Len(stack) \in Nat \ {0}
      /\ Now = stack[Len(stack)] /\ Now \in Frames
  BY StackFacts DEF TypeOK, Now
<1>2. Now.todo \in Seq(Steps)
  BY <1>1 DEF Frames, Steps
<1>3. Tail(Now.todo) \in Seq(Steps)
  BY <1>2, TailFacts
<1>4. e \in Frames /\ e.task = Now.task /\ e.todo = Tail(Now.todo)
  BY <1>1, <1>3 DEF Frames, Steps
<1> HIDE DEF e
<1>5. /\ r \in Seq(Frames) /\ Len(r) = Len(stack)
      /\ \A i \in 1 .. Len(stack) : r[i] = IF i = Len(stack) THEN e ELSE stack[i]
  BY <1>1, <1>4, ReplaceTop
<1>6. Popped = r
  BY DEF Popped, e
<1> HIDE DEF r
<1>7. DOMAIN stack = 1 .. Len(stack) /\ DOMAIN r = 1 .. Len(stack)
  BY <1>1, <1>5, LenProperties
<1>8. Len(stack) \in 1 .. Len(stack)
  <2>1. \A l \in Nat \ {0} : l \in 1 .. l
    OBVIOUS
  <2> QED BY <1>1, <2>1
<1> QED BY <1>1, <1>2, <1>4, <1>5, <1>6, <1>7, <1>8

(* What a step takes from the top frame is all that is lost.               *)
LEMMA PoppedAwaits ==
  ASSUME TypeOK, Now.todo # <<>>
  PROVE  /\ \A s : Awaits(stack, s) => s = Head(Now.todo) \/ Awaits(Popped, s)
         /\ \A t : Filling(Popped, t) => Filling(stack, t)
         /\ \A t : Filling(stack, t) =>
              (t = Now.task /\ Head(Now.todo) = "fill") \/ Filling(Popped, t)
<1>1. /\ Len(stack) \in Nat \ {0} /\ Now = stack[Len(stack)]
      /\ DOMAIN stack = 1 .. Len(stack) /\ DOMAIN Popped = 1 .. Len(stack)
      /\ \A i \in 1 .. Len(stack) : i # Len(stack) => Popped[i] = stack[i]
      /\ Popped[Len(stack)].task = Now.task /\ Popped[Len(stack)].todo = Tail(Now.todo)
      /\ Len(stack) \in 1 .. Len(stack)
  BY PoppedIs
<1>2. Range(Now.todo) = {Head(Now.todo)} \cup Range(Tail(Now.todo))
  <2>1. Now.todo \in Seq(Steps)
    BY PoppedIs
  <2> QED BY <2>1, TailFacts
<1>3. ASSUME NEW s, Awaits(stack, s), s # Head(Now.todo)
      PROVE  Awaits(Popped, s)
  <2>1. PICK i \in 1 .. Len(stack) : s \in Range(stack[i].todo)
    BY <1>1, <1>3 DEF Awaits
  <2>2. s \in Range(Popped[i].todo)
    BY <1>1, <1>2, <1>3, <2>1
  <2> QED BY <1>1, <2>1, <2>2 DEF Awaits
<1>4. ASSUME NEW t, Filling(Popped, t)
      PROVE  Filling(stack, t)
  <2>1. PICK i \in 1 .. Len(stack) : Popped[i].task = t /\ "fill" \in Range(Popped[i].todo)
    BY <1>1, <1>4 DEF Filling
  <2>2. stack[i].task = t /\ "fill" \in Range(stack[i].todo)
    BY <1>1, <1>2, <2>1
  <2> QED BY <1>1, <2>1, <2>2 DEF Filling
<1>5. ASSUME NEW t, Filling(stack, t), ~ (t = Now.task /\ Head(Now.todo) = "fill")
      PROVE  Filling(Popped, t)
  <2>1. PICK i \in 1 .. Len(stack) : stack[i].task = t /\ "fill" \in Range(stack[i].todo)
    BY <1>1, <1>5 DEF Filling
  <2>2. Popped[i].task = t /\ "fill" \in Range(Popped[i].todo)
    BY <1>1, <1>2, <1>5, <2>1
  <2> QED BY <1>1, <2>1, <2>2 DEF Filling
<1> QED BY <1>3, <1>4, <1>5

LEMMA PoppedPrepared ==
  ASSUME TypeOK, Now.todo # <<>>, \A i \in DOMAIN stack : Prepared(stack[i], made),
         NEW m, made \subseteq m, Head(Now.todo) \in Tasks => Head(Now.todo) \in m
  PROVE  \A i \in DOMAIN Popped : Prepared(Popped[i], m)
<1> DEFINE todo == Now.todo
           f == Popped[Len(stack)]
<1>1. /\ Len(stack) \in Nat \ {0} /\ Now = stack[Len(stack)]
      /\ DOMAIN stack = 1 .. Len(stack) /\ DOMAIN Popped = 1 .. Len(stack)
      /\ \A i \in 1 .. Len(stack) : i # Len(stack) => Popped[i] = stack[i]
      /\ f.task = Now.task /\ f.todo = Tail(todo)
      /\ todo \in Seq(Steps) /\ Len(stack) \in 1 .. Len(stack)
  BY PoppedIs
<1> HIDE DEF f, todo
<1>3. ASSUME NEW i \in 1 .. Len(stack), i # Len(stack)
      PROVE  Prepared(Popped[i], m)
  <2>1. Prepared(stack[i], made) /\ Popped[i] = stack[i]
    BY <1>1, <1>3
  <2> QED BY <2>1 DEF Prepared
<1>4. Prepared(f, m)
  <2>1. /\ DOMAIN todo = 1 .. Len(todo) /\ Len(todo) \in Nat \ {0}
        /\ DOMAIN Tail(todo) = 1 .. Len(todo) - 1
        /\ Head(todo) = todo[1]
        /\ \A j \in 1 .. Len(todo) - 1 : Tail(todo)[j] = todo[j + 1]
    BY <1>1, TailFacts DEF todo
  <2> SUFFICES ASSUME NEW j \in DOMAIN f.todo, f.todo[j] = "fill",
                      NEW u \in Needs(f.task), u \notin m
               PROVE  \E k \in 1 .. j - 1 : f.todo[k] = u
    BY DEF Prepared
  <2>2. j \in 1 .. Len(todo) - 1 /\ j + 1 \in 1 .. Len(todo) /\ todo[j + 1] = "fill"
    <3>1. j \in 1 .. Len(todo) - 1 /\ Tail(todo)[j] = "fill"
      BY <1>1, <2>1
    <3>2. j + 1 \in 1 .. Len(todo)
      BY <2>1, <3>1
    <3> QED BY <2>1, <3>1, <3>2
  <2>3. Prepared(Now, made)
    BY <1>1
  <2>4. PICK k \in 1 .. (j + 1) - 1 : todo[k] = u
    <3>1. u \in Needs(Now.task) /\ u \notin made
      BY <1>1
    <3>2. j + 1 \in DOMAIN todo
      BY <2>1, <2>2
    <3> QED BY <2>2, <2>3, <3>1, <3>2 DEF Prepared, todo
  <2>5. k # 1
    BY <2>1, <2>4 DEF Needs, todo
  <2>6. k - 1 \in 1 .. j - 1 /\ k - 1 \in 1 .. Len(todo) - 1 /\ (k - 1) + 1 = k
    BY <2>1, <2>2, <2>4, <2>5
  <2> QED BY <1>1, <2>1, <2>4, <2>6
<1> QED BY <1>1, <1>3, <1>4 DEF f

(* The last thing a filler asks for is its own work.                       *)
LEMMA ProgramFills ==
  ASSUME NEW t \in Tasks
  PROVE  /\ \A k \in 1 .. Len(Fill(t)) : Fill(t)[k] = "fill" => k = Len(Fill(t))
         /\ \A k \in 1 .. Len(Get(t)) : Get(t)[k] # "fill"
         /\ t \in Fillers => Len(Fill(t)) > 0 /\ Fill(t)[Len(Fill(t))] = "fill"
         /\ t \in Fillers => Needs(t) \subseteq Fillers
<1>1. CASE t = "files"
  BY <1>1 DEF Fill, Get, Tasks, Fillers
<1>2. CASE t = "set"
  BY <1>2 DEF Fill, Get, Tasks, Fillers
<1>3. CASE t = "mime"
  BY <1>3 DEF Fill, Get, Tasks, Fillers, Needs, Range
<1>4. CASE t = "hashing"
  BY <1>4 DEF Fill, Get, Tasks, Fillers, Needs, Range
<1>5. CASE t = "media"
  BY <1>5 DEF Fill, Get, Tasks, Fillers, Needs, Range
<1>6. CASE t = "content"
  BY <1>6 DEF Fill, Get, Tasks, Fillers, Needs, Range
<1>7. CASE t \in {"dirtree", "basic"}
  BY <1>7 DEF Fill, Get, Tasks, Fillers, Needs, Range
<1> QED BY <1>1, <1>2, <1>3, <1>4, <1>5, <1>6, <1>7 DEF Tasks

LEMMA FrameFills ==
  ASSUME NEW t \in Tasks
  PROVE  /\ t \in made => "fill" \notin Range(Frame(t).todo)
         /\ t \notin made => \A u \in Needs(t) : u \in Range(Frame(t).todo)
         /\ t \notin made /\ t \in Fillers => "fill" \in Range(Frame(t).todo)
         /\ \A m : Prepared(Frame(t), m)
<1> DEFINE all == Fill(t) \o Get(t)
           n == Len(Fill(t))
<1>1. /\ Fill(t) \in Seq(Steps) /\ Get(t) \in Seq(Steps)
      /\ n \in Nat /\ Len(Get(t)) \in Nat
      /\ DOMAIN Fill(t) = 1 .. n /\ DOMAIN Get(t) = 1 .. Len(Get(t))
  BY ProgramDescends, LenProperties
<1>2. /\ all \in Seq(Steps) /\ Len(all) = n + Len(Get(t))
      /\ \A k \in 1 .. Len(all) :
           all[k] = IF k <= n THEN Fill(t)[k] ELSE Get(t)[k - n]
  BY <1>1, ConcatProperties
<1>3. DOMAIN all = 1 .. n + Len(Get(t))
  BY <1>2, LenProperties
<1>4. /\ \A k \in 1 .. n : Fill(t)[k] = "fill" => k = n
      /\ \A k \in 1 .. Len(Get(t)) : Get(t)[k] # "fill"
      /\ t \in Fillers => n > 0 /\ Fill(t)[n] = "fill"
  BY ProgramFills
<1>5. Frame(t).task = t /\ Frame(t).todo = IF t \in made THEN Get(t) ELSE all
  BY DEF Frame
<1> HIDE DEF all, n
<1>6. \A k \in 1 .. n : k \in DOMAIN all /\ all[k] = Fill(t)[k]
  BY <1>1, <1>2, <1>3
<1>7. \A u \in Needs(t) : \E k \in 1 .. n : all[k] = u /\ Fill(t)[k] = u
  BY <1>1, <1>6 DEF Needs, Range
<1>8. ASSUME NEW k \in DOMAIN all, all[k] = "fill"
      PROVE  k = n
  <2>1. CASE k <= n
    BY <2>1, <1>1, <1>3, <1>4, <1>6, <1>8
  <2>2. CASE k > n
    <3>1. k - n \in 1 .. Len(Get(t)) /\ all[k] = Get(t)[k - n]
      BY <2>2, <1>1, <1>2, <1>3
    <3> QED BY <3>1, <1>4, <1>8
  <2> QED BY <2>1, <2>2, <1>1, <1>3
<1>9. \A m : Prepared(Frame(t), m)
  <2> SUFFICES ASSUME NEW j \in DOMAIN Frame(t).todo, Frame(t).todo[j] = "fill",
                      NEW u \in Needs(t)
               PROVE  \E k \in 1 .. j - 1 : Frame(t).todo[k] = u
    BY <1>5 DEF Prepared
  <2>1. t \notin made /\ Frame(t).todo = all /\ j = n
    BY <1>1, <1>4, <1>5, <1>8
  <2>2. PICK k \in 1 .. n : all[k] = u
    BY <1>7
  <2>3. u # "fill"
    BY DEF Needs, Tasks
  <2>4. k \in 1 .. j - 1
    BY <2>1, <2>2, <2>3, <1>1
  <2> QED BY <2>1, <2>2, <2>4
<1> QED BY <1>1, <1>4, <1>5, <1>6, <1>7, <1>9 DEF Range

(* A task that is at its own work is not filled, and what it needs is.     *)
LEMMA NeedsFilled ==
  ASSUME ShapeInv, TasksInv, NEW t \in Tasks, Working(t)
  PROVE  ~ Filled(t) /\ \A u \in Needs(t) : Filled(u)
<1>1. TypeOK /\ Descending(stack) /\ Now.todo # <<>> /\ Head(Now.todo) = "fill" /\ Now.task = t
  BY DEF ShapeInv, Working, Busy
<1>2. /\ Len(stack) \in Nat \ {0} /\ Now = stack[Len(stack)] /\ Now.todo \in Seq(Steps)
      /\ DOMAIN stack = 1 .. Len(stack) /\ Len(stack) \in 1 .. Len(stack)
  BY <1>1, PoppedIs
<1>3. 1 \in DOMAIN Now.todo /\ Now.todo[1] = "fill"
  BY <1>1, <1>2, TailFacts
<1>4. ~ Filled(t)
  BY <1>1, <1>2, <1>3 DEF Filled, Filling, Range
<1>5. ASSUME NEW u \in Needs(t)
      PROVE  Filled(u)
  <2>1. u \in made
    <3>1. Prepared(Now, made)
      BY <1>2 DEF TasksInv
    <3>2. ~ \E k \in 1 .. 1 - 1 : Now.todo[k] = u
      OBVIOUS
    <3> QED BY <1>1, <1>3, <3>1, <3>2 DEF Prepared
  <2>2. Tier(u) < Tier(t)
    <3>1. PICK k \in DOMAIN Fill(t) : Fill(t)[k] = u /\ u \in Tasks
      BY DEF Needs, Range
    <3>2. DOMAIN Fill(t) = 1 .. Len(Fill(t))
      BY ProgramDescends, LenProperties
    <3> QED BY <3>1, <3>2, ProgramDescends
  <2>3. ASSUME NEW i \in 1 .. Len(stack), stack[i].task = u
        PROVE  FALSE
    <3>1. Tier(u) \in Nat /\ Tier(t) \in Nat
      BY TierIsNat
    <3>2. i # Len(stack)
      <4> SUFFICES ASSUME i = Len(stack) PROVE FALSE
        OBVIOUS
      <4>1. u = t
        BY <1>1, <1>2, <2>3
      <4> QED BY <2>2, <3>1, <4>1
    <3>3. i < Len(stack)
      <4>1. \A l \in Nat : \A j \in 1 .. l : j # l => j < l
        OBVIOUS
      <4> QED BY <1>2, <3>2, <4>1
    <3>4. Tier(stack[Len(stack)].task) < Tier(stack[i].task)
      BY <1>1, <1>2, <3>3 DEF Descending
    <3> QED BY <1>1, <1>2, <2>2, <2>3, <3>1, <3>4
  <2> QED BY <1>2, <2>1, <2>3 DEF Filled, Filling
<1> QED BY <1>4, <1>5

(* What a step may change of which tasks are filled.                       *)
Same == \A u \in Fillers : Filled(u)' <=> Filled(u)

Progress ==
  \A u \in Fillers : /\ Filled(u) => Filled(u)'
                     /\ Filled(u)' => Filled(u) \/ Working(u)

LEMMA TasksKept ==
  ASSUME TasksInv, UNCHANGED tasks, result' # "stored"
  PROVE  TasksInv' /\ Same
<1>1. stack' = stack /\ made' = made
  BY DEF tasks
<1> QED BY <1>1 DEF TasksInv, Same, Filled

LEMMA CallTasks ==
  ASSUME ShapeInv, TasksInv, NEW t \in Tasks, Call(t)
  PROVE  TasksInv' /\ Same
<1> DEFINE f == Frame(t)
<1>1. TypeOK /\ Now.todo # <<>> /\ Head(Now.todo) = t /\ t # "fill"
  BY DEF ShapeInv, Call, Busy, Tasks
<1>2. stack' = Append(Popped, f) /\ made' = made \cup {t} /\ result' # "stored"
  BY DEF Call, Busy
<1>3. f \in Frames /\ f.task = t
  BY FrameDescends
<1>4. /\ t \in made => "fill" \notin Range(f.todo)
      /\ t \notin made => \A u \in Needs(t) : u \in Range(f.todo)
      /\ t \notin made /\ t \in Fillers => "fill" \in Range(f.todo)
      /\ \A m : Prepared(f, m)
  BY FrameFills
<1> HIDE DEF f
<1>5. /\ DOMAIN stack' = 1 .. Len(Popped) + 1 /\ DOMAIN Popped = 1 .. Len(Popped)
      /\ Len(Popped) \in Nat
      /\ \A i \in 1 .. Len(Popped) + 1 :
           stack'[i] = IF i = Len(Popped) + 1 THEN f ELSE Popped[i]
  <2>1. Popped \in Seq(Frames)
    BY <1>1, PoppedIs
  <2> QED BY <1>2, <1>3, <2>1, PushTop, LenProperties
<1>6. /\ \A s : Awaits(stack', s) <=> Awaits(Popped, s) \/ s \in Range(f.todo)
      /\ \A u : Filling(stack', u) <=> Filling(Popped, u) \/ (u = t /\ "fill" \in Range(f.todo))
  <2>1. \A i \in DOMAIN Popped : i \in DOMAIN stack' /\ stack'[i] = Popped[i]
    BY <1>5
  <2>2. Len(Popped) + 1 \in DOMAIN stack' /\ stack'[Len(Popped) + 1] = f
    BY <1>5
  <2>3. \A i \in DOMAIN stack' : stack'[i] = f \/ (i \in DOMAIN Popped /\ stack'[i] = Popped[i])
    BY <1>5
  <2> QED BY <1>3, <2>1, <2>2, <2>3 DEF Awaits, Filling
<1>7. /\ \A s : Awaits(stack, s) => s = t \/ Awaits(Popped, s)
      /\ \A u : Filling(stack, u) <=> Filling(Popped, u)
  BY <1>1, PoppedAwaits
<1>8. \A x \in {"files", "set"} : x \in made' \/ Awaits(stack', x)
  BY <1>2, <1>6, <1>7 DEF TasksInv
<1>9. ASSUME NEW x \in made', NEW u \in Needs(x)
      PROVE  u \in made' \/ Awaits(stack', u)
  <2>1. CASE x \in made
    <3>1. u \in made \/ Awaits(stack, u)
      BY <2>1 DEF TasksInv
    <3> QED BY <3>1, <1>2, <1>6, <1>7
  <2>2. CASE x \notin made
    BY <2>2, <1>2, <1>4, <1>6
  <2> QED BY <2>1, <2>2
<1>10. \A i \in DOMAIN stack' : Prepared(stack'[i], made')
  <2>1. \A i \in DOMAIN Popped : Prepared(Popped[i], made')
    <3>1. \A i \in DOMAIN stack : Prepared(stack[i], made)
      BY DEF TasksInv
    <3>2. made \subseteq made' /\ Head(Now.todo) \in made'
      BY <1>1, <1>2
    <3> HIDE DEF Prepared
    <3> QED BY <1>1, <3>1, <3>2, PoppedPrepared
  <2>2. \A i \in DOMAIN stack' : stack'[i] = f \/ (i \in DOMAIN Popped /\ stack'[i] = Popped[i])
    BY <1>5
  <2> QED BY <1>4, <2>1, <2>2
<1>11. Same
  <2> SUFFICES ASSUME NEW u \in Fillers PROVE Filled(u)' <=> Filled(u)
    BY DEF Same
  <2>1. Filled(u)' <=> u \in made' /\ ~ Filling(stack', u)
    BY DEF Filled
  <2>2. CASE u # t
    BY <2>1, <2>2, <1>2, <1>6, <1>7 DEF Filled
  <2>3. CASE u = t
    BY <2>1, <2>3, <1>2, <1>4, <1>6, <1>7 DEF Filled
  <2> QED BY <2>2, <2>3
<1>12. \A x \in Fillers : Filled(x)' => \A u \in Needs(x) : Filled(u)'
  <2>1. \A x \in Fillers : Needs(x) \subseteq Fillers
    BY ProgramFills DEF Fillers
  <2> QED BY <1>11, <2>1 DEF TasksInv, Same
<1> QED BY <1>2, <1>8, <1>9, <1>10, <1>11, <1>12 DEF TasksInv

LEMMA ReturnTasks ==
  ASSUME ShapeInv, TasksInv, Return
  PROVE  TasksInv' /\ Same
<1>1. /\ Now.todo = <<>> /\ Len(stack) > 1 /\ stack' = Front(stack) /\ made' = made
      /\ result' # "stored"
  BY DEF Return
<1>2. /\ stack \in Seq(Frames) /\ Len(stack) \in Nat \ {0} /\ Now = stack[Len(stack)]
      /\ stack' \in Seq(Frames) /\ Len(stack') = Len(stack) - 1
      /\ \A i \in 1 .. Len(stack) - 1 : stack'[i] = stack[i]
  <2>1. stack \in Seq(Frames) /\ stack # <<>>
    BY DEF ShapeInv, TypeOK
  <2> QED BY <1>1, <2>1, StackFacts DEF Now
<1>3. DOMAIN stack = 1 .. Len(stack) /\ DOMAIN stack' = 1 .. Len(stack) - 1
  BY <1>2, LenProperties
<1>4. \A i \in DOMAIN stack' : i \in DOMAIN stack /\ stack'[i] = stack[i]
  BY <1>2, <1>3
<1>5. \A i \in DOMAIN stack : stack[i].todo = <<>> \/ (i \in DOMAIN stack' /\ stack'[i] = stack[i])
  <2> SUFFICES ASSUME NEW i \in 1 .. Len(stack), i # Len(stack)
               PROVE  i \in DOMAIN stack' /\ stack'[i] = stack[i]
    BY <1>1, <1>2, <1>3
  <2>1. i \in 1 .. Len(stack) - 1
    BY <1>2
  <2> QED BY <1>2, <1>3, <2>1
<1>6. \A s : s \notin Range(<<>>)
  BY DEF Range
<1>7. /\ \A s : Awaits(stack', s) <=> Awaits(stack, s)
      /\ \A u : Filling(stack', u) <=> Filling(stack, u)
  BY <1>4, <1>5, <1>6 DEF Awaits, Filling
<1>8. Same
  BY <1>1, <1>7 DEF Same, Filled
<1>9. \A i \in DOMAIN stack' : Prepared(stack'[i], made')
  BY <1>1, <1>4 DEF TasksInv
<1>10. \A x \in Fillers : Filled(x)' => \A u \in Needs(x) : Filled(u)'
  <2>1. \A x \in Fillers : Needs(x) \subseteq Fillers
    BY ProgramFills DEF Fillers
  <2> QED BY <1>8, <2>1 DEF TasksInv, Same
<1> QED BY <1>1, <1>7, <1>8, <1>9, <1>10 DEF TasksInv

(* The top frame has opened libmagic or done its task's own work.          *)
LEMMA WorkTasks ==
  ASSUME ShapeInv, TasksInv, Busy("open") \/ Busy("fill"),
         stack' = Popped, made' = made, result' # "stored"
  PROVE  TasksInv' /\ Progress
<1>1. TypeOK /\ Now.todo # <<>> /\ Head(Now.todo) \notin Tasks
  BY DEF ShapeInv, Busy, Tasks
<1>2. /\ \A s : Awaits(stack, s) => s = Head(Now.todo) \/ Awaits(stack', s)
      /\ \A t : Filling(stack', t) => Filling(stack, t)
      /\ \A t : Filling(stack, t) =>
           (t = Now.task /\ Head(Now.todo) = "fill") \/ Filling(stack', t)
  BY <1>1, PoppedAwaits
<1>3. Progress
  <2> SUFFICES ASSUME NEW u \in Fillers
               PROVE  /\ Filled(u) => Filled(u)'
                      /\ Filled(u)' => Filled(u) \/ Working(u)
    BY DEF Progress
  <2>1. Filled(u)' <=> u \in made /\ ~ Filling(stack', u)
    BY DEF Filled
  <2>2. Head(Now.todo) = "fill" /\ u = Now.task => Working(u)
    BY DEF Working, Busy
  <2> QED BY <1>2, <2>1, <2>2 DEF Filled
<1>4. \A x \in {"files", "set"} : x \in made' \/ Awaits(stack', x)
  BY <1>1, <1>2 DEF TasksInv, Tasks
<1>5. \A x \in made' : \A u \in Needs(x) : u \in made' \/ Awaits(stack', u)
  BY <1>1, <1>2 DEF TasksInv, Needs
<1>6. \A i \in DOMAIN stack' : Prepared(stack'[i], made')
  <2>1. \A i \in DOMAIN stack : Prepared(stack[i], made)
    BY DEF TasksInv
  <2> HIDE DEF Prepared
  <2> QED BY <1>1, <2>1, PoppedPrepared
<1>7. \A x \in Fillers : Filled(x)' => \A u \in Needs(x) : Filled(u)'
  <2> SUFFICES ASSUME NEW x \in Fillers, Filled(x)', NEW u \in Needs(x)
               PROVE  Filled(u)'
    OBVIOUS
  <2>1. x \in Tasks /\ u \in Fillers
    BY ProgramFills DEF Fillers
  <2>2. Filled(u)
    <3>1. CASE Filled(x)
      BY <3>1 DEF TasksInv
    <3>2. CASE Working(x)
      BY <2>1, <3>2, NeedsFilled
    <3> QED BY <1>3, <3>1, <3>2 DEF Progress
  <2> QED BY <1>3, <2>1, <2>2 DEF Progress
<1> QED BY <1>3, <1>4, <1>5, <1>6, <1>7 DEF TasksInv

(* When main has called both tasks all are filled.                         *)
LEMMA EndTasks ==
  ASSUME ShapeInv, TasksInv, AddToDb
  PROVE  TasksInv' /\ Same
<1>1. Now.todo = <<>> /\ Len(stack) = 1 /\ UNCHANGED tasks
  BY DEF AddToDb
<1>2. DOMAIN stack = {1} /\ stack[1].todo = <<>>
  <2>1. stack \in Seq(Frames) /\ stack # <<>>
    BY DEF ShapeInv, TypeOK
  <2>2. Now = stack[1]
    BY <1>1, <2>1, StackFacts DEF Now
  <2> QED BY <1>1, <2>1, <2>2, LenProperties
<1>3. (\A s : ~ Awaits(stack, s)) /\ (\A t : ~ Filling(stack, t))
  BY <1>2 DEF Awaits, Filling, Range
<1>4. /\ {"files", "set"} \subseteq made
      /\ \A t \in made : Needs(t) \subseteq made
  BY <1>3 DEF TasksInv
<1>5. /\ {"mime", "hashing"} \subseteq Needs("files")
      /\ {"media", "content"} \subseteq Needs("set")
      /\ "dirtree" \in Needs("mime") /\ "basic" \in Needs("media")
  <2>1. /\ Fill("files") = <<"mime", "hashing">> /\ Fill("set") = <<"media", "content">>
        /\ Fill("mime") = <<"open", "dirtree", "fill">> /\ Fill("media") = <<"basic", "fill">>
    BY DEF Fill
  <2>2. \A a, b : a \in Range(<<a, b>>) /\ b \in Range(<<a, b>>)
    <3> TAKE a, b
    <3>1. 1 \in DOMAIN <<a, b>> /\ 2 \in DOMAIN <<a, b>> /\ <<a, b>>[1] = a /\ <<a, b>>[2] = b
      OBVIOUS
    <3> QED BY <3>1 DEF Range
  <2>3. "dirtree" \in Range(<<"open", "dirtree", "fill">>)
    <3>1. 2 \in DOMAIN <<"open", "dirtree", "fill">> /\ <<"open", "dirtree", "fill">>[2] = "dirtree"
      OBVIOUS
    <3> QED BY <3>1 DEF Range
  <2> QED BY <2>1, <2>2, <2>3 DEF Needs, Tasks
<1>6. \A t \in Tasks : t \in made
  BY <1>4, <1>5 DEF Tasks
<1>7. \A t \in Tasks : Filled(t)
  BY <1>3, <1>6 DEF Filled
<1>8. stack' = stack /\ made' = made
  BY <1>1 DEF tasks
<1> QED BY <1>7, <1>8 DEF TasksInv, Same, Filled

LEMMA TasksInit ==
  ASSUME Init
  PROVE  TasksInv
<1>1. PICK todo \in {<<"files", "set">>, <<"set", "files">>} :
        stack = <<[task |-> "main", todo |-> todo]>>
  BY DEF Init
<1>2. 1 \in DOMAIN stack /\ DOMAIN stack = {1} /\ stack[1].todo = todo
  BY <1>1
<1>3. /\ \A x \in {"files", "set"} : x \in Range(todo)
      /\ "fill" \notin Range(todo)
  <2>1. CASE todo = <<"files", "set">>
    <3>1. DOMAIN todo = {1, 2} /\ todo[1] = "files" /\ todo[2] = "set"
      BY <2>1
    <3> QED BY <3>1 DEF Range
  <2>2. CASE todo = <<"set", "files">>
    <3>1. DOMAIN todo = {1, 2} /\ todo[1] = "set" /\ todo[2] = "files"
      BY <2>2
    <3> QED BY <3>1 DEF Range
  <2> QED BY <2>1, <2>2
<1>4. Awaits(stack, "files") /\ Awaits(stack, "set")
  BY <1>2, <1>3 DEF Awaits
<1>5. Prepared(stack[1], made)
  BY <1>2, <1>3 DEF Prepared, Range
<1>6. made = {} /\ result = "running"
  BY DEF Init
<1> QED BY <1>2, <1>4, <1>5, <1>6 DEF TasksInv, Filled

LEMMA SameProgresses == Same => Progress
BY DEF Same, Progress

-----------------------------------------------------------------------------
(* The walk.                                                               *)

LEMMA WalkKept ==
  ASSUME UNCHANGED <<disk, walk>>
  PROVE  (Walked => Walked') /\ (VisitedInv => VisitedInv')
BY DEF Walked, VisitedInv, IsNext, Unfinished, disk, walk

LEMMA VisitVisited ==
  ASSUME ShapeInv, VisitedInv, NEW n \in Nodes, Visit(n)
  PROVE  VisitedInv'
<1>1. /\ IsNext(n) /\ n \notin visited
      /\ visited' = visited \cup {n}
      /\ list' = IF disc[n] = Gone THEN list ELSE Inserted(list, n)
      /\ disc' = disc /\ top' = top
  BY DEF Visit, IsNext, disk
<1>2. \/ n = top
      \/ visited # {} /\ n # Root /\ Parent[n] \in visited /\ disc[Parent[n]] = Fine
  BY <1>1 DEF IsNext, Unfinished, IsIn
<1>3. disc[n] # Gone => Range(list') = Range(list) \cup {n}
  <2>1. list \in Seq(Nodes) /\ IsSorted(list, Before) /\ n \in Nodes \ Range(list)
    BY <1>1 DEF ShapeInv, TypeOK, ListSorted
  <2> QED BY <2>1, <1>1, InsertedIsSorted
<1>4. (Range(list) = {m \in visited : disc[m] # Gone})'
  BY <1>1, <1>3 DEF VisitedInv
<1> QED BY <1>1, <1>2, <1>4 DEF VisitedInv

-----------------------------------------------------------------------------
(* Sorted lists, views of them, and what is above an entry.                *)

LEMMA ChildIsBelow ==
  ASSUME NEW n \in Nodes, NEW d, IsIn(n, d)
  PROVE  d \in Dirs /\ d \in Nodes /\ Depth[n] = Depth[d] + 1 /\ Depth[d] \in Nat
BY TreeAssumption DEF IsIn

LEMMA LevelsAscend ==
  ASSUME NEW l \in Seq(Nodes), IsSorted(l, Before)
  PROVE  /\ DOMAIN l = 1 .. Len(l) /\ Len(l) \in Nat
         /\ \A i \in 1 .. Len(l) : l[i] \in Nodes /\ Depth[l[i]] \in Nat
         /\ \A i, j \in 1 .. Len(l) : i <= j => Depth[l[i]] <= Depth[l[j]]
<1>1. DOMAIN l = 1 .. Len(l) /\ Len(l) \in Nat
  BY LenProperties
<1>2. \A i \in 1 .. Len(l) : l[i] \in Nodes /\ Depth[l[i]] \in Nat
  BY ElementOfSeq, TreeAssumption
<1>3. ASSUME NEW i \in 1 .. Len(l), NEW j \in 1 .. Len(l), i <= j
      PROVE  Depth[l[i]] <= Depth[l[j]]
  <2>1. CASE i = j
    BY <2>1, <1>2
  <2>2. CASE i < j
    <3>1. Before(l[i], l[j])
      BY <2>2, <1>1 DEF IsSorted
    <3>2. Depth[l[i]] \in Nat /\ Depth[l[j]] \in Nat
      BY <1>2
    <3>3. Depth[l[i]] < Depth[l[j]] \/ Depth[l[i]] = Depth[l[j]]
      BY <3>1 DEF Before
    <3> QED BY <3>2, <3>3
  <2> QED BY <2>1, <2>2, <1>3
<1> QED BY <1>1, <1>2, <1>3

LEMMA ViewBeginLeast ==
  ASSUME NEW l \in Seq(Nodes), NEW d, NEW from \in 1 .. Len(l)
  PROVE  LET b == ViewBegin(l, d, from) IN
         /\ b \in from .. Len(l) + 1
         /\ b <= Len(l) => IsIn(l[b], d)
         /\ \A p \in from .. Len(l) : IsIn(l[p], d) => b <= p
<1> DEFINE S == {i \in from .. Len(l) + 1 :
                   i <= Len(l) => Depth[l[i]] # Depth[d] /\ IsIn(l[i], d)}
<1>0. Len(l) \in Nat
  BY LenProperties
<1>1. S \subseteq Nat /\ Len(l) + 1 \in S
  BY <1>0
<1>2. Min(S) \in S /\ \A y \in S : Min(S) <= y
  BY <1>1, MinIsLeast
<1>3. ASSUME NEW p \in from .. Len(l), IsIn(l[p], d)
      PROVE  p \in S
  <2>1. p \in 1 .. Len(l)
    BY <1>0
  <2>2. l[p] \in Nodes
    BY <2>1, ElementOfSeq
  <2>3. Depth[l[p]] = Depth[d] + 1 /\ Depth[d] \in Nat
    BY <1>3, <2>2, ChildIsBelow
  <2> QED BY <1>0, <1>3, <2>3
<1>4. ViewBegin(l, d, from) = Min(S)
  BY DEF ViewBegin
<1> QED BY <1>2, <1>3, <1>4

LEMMA ViewNextLeast ==
  ASSUME NEW l \in Seq(Nodes), NEW d, NEW i \in 1 .. Len(l)
  PROVE  LET j == ViewNext(l, d, i) IN
         /\ j \in i + 1 .. Len(l) + 1
         /\ \A p \in i + 1 .. Len(l) : IsIn(l[p], d) => j <= p
<1> DEFINE S == {j \in i + 1 .. Len(l) + 1 :
                   j <= Len(l) => Depth[l[j]] # Depth[d] + 1 \/ IsIn(l[j], d)}
<1>0. Len(l) \in Nat
  BY LenProperties
<1>1. S \subseteq Nat /\ Len(l) + 1 \in S
  BY <1>0
<1>2. Min(S) \in S /\ \A y \in S : Min(S) <= y
  BY <1>1, MinIsLeast
<1>3. \A p \in i + 1 .. Len(l) : IsIn(l[p], d) => p \in S
  BY <1>0
<1>4. ViewNext(l, d, i) = Min(S)
  BY DEF ViewNext
<1> QED BY <1>2, <1>3, <1>4

LEMMA FirstFileLeast ==
  ASSUME NEW l \in Seq(Nodes), IsSorted(l, Before), NEW d, NEW from \in 1 .. Len(l)
  PROVE  LET f == FirstFile(l, d, from) IN
         /\ f \in from .. Len(l) + 1
         /\ f <= Len(l) => ~ AtEnd(l, d, f)
         /\ \A p \in from .. Len(l) : IsIn(l[p], d) /\ l[p] \notin Dirs => f <= p
<1> DEFINE b == ViewBegin(l, d, from)
           S == {i \in b .. Len(l) + 1 :
                   AtEnd(l, d, i) \/ (IsIn(l[i], d) /\ l[i] \notin Dirs)}
           first == Min(S)
           f == FirstFile(l, d, from)
<1>0. /\ Len(l) \in Nat
      /\ \A i \in 1 .. Len(l) : l[i] \in Nodes /\ Depth[l[i]] \in Nat
      /\ \A i, j \in 1 .. Len(l) : i <= j => Depth[l[i]] <= Depth[l[j]]
  BY LevelsAscend
<1>1. /\ b \in from .. Len(l) + 1
      /\ b <= Len(l) => IsIn(l[b], d)
      /\ \A p \in from .. Len(l) : IsIn(l[p], d) => b <= p
  BY ViewBeginLeast
<1>2. f = IF AtEnd(l, d, first) THEN Len(l) + 1 ELSE first
  BY DEF FirstFile
<1> HIDE DEF b, f
<1>3. first \in S /\ \A y \in S : first <= y
  <2>1. S \subseteq Nat
    BY <1>0, <1>1
  <2>2. Len(l) + 1 \in S
    BY <1>0, <1>1 DEF AtEnd
  <2> QED BY <2>1, <2>2, MinIsLeast
<1>4. first \in b .. Len(l) + 1
  BY <1>3
<1>5. ASSUME NEW p \in from .. Len(l), IsIn(l[p], d), l[p] \notin Dirs
      PROVE  f <= p
  <2>1. p \in S
    BY <1>0, <1>1, <1>5
  <2>2. first <= p
    BY <1>3, <2>1
  <2>3. ~ AtEnd(l, d, first)
    <3> SUFFICES ASSUME AtEnd(l, d, first) PROVE FALSE
      OBVIOUS
    <3>1. b \in 1 .. Len(l) /\ first \in 1 .. Len(l) /\ p \in 1 .. Len(l) /\ b <= first
      BY <1>0, <1>1, <1>4, <1>5, <2>2
    <3>2. IsIn(l[b], d)
      BY <1>1, <3>1
    <3>3. Depth[l[b]] = Depth[d] + 1 /\ Depth[l[p]] = Depth[d] + 1 /\ Depth[d] \in Nat
      BY <1>0, <1>5, <3>1, <3>2, ChildIsBelow
    <3>4. Depth[l[b]] <= Depth[l[first]] /\ Depth[l[first]] <= Depth[l[p]]
      BY <1>0, <2>2, <3>1
    <3>5. Depth[l[first]] # Depth[d] + 1
      BY <3>1 DEF AtEnd
    <3>6. Depth[l[first]] \in Nat
      BY <1>0, <3>1
    <3> QED BY <3>3, <3>4, <3>5, <3>6
  <2> QED BY <1>2, <2>2, <2>3
<1>6. f \in from .. Len(l) + 1
  BY <1>0, <1>1, <1>2, <1>4
<1>7. f <= Len(l) => ~ AtEnd(l, d, f)
  BY <1>0, <1>2
<1> QED BY <1>5, <1>6, <1>7 DEF f

-----------------------------------------------------------------------------
(* What a call of hash_dir has been at.                                    *)

LEMMA NotBefore ==
  ASSUME NEW l \in Seq(Nodes), IsSorted(l, Before),
         NEW from \in 1 .. Len(l), NEW p \in 1 .. Len(l), IsIn(l[p], l[from])
  PROVE  from < p
<1>1. /\ Len(l) \in Nat
      /\ \A i \in 1 .. Len(l) : l[i] \in Nodes /\ Depth[l[i]] \in Nat
      /\ \A i, j \in 1 .. Len(l) : i <= j => Depth[l[i]] <= Depth[l[j]]
  BY LevelsAscend
<1>2. Depth[l[p]] = Depth[l[from]] + 1
  BY <1>1, ChildIsBelow
<1>3. p <= from => Depth[l[p]] <= Depth[l[from]]
  BY <1>1
<1>4. Depth[l[p]] \in Nat /\ Depth[l[from]] \in Nat
  BY <1>1
<1>5. ~ (p <= from)
  BY <1>2, <1>3, <1>4
<1> QED BY <1>5

LEMMA SeenMore ==
  ASSUME NEW f, NEW D, NEW E, D \subseteq E, Seen(f, D)
  PROVE  Seen(f, E)
BY DEF Seen

LEMMA SeenBegins ==
  ASSUME list \in Seq(Nodes), IsSorted(list, Before),
         NEW from \in 1 .. Len(list), list[from] \in Dirs, NEW D
  PROVE  Seen(HashDir(list[from], from), D)
<1> DEFINE d == list[from]
           b == ViewBegin(list, d, from)
           f == HashDir(d, from)
<1>1. /\ DOMAIN list = 1 .. Len(list) /\ Len(list) \in Nat
      /\ \A i \in 1 .. Len(list) : list[i] \in Nodes /\ Depth[list[i]] \in Nat
  BY LevelsAscend
<1>2. /\ b \in from .. Len(list) + 1
      /\ b <= Len(list) => IsIn(list[b], d)
      /\ \A p \in from .. Len(list) : IsIn(list[p], d) => b <= p
  BY ViewBeginLeast
<1>3. f.dir = d /\ f.view = from /\ f.at = b /\ f.phase = "names"
  BY DEF HashDir
<1>4. \A p \in 1 .. Len(list) : IsIn(list[p], d) => from < p
  BY NotBefore
<1> HIDE DEF b, f, d
<1>5. b \in DOMAIN list => Depth[d] < Depth[list[b]]
  <2> SUFFICES ASSUME b \in 1 .. Len(list) PROVE Depth[d] < Depth[list[b]]
    BY <1>1
  <2>1. Depth[list[b]] = Depth[d] + 1 /\ Depth[d] \in Nat
    BY <1>1, <1>2, ChildIsBelow
  <2> QED BY <2>1
<1>6. ASSUME NEW p \in DOMAIN list, HasPassed(f, p)
      PROVE  FALSE
  <2>1. p \in 1 .. Len(list) /\ IsIn(list[p], d) /\ p < b
    BY <1>1, <1>3, <1>6 DEF HasPassed
  <2>2. p \in from .. Len(list)
    BY <1>1, <1>4, <2>1
  <2>3. b <= p
    BY <1>2, <2>1, <2>2
  <2> QED BY <1>1, <1>2, <2>1, <2>3
<1>7. list[f.view] = f.dir
  BY <1>3 DEF d
<1>8. Seen(f, D)
  BY <1>3, <1>5, <1>6, <1>7 DEF Seen
<1> QED BY <1>8 DEF f, d

LEMMA SeenAdvances ==
  ASSUME list \in Seq(Nodes), IsSorted(list, Before),
         NEW f \in HashFrames, ~ AtEnd(list, f.dir, f.at),
         NEW D, NEW E, D \subseteq E, Seen(f, D),
         f.phase = "files" \/ list[f.at] \in Dirs => list[f.at] \in E
  PROVE  Seen(Advanced(f), E)
<1> DEFINE j == ViewNext(list, f.dir, f.at)
           g == Advanced(f)
<1>1. /\ DOMAIN list = 1 .. Len(list) /\ Len(list) \in Nat
      /\ \A i \in 1 .. Len(list) : list[i] \in Nodes /\ Depth[list[i]] \in Nat
      /\ \A i, k \in 1 .. Len(list) : i <= k => Depth[list[i]] <= Depth[list[k]]
  BY LevelsAscend
<1>2. /\ f.at \in 1 .. Len(list) /\ Depth[list[f.at]] = Depth[f.dir] + 1
      /\ Depth[f.dir] \in Nat
  BY TreeAssumption DEF HashFrames, AtEnd
<1>3. /\ j \in f.at + 1 .. Len(list) + 1
      /\ \A p \in f.at + 1 .. Len(list) : IsIn(list[p], f.dir) => j <= p
  BY <1>2, ViewNextLeast
<1>4. g.dir = f.dir /\ g.view = f.view /\ g.at = j /\ g.phase = f.phase
  BY DEF Advanced, HashFrames
<1> HIDE DEF j, g
<1>5. j \in DOMAIN list => Depth[f.dir] < Depth[list[j]]
  <2> SUFFICES ASSUME j \in 1 .. Len(list) PROVE Depth[f.dir] < Depth[list[j]]
    BY <1>1
  <2>1. Depth[list[f.at]] <= Depth[list[j]] /\ Depth[list[j]] \in Nat
    BY <1>1, <1>2, <1>3
  <2> QED BY <1>2, <2>1
<1>6. ASSUME NEW p \in DOMAIN list, HasPassed(g, p)
      PROVE  list[p] \in E
  <2>1. /\ p \in 1 .. Len(list) /\ IsIn(list[p], f.dir)
        /\ IF list[p] \in Dirs THEN p < j \/ f.phase = "files"
           ELSE p < j /\ f.phase = "files"
    BY <1>1, <1>4, <1>6 DEF HasPassed
  <2>2. CASE p < f.at \/ (list[p] \in Dirs /\ f.phase = "files")
    <3>1. HasPassed(f, p)
      BY <2>1, <2>2 DEF HasPassed
    <3> QED BY <3>1, <1>6 DEF Seen
  <2>3. CASE p = f.at
    BY <2>1, <2>3
  <2>4. CASE f.at < p /\ p < j
    <3>1. p \in f.at + 1 .. Len(list)
      BY <1>1, <1>2, <2>1, <2>4
    <3>2. j <= p
      BY <1>3, <2>1, <3>1
    <3> QED BY <1>1, <1>2, <1>3, <2>1, <2>4, <3>2
  <2> QED BY <1>1, <1>2, <1>3, <2>1, <2>2, <2>3, <2>4
<1>7. list[f.view] = f.dir
  BY DEF Seen
<1>8. Seen(g, E)
  BY <1>4, <1>5, <1>6, <1>7 DEF Seen
<1> QED BY <1>8 DEF g

(* A view that is at its end has been past all of its directory.           *)
LEMMA AllBefore ==
  ASSUME list \in Seq(Nodes), IsSorted(list, Before),
         NEW f \in HashFrames, NEW D, Seen(f, D), AtEnd(list, f.dir, f.at),
         NEW p \in 1 .. Len(list), IsIn(list[p], f.dir)
  PROVE  p < f.at
<1>1. /\ DOMAIN list = 1 .. Len(list) /\ Len(list) \in Nat
      /\ \A i \in 1 .. Len(list) : list[i] \in Nodes /\ Depth[list[i]] \in Nat
      /\ \A i, k \in 1 .. Len(list) : i <= k => Depth[list[i]] <= Depth[list[k]]
  BY LevelsAscend
<1>2. f.at \in 1 .. Len(list) + 1
  BY DEF HashFrames
<1>3. CASE f.at = Len(list) + 1
  BY <1>1, <1>3
<1>4. CASE f.at \in 1 .. Len(list)
  <2> SUFFICES ASSUME f.at <= p PROVE FALSE
    BY <1>1, <1>4
  <2>1. Depth[list[f.at]] <= Depth[list[p]]
    BY <1>1, <1>4
  <2>2. Depth[list[p]] = Depth[f.dir] + 1 /\ Depth[f.dir] \in Nat
    BY <1>1, ChildIsBelow
  <2>3. Depth[f.dir] < Depth[list[f.at]]
    BY <1>1, <1>4 DEF Seen
  <2>4. Depth[list[f.at]] # Depth[f.dir] + 1
    BY <1>4 DEF AtEnd
  <2>5. Depth[list[f.at]] \in Nat
    BY <1>1, <1>4
  <2> QED BY <2>1, <2>2, <2>3, <2>4, <2>5
<1> QED BY <1>1, <1>2, <1>3, <1>4

LEMMA SeenFiles ==
  ASSUME list \in Seq(Nodes), IsSorted(list, Before),
         NEW f \in HashFrames, f.phase = "names", AtEnd(list, f.dir, f.at),
         NEW D, Seen(f, D)
  PROVE  Seen([f EXCEPT !.phase = "files", !.at = FirstFile(list, f.dir, f.view)], D)
<1> DEFINE at == FirstFile(list, f.dir, f.view)
           g == [f EXCEPT !.phase = "files", !.at = at]
<1>1. DOMAIN list = 1 .. Len(list) /\ Len(list) \in Nat
  BY LevelsAscend
<1>2. f.view \in 1 .. Len(list) /\ list[f.view] = f.dir /\ f.dir \in Dirs
  BY DEF HashFrames, Seen
<1>3. /\ at \in f.view .. Len(list) + 1
      /\ at <= Len(list) => ~ AtEnd(list, f.dir, at)
      /\ \A p \in f.view .. Len(list) : IsIn(list[p], f.dir) /\ list[p] \notin Dirs => at <= p
  BY <1>2, FirstFileLeast
<1>4. g.dir = f.dir /\ g.view = f.view /\ g.at = at /\ g.phase = "files"
  BY DEF HashFrames
<1> HIDE DEF at, g
<1>5. at \in DOMAIN list => Depth[f.dir] < Depth[list[at]]
  <2> SUFFICES ASSUME at \in 1 .. Len(list) PROVE Depth[f.dir] < Depth[list[at]]
    BY <1>1
  <2>1. Depth[list[at]] = Depth[f.dir] + 1
    BY <1>1, <1>3 DEF AtEnd
  <2>2. Depth[f.dir] \in Nat
    BY <1>2, TreeAssumption
  <2> QED BY <2>1, <2>2
<1>6. ASSUME NEW p \in DOMAIN list, HasPassed(g, p)
      PROVE  list[p] \in D
  <2>1. p \in 1 .. Len(list) /\ IsIn(list[p], f.dir) /\ (list[p] \notin Dirs => p < at)
    BY <1>1, <1>4, <1>6 DEF HasPassed
  <2>2. CASE list[p] \in Dirs
    <3>1. p < f.at
      BY <2>1, AllBefore
    <3>2. HasPassed(f, p)
      BY <2>1, <2>2, <3>1 DEF HasPassed
    <3> QED BY <3>2, <1>6 DEF Seen
  <2>3. CASE list[p] \notin Dirs
    <3>1. f.view < p
      BY <1>2, <2>1, NotBefore
    <3>2. p \in f.view .. Len(list)
      BY <1>1, <1>2, <2>1, <3>1
    <3>3. at <= p /\ p < at
      BY <1>3, <2>1, <2>3, <3>2
    <3> QED BY <1>1, <1>2, <1>3, <2>1, <3>3
  <2> QED BY <2>2, <2>3
<1>7. Seen(g, D)
  BY <1>2, <1>4, <1>5, <1>6 DEF Seen
<1> QED BY <1>7 DEF g, at

(* When the first record is done, and what is in a directory that is done, *)
(* everything is.                                                          *)
LEMMA AllDone ==
  ASSUME list \in Seq(Nodes), IsSorted(list, Before), VisitedInv,
         NEW D, list # <<>> => Head(list) \in D,
         \A d \in Dirs \cap D : Children(d) \cap Range(list) \subseteq D
  PROVE  Range(list) \subseteq D
<1>1. /\ DOMAIN list = 1 .. Len(list) /\ Len(list) \in Nat
      /\ \A i \in 1 .. Len(list) : list[i] \in Nodes /\ Depth[list[i]] \in Nat
      /\ \A i, k \in 1 .. Len(list) : i <= k => Depth[list[i]] <= Depth[list[k]]
  BY LevelsAscend
<1>2. ASSUME NEW n \in Range(list), n # top
      PROVE  /\ Parent[n] \in Range(list) \cap Dirs /\ n \in Children(Parent[n])
             /\ Depth[n] = Depth[Parent[n]] + 1 /\ Depth[Parent[n]] \in Nat
  <2>1. n \in Nodes
    BY <1>1, <1>2 DEF Range
  <2>2. n \in visited /\ n # Root /\ Parent[n] \in visited /\ disc[Parent[n]] = Fine
    BY <1>2 DEF VisitedInv
  <2>3. Parent[n] \in Range(list)
    BY <2>2 DEF VisitedInv, Fine, Gone
  <2> QED BY <2>1, <2>2, <2>3, ChildIsBelow DEF Children, IsIn
<1> SUFFICES ASSUME Range(list) \ D # {} PROVE FALSE
  OBVIOUS
<1>3. list # <<>> /\ 1 \in 1 .. Len(list) /\ Head(list) = list[1]
  <2>1. list # <<>>
    BY DEF Range
  <2> QED BY <2>1, TailFacts
<1>4. Head(list) = top
  <2> SUFFICES ASSUME Head(list) # top PROVE FALSE
    OBVIOUS
  <2>1. list[1] \in Range(list)
    BY <1>1, <1>3 DEF Range
  <2>2. /\ Parent[list[1]] \in Range(list)
        /\ Depth[list[1]] = Depth[Parent[list[1]]] + 1 /\ Depth[Parent[list[1]]] \in Nat
    BY <1>2, <1>3, <2>1
  <2>3. PICK q \in 1 .. Len(list) : list[q] = Parent[list[1]]
    BY <1>1, <2>2 DEF Range
  <2>4. Depth[list[1]] <= Depth[list[q]]
    BY <1>1, <1>3
  <2> QED BY <2>2, <2>3, <2>4
<1> DEFINE K == {Depth[n] : n \in Range(list) \ D}
<1>5. PICK k \in K : \A m \in K : k <= m
  <2>1. \A n \in Range(list) : Depth[n] \in Nat
    BY <1>1 DEF Range
  <2>2. K \subseteq Nat /\ K # {}
    BY <2>1
  <2> QED BY <2>2, LeastExists
<1>6. PICK n \in Range(list) \ D : k = Depth[n]
  BY <1>5
<1>7. n # top
  BY <1>3, <1>4, <1>6
<1>8. /\ Parent[n] \in Range(list) \cap Dirs /\ n \in Children(Parent[n])
      /\ Depth[n] = Depth[Parent[n]] + 1 /\ Depth[Parent[n]] \in Nat
  BY <1>2, <1>6, <1>7
<1>9. Parent[n] \in D
  <2> SUFFICES ASSUME Parent[n] \notin D PROVE FALSE
    OBVIOUS
  <2>1. Depth[Parent[n]] \in K
    BY <1>8
  <2>2. k <= Depth[Parent[n]]
    BY <1>5, <2>1
  <2> QED BY <1>6, <1>8, <2>2
<1> QED BY <1>6, <1>8, <1>9

-----------------------------------------------------------------------------
(* What is marked.                                                         *)

LEMMA FillersAre == Fillers = {"mime", "hashing", "media", "content", "dirtree", "basic"}
BY DEF Fillers, Tasks

LEMMA NeedsAre ==
  /\ "dirtree" \in Needs("mime") /\ "dirtree" \in Needs("hashing")
  /\ "dirtree" \in Needs("content") /\ "basic" \in Needs("content")
  /\ "media" \in Needs("content") /\ "basic" \in Needs("media")
<1>1. /\ Fill("mime") = <<"open", "dirtree", "fill">> /\ Fill("hashing") = <<"dirtree", "fill">>
      /\ Fill("content") = <<"basic", "media", "dirtree", "fill">>
      /\ Fill("media") = <<"basic", "fill">>
  BY DEF Fill
<1>2. \A a, b : a \in Range(<<a, b>>)
  <2> TAKE a, b
  <2>1. 1 \in DOMAIN <<a, b>> /\ <<a, b>>[1] = a
    OBVIOUS
  <2> QED BY <2>1 DEF Range
<1>3. "dirtree" \in Range(<<"open", "dirtree", "fill">>)
  <2>1. /\ 2 \in DOMAIN <<"open", "dirtree", "fill">>
        /\ <<"open", "dirtree", "fill">>[2] = "dirtree"
    OBVIOUS
  <2> QED BY <2>1 DEF Range
<1>4. {"basic", "media", "dirtree"} \subseteq Range(<<"basic", "media", "dirtree", "fill">>)
  <2> DEFINE p == <<"basic", "media", "dirtree", "fill">>
  <2>1. {1, 2, 3} \subseteq DOMAIN p /\ p[1] = "basic" /\ p[2] = "media" /\ p[3] = "dirtree"
    OBVIOUS
  <2> QED BY <2>1 DEF Range
<1> QED BY <1>1, <1>2, <1>3, <1>4 DEF Needs, Tasks

(* Hashing is under way when the walk is over.                             *)
LEMMA HashingFollowsWalk ==
  ASSUME ShapeInv, TasksInv, Working("hashing")
  PROVE  Filled("dirtree") /\ ~ Filled("hashing")
<1>1. "hashing" \in Tasks
  BY DEF Tasks
<1> QED BY <1>1, NeedsFilled, NeedsAre

LEMMA MarksKept ==
  ASSUME MarksInv, UNCHANGED <<disk, walk, valid, unreadable>>,
         Filled("dirtree") => Filled("dirtree")'
  PROVE  MarksInv' /\ Done' = Done
<1>1. Done' = Done
  BY DEF Done
<1>2. list' = list /\ disc' = disc /\ ignore' = ignore
  BY DEF disk, walk
<1> QED BY <1>1, <1>2 DEF MarksInv

LEMMA FileMarked ==
  ASSUME Typed, MarksInv, NEW n \in Nodes \ Dirs, ReadFile(n),
         UNCHANGED <<disk, walk>>, Filled("dirtree")'
  PROVE  MarksInv' /\ Done' = Done \cup {n}
<1>1. list' = list /\ disc' = disc /\ ignore' = ignore
  BY DEF disk, walk
<1>2. valid \in [Nodes -> BOOLEAN] /\ unreadable \in [Nodes -> BOOLEAN]
  BY DEF Typed
<1>3. CASE disc[n] # Failing /\ valid' = [valid EXCEPT ![n] = TRUE] /\ unreadable' = unreadable
  <2>1. \A m \in Nodes : (valid'[m] <=> valid[m] \/ m = n) /\ (unreadable'[m] <=> unreadable[m])
    BY <1>2, <1>3
  <2>2. Done' = Done \cup {n}
    BY <2>1 DEF Done
  <2> QED BY <1>1, <1>3, <2>1, <2>2 DEF MarksInv
<1>4. CASE disc[n] = Failing /\ ignore /\ unreadable' = [unreadable EXCEPT ![n] = TRUE]
             /\ valid' = valid
  <2>1. \A m \in Nodes : (unreadable'[m] <=> unreadable[m] \/ m = n) /\ (valid'[m] <=> valid[m])
    BY <1>2, <1>4
  <2>2. Done' = Done \cup {n}
    BY <2>1 DEF Done
  <2> QED BY <1>1, <1>4, <2>1, <2>2 DEF MarksInv
<1> QED BY <1>3, <1>4 DEF ReadFile

LEMMA DirMarked ==
  ASSUME Typed, MarksInv, NEW d \in Dirs, valid' = [valid EXCEPT ![d] = TRUE],
         unreadable' = unreadable, Children(d) \cap Range(list) \subseteq Done,
         UNCHANGED <<disk, walk>>, Filled("dirtree")'
  PROVE  MarksInv' /\ Done' = Done \cup {d}
<1>1. list' = list /\ disc' = disc /\ ignore' = ignore
  BY DEF disk, walk
<1>2. valid \in [Nodes -> BOOLEAN] /\ d \in Nodes
  BY TreeAssumption DEF Typed
<1>3. \A m \in Nodes : (valid'[m] <=> valid[m] \/ m = d) /\ (unreadable'[m] <=> unreadable[m])
  BY <1>2
<1>4. Done' = Done \cup {d}
  BY <1>2, <1>3 DEF Done
<1>5. \A e \in Dirs \cap Done' : Children(e) \cap Range(list) \subseteq Done'
  BY <1>4 DEF MarksInv
<1> QED BY <1>1, <1>3, <1>4, <1>5 DEF MarksInv

-----------------------------------------------------------------------------
(* The calls of hash_dir, and what they have been at.                      *)

LEMMA CallsMore ==
  ASSUME NEW ds, NEW D, NEW E, D \subseteq E, CallsSeen(ds, D)
  PROVE  CallsSeen(ds, E)
BY SeenMore DEF CallsSeen

LEMMA CallsPrime ==
  ASSUME NEW ds, NEW D, CallsSeen(ds, D), dirs' = ds, list' = list, Done' = D
  PROVE  CallsSeen(dirs, Done)'
BY DEF CallsSeen, Seen, HasPassed

LEMMA CallsFront ==
  ASSUME NEW ds \in Seq(HashFrames), ds # <<>>, NEW D, CallsSeen(ds, D)
  PROVE  /\ CallsSeen(Front(ds), D) /\ Seen(Last(ds), D)
         /\ Front(ds) # <<>> => list[Last(Front(ds)).at] = Last(ds).dir
         /\ Front(ds) = <<>> => Last(ds).dir = Head(list)
<1> DEFINE f == Front(ds)
<1>1. /\ Len(ds) \in Nat \ {0} /\ Last(ds) = ds[Len(ds)]
      /\ f \in Seq(HashFrames) /\ Len(f) = Len(ds) - 1
      /\ \A i \in 1 .. Len(ds) - 1 : f[i] = ds[i]
  BY StackFacts
<1> HIDE DEF f
<1>2. DOMAIN ds = 1 .. Len(ds) /\ DOMAIN f = 1 .. Len(ds) - 1
  BY <1>1, LenProperties
<1>3. Seen(Last(ds), D)
  <2>1. Len(ds) \in DOMAIN ds
    BY <1>1, <1>2
  <2> QED BY <1>1, <2>1 DEF CallsSeen
<1>4. ASSUME NEW i \in 1 .. Len(ds) - 1
      PROVE  /\ Seen(f[i], D) /\ list[f[i].at] = ds[i + 1].dir
             /\ i < Len(f) => list[f[i].at] = f[i + 1].dir
  <2>1. i \in DOMAIN ds /\ i < Len(ds) /\ f[i] = ds[i]
    BY <1>1, <1>2
  <2>2. i < Len(f) => f[i + 1] = ds[i + 1]
    BY <1>1
  <2> QED BY <2>1, <2>2 DEF CallsSeen
<1>5. f # <<>> => f[1].dir = Head(list)
  <2> SUFFICES ASSUME f # <<>> PROVE f[1].dir = Head(list)
    OBVIOUS
  <2>1. 1 \in 1 .. Len(ds) - 1
    BY <1>1, EmptySeq, LenProperties
  <2> QED BY <1>1, <2>1 DEF CallsSeen
<1>6. f # <<>> => list[Last(f).at] = Last(ds).dir
  <2> SUFFICES ASSUME f # <<>> PROVE list[Last(f).at] = Last(ds).dir
    OBVIOUS
  <2>1. Last(f) = f[Len(f)] /\ Len(f) \in Nat \ {0}
    BY <1>1, StackFacts
  <2>2. Len(f) \in 1 .. Len(ds) - 1 /\ Len(f) + 1 = Len(ds)
    BY <1>1, <2>1
  <2> QED BY <1>1, <1>4, <2>1, <2>2
<1>7. f = <<>> => Last(ds).dir = Head(list)
  <2> SUFFICES ASSUME f = <<>> PROVE Last(ds).dir = Head(list)
    OBVIOUS
  <2>1. Len(f) = 0
    OBVIOUS
  <2>2. Len(ds) = 1
    BY <1>1, <2>1
  <2> QED BY <1>1, <2>2 DEF CallsSeen
<1> QED BY <1>2, <1>3, <1>4, <1>5, <1>6, <1>7 DEF CallsSeen, f

LEMMA CallsPush ==
  ASSUME NEW ds \in Seq(HashFrames), NEW D, CallsSeen(ds, D), NEW f \in HashFrames, Seen(f, D),
         ds # <<>> => list[Last(ds).at] = f.dir,
         ds = <<>> => f.dir = Head(list)
  PROVE  CallsSeen(Append(ds, f), D)
<1> DEFINE r == Append(ds, f)
<1>1. /\ r \in Seq(HashFrames) /\ Len(r) = Len(ds) + 1 /\ Len(ds) \in Nat
      /\ \A i \in 1 .. Len(ds) + 1 : r[i] = IF i = Len(ds) + 1 THEN f ELSE ds[i]
  BY PushTop, LenProperties
<1> HIDE DEF r
<1>2. DOMAIN ds = 1 .. Len(ds) /\ DOMAIN r = 1 .. Len(ds) + 1
  BY <1>1, LenProperties
<1>3. ASSUME NEW i \in 1 .. Len(ds) + 1
      PROVE  Seen(r[i], D) /\ (i < Len(r) => list[r[i].at] = r[i + 1].dir)
  <2>1. CASE i = Len(ds) + 1
    BY <1>1, <2>1
  <2>2. CASE i < Len(ds)
    <3>1. i \in DOMAIN ds /\ r[i] = ds[i] /\ r[i + 1] = ds[i + 1]
      BY <1>1, <1>2, <2>2
    <3> QED BY <2>2, <3>1 DEF CallsSeen
  <2>3. CASE i = Len(ds)
    <3>1. i \in DOMAIN ds /\ r[i] = ds[i] /\ r[i + 1] = f /\ ds # <<>>
      BY <1>1, <1>2, <2>3
    <3>2. Last(ds) = ds[i]
      BY <2>3 DEF Last
    <3> QED BY <3>1, <3>2 DEF CallsSeen
  <2> QED BY <1>1, <2>1, <2>2, <2>3
<1>4. r[1].dir = Head(list)
  <2>1. CASE ds = <<>>
    <3>1. Len(ds) = 0
      BY <2>1
    <3> QED BY <1>1, <2>1, <3>1
  <2>2. CASE ds # <<>>
    <3>1. Len(ds) # 0
      BY <2>2, EmptySeq, LenProperties
    <3>2. r[1] = ds[1]
      BY <1>1, <3>1
    <3> QED BY <2>2, <3>2 DEF CallsSeen
  <2> QED BY <2>1, <2>2
<1> QED BY <1>2, <1>3, <1>4 DEF CallsSeen, r
-----------------------------------------------------------------------------
(* What each task has done.                                                *)

LEMMA GuessKept ==
  ASSUME list' = list, set' = set
  PROVE  GuessContentType(set.type)' = GuessContentType(set.type)
BY DEF GuessContentType, LooksLike

LEMMA FilledKept ==
  ASSUME FilledInv, Same, UNCHANGED <<disk, walk, mimed, set>>, Done \subseteq Done'
  PROVE  FilledInv'
<1>1. \A u \in {"mime", "hashing", "media", "content", "dirtree", "basic"} :
        Filled(u)' <=> Filled(u)
  BY FillersAre DEF Same
<1>2. Walked => Walked'
  BY WalkKept
<1>3. list' = list
  BY DEF walk
<1> QED BY <1>1, <1>2, <1>3, GuessKept DEF FilledInv

(* A task's own work fills no other.                                       *)
LEMMA OnlyItself ==
  ASSUME Progress, NEW t, Working(t)
  PROVE  \A u \in {"mime", "hashing", "media", "content", "dirtree", "basic"} \ {t} :
           Filled(u)' => Filled(u)
BY FillersAre DEF Progress, Working

LEMMA EndOfWalkFilled ==
  ASSUME FilledInv, Progress, EndWalk \/ AbortWalk
  PROVE  FilledInv'
<1>1. /\ Working("dirtree") /\ UNCHANGED <<disk, walk, mimed, set>>
      /\ UNCHANGED <<valid, unreadable>>
  BY DEF EndWalk, AbortWalk, records
<1>2. \A u \in {"mime", "hashing", "media", "content", "basic"} : Filled(u)' => Filled(u)
  BY <1>1, OnlyItself
<1>3. Walked'
  <2>1. Walked
    BY DEF EndWalk, AbortWalk, EndsWalk, Walked
  <2> QED BY <1>1, <2>1, WalkKept
<1>4. list' = list /\ Done' = Done
  BY <1>1 DEF walk, Done
<1> QED BY <1>1, <1>2, <1>3, <1>4, GuessKept DEF FilledInv

LEMMA HashingFilled ==
  ASSUME FilledInv, Progress, Working("hashing"), UNCHANGED <<disk, walk, mimed, set>>,
         Range(list) \subseteq Done'
  PROVE  FilledInv'
<1>1. \A u \in {"mime", "dirtree", "media", "content", "basic"} : Filled(u)' => Filled(u)
  BY OnlyItself
<1>2. Walked => Walked'
  BY WalkKept
<1>3. list' = list
  BY DEF walk
<1> QED BY <1>1, <1>2, <1>3, GuessKept DEF FilledInv

LEMMA VisitFilled ==
  ASSUME ShapeInv, TasksInv, FilledInv, Same, NEW n \in Nodes, Visit(n)
  PROVE  FilledInv'
<1>1. Working("dirtree") /\ set' = set
  BY DEF Visit
<1>2. ~ Filled("dirtree")
  <2>1. "dirtree" \in Tasks
    BY DEF Tasks
  <2> QED BY <1>1, <2>1, NeedsFilled
<1>3. \A u \in {"mime", "hashing", "content"} : ~ Filled(u)
  BY <1>2, NeedsAre, FillersAre DEF TasksInv
<1>4. \A u \in {"mime", "hashing", "content", "dirtree"} : ~ Filled(u)'
  BY <1>2, <1>3, FillersAre DEF Same
<1>5. \A u \in {"media", "basic"} : Filled(u)' => Filled(u)
  BY FillersAre DEF Same
<1> QED BY <1>1, <1>4, <1>5 DEF FilledInv

LEMMA MimeFilled ==
  ASSUME ShapeInv, FilledInv, Progress, FillMime
  PROVE  FilledInv'
<1>1. /\ Working("mime") /\ UNCHANGED <<disk, walk, valid, unreadable, set>>
      /\ mimed' = [n \in Nodes |-> mimed[n] \/ n \in Range(list)]
  BY DEF FillMime
<1>2. \A u \in {"hashing", "dirtree", "media", "content", "basic"} : Filled(u)' => Filled(u)
  BY <1>1, OnlyItself
<1>3. Walked => Walked'
  BY <1>1, WalkKept
<1>4. list' = list /\ Done' = Done
  BY <1>1 DEF walk, Done
<1>5. \A n \in Range(list) : mimed'[n]
  <2>1. Range(list) \subseteq Nodes
    BY DEF ShapeInv, TypeOK, Range
  <2> QED BY <1>1, <2>1
<1> QED BY <1>1, <1>2, <1>3, <1>4, <1>5, GuessKept DEF FilledInv

(* A filler of the set's record leaves alone what was filled before it.    *)
LEMMA SetFilled ==
  ASSUME ShapeInv, TasksInv, FilledInv, Progress, FillBasic \/ FillMedia \/ FillContent
  PROVE  FilledInv'
<1>1. UNCHANGED <<disk, walk, valid, unreadable, mimed>>
  BY DEF FillBasic, FillMedia, FillContent, records
<1>2. Walked => Walked'
  BY <1>1, WalkKept
<1>3. list' = list /\ Done' = Done
  BY <1>1 DEF walk, Done
<1>4. set \in [name : {"", "given"}, label : {"", "label"}, type : MediaTypes \cup {""},
               content : {"", "Empty", "Generic", "VideoCD", "VideoDVD"}]
  BY TypedNow DEF Typed
<1>5. {"basic", "media", "content"} \subseteq Tasks
  BY DEF Tasks
<1>6. CASE FillBasic
  <2>1. Working("basic") /\ set' = [set EXCEPT !.name = "given", !.label = ""]
    BY <1>6 DEF FillBasic
  <2>2. ~ Filled("basic")
    BY <1>5, <2>1, NeedsFilled
  <2>3. ~ Filled("media") /\ ~ Filled("content")
    BY <2>2, NeedsAre, FillersAre DEF TasksInv
  <2>4. \A u \in {"mime", "hashing", "dirtree", "media", "content"} : Filled(u)' => Filled(u)
    BY <2>1, OnlyItself
  <2> QED BY <1>1, <1>2, <1>3, <1>4, <2>1, <2>3, <2>4 DEF FilledInv
<1>7. CASE FillMedia
  <2>1. PICK t \in MediaTypes : set' = [set EXCEPT !.type = t, !.label = "label"]
    BY <1>7 DEF FillMedia
  <2>2. Working("media")
    BY <1>7 DEF FillMedia
  <2>3. ~ Filled("media")
    BY <1>5, <2>2, NeedsFilled
  <2>4. ~ Filled("content")
    BY <2>3, NeedsAre, FillersAre DEF TasksInv
  <2>5. \A u \in {"mime", "hashing", "dirtree", "basic", "content"} : Filled(u)' => Filled(u)
    BY <2>2, OnlyItself
  <2> QED BY <1>1, <1>2, <1>3, <1>4, <2>1, <2>4, <2>5 DEF FilledInv
<1>8. CASE FillContent
  <2>1. Working("content") /\ set' = [set EXCEPT !.content = GuessContentType(set.type)]
    BY <1>8 DEF FillContent
  <2>2. \A u \in {"mime", "hashing", "dirtree", "basic", "media"} : Filled(u)' => Filled(u)
    BY <2>1, OnlyItself
  <2>3. /\ set'.name = set.name /\ set'.label = set.label /\ set'.type = set.type
        /\ set'.content = GuessContentType(set.type)
    BY <1>4, <2>1
  <2>4. GuessContentType(set.type)' = GuessContentType(set.type)
    BY <1>3, <2>3 DEF GuessContentType, LooksLike
  <2> QED BY <1>1, <1>2, <1>3, <2>2, <2>3, <2>4 DEF FilledInv
<1> QED BY <1>6, <1>7, <1>8

-----------------------------------------------------------------------------
(* The steps of the hashing task.                                          *)

LEMMA VisitHashed ==
  ASSUME ShapeInv, TasksInv, HashedInv, NEW n \in Nodes, Visit(n)
  PROVE  HashedInv'
<1>1. Working("dirtree") /\ UNCHANGED <<records, hashdir>>
  BY DEF Visit
<1>2. "dirtree" \in Tasks \ {"hashing"}
  BY DEF Tasks
<1>3. Done = {}
  BY <1>1, <1>2, NeedsFilled DEF HashedInv, MarksInv
<1>4. Done' = {}
  BY <1>1, <1>3 DEF Done, records
<1>5. dirs' = <<>>
  BY <1>1, <1>2, NoHashDir DEF hashdir
<1>6. MarksInv'
  BY <1>4 DEF MarksInv, Done
<1>7. CallsSeen(dirs, Done)'
  BY <1>5 DEF CallsSeen
<1> QED BY <1>6, <1>7 DEF HashedInv

LEMMA HashedKept ==
  ASSUME HashedInv, UNCHANGED <<disk, walk, valid, unreadable, dirs>>, Progress
  PROVE  HashedInv' /\ Done' = Done
<1>1. Filled("dirtree") => Filled("dirtree")'
  BY FillersAre DEF Progress
<1>2. MarksInv' /\ Done' = Done
  BY <1>1, MarksKept DEF HashedInv
<1>3. CallsSeen(dirs, Done)'
  BY <1>2, CallsPrime DEF HashedInv, walk
<1> QED BY <1>2, <1>3 DEF HashedInv

(* A single file, or nothing at all, is hashed.                            *)
LEMMA NoDirectoryHashed ==
  ASSUME ShapeInv, TasksInv, VisitedInv, HashedInv, Progress, NothingToHash \/ HashSingleFile
  PROVE  HashedInv' /\ Range(list) \subseteq Done'
<1>1. list \in Seq(Nodes) /\ IsSorted(list, Before) /\ Typed /\ Working("hashing")
  BY TypedNow DEF ShapeInv, TypeOK, ListSorted, NothingToHash, HashSingleFile
<1>2. Filled("dirtree")'
  BY <1>1, HashingFollowsWalk, FillersAre DEF Progress
<1>3. CASE NothingToHash
  <2>1. UNCHANGED <<disk, walk, valid, unreadable, dirs>> /\ list = <<>>
    BY <1>3 DEF NothingToHash, records, hashdir
  <2>2. HashedInv'
    BY <2>1, HashedKept
  <2> QED BY <2>1, <2>2 DEF Range
<1>4. CASE HashSingleFile
  <2> DEFINE n == Head(list)
  <2>1. /\ list # <<>> /\ n \notin Dirs /\ ReadFile(n) /\ UNCHANGED <<disk, walk, hashdir>>
    BY <1>4 DEF HashSingleFile
  <2>2. n \in Nodes
    BY <1>1, <2>1, HeadTailProperties
  <2>3. dirs' = <<>> /\ dirs = <<>>
    BY <2>1 DEF ShapeInv, HashingInProgress, hashdir
  <2> HIDE DEF n
  <2>4. MarksInv' /\ Done' = Done \cup {n}
    BY <1>1, <1>2, <2>1, <2>2, FileMarked DEF HashedInv
  <2>5. CallsSeen(dirs, Done)'
    BY <2>3 DEF CallsSeen
  <2>6. Range(list) \subseteq Done'
    <3>1. \A d \in Dirs \cap Done' : Children(d) \cap Range(list) \subseteq Done'
      BY <2>1, <2>4 DEF MarksInv, walk
    <3>2. list # <<>> => Head(list) \in Done'
      BY <2>4 DEF n
    <3> QED BY <1>1, <3>1, <3>2, AllDone
  <2> QED BY <2>4, <2>5, <2>6 DEF HashedInv
<1> QED BY <1>3, <1>4

LEMMA HashTopHashed ==
  ASSUME ShapeInv, HashedInv, Progress, HashTop
  PROVE  HashedInv' /\ Done' = Done
<1> DEFINE f == HashDir(Head(list), 1)
<1>1. list \in Seq(Nodes) /\ IsSorted(list, Before) /\ list # <<>> /\ Head(list) \in Dirs
  BY DEF ShapeInv, TypeOK, ListSorted, HashTop
<1>2. 1 \in 1 .. Len(list) /\ Head(list) = list[1]
  BY <1>1, TailFacts
<1>3. Seen(f, Done) /\ f.dir = Head(list)
  BY <1>1, <1>2, SeenBegins DEF HashDir
<1>4. dirs' = <<f>> /\ UNCHANGED <<disk, walk, records>>
  BY DEF HashTop
<1> HIDE DEF f
<1>5. MarksInv' /\ Done' = Done
  BY <1>4, MarksKept, FillersAre DEF HashedInv, Progress, records
<1>6. CallsSeen(<<f>>, Done)
  BY <1>3 DEF CallsSeen
<1>7. CallsSeen(dirs, Done)'
  BY <1>4, <1>5, <1>6, CallsPrime DEF walk
<1> QED BY <1>5, <1>7 DEF HashedInv

LEMMA CallFacts ==
  ASSUME ShapeInv, HashedInv, NEW phase, InHashDir(phase)
  PROVE  /\ list \in Seq(Nodes) /\ IsSorted(list, Before) /\ Typed
         /\ dirs \in Seq(HashFrames) /\ dirs # <<>> /\ Front(dirs) \in Seq(HashFrames)
         /\ Dir \in HashFrames /\ Shows(Dir) /\ Dir.phase = phase
         /\ MarksInv /\ CallsSeen(dirs, Done) /\ CallsSeen(Front(dirs), Done) /\ Seen(Dir, Done)
         /\ Front(dirs) # <<>> => list[Last(Front(dirs)).at] = Dir.dir
         /\ Front(dirs) = <<>> => Dir.dir = Head(list)
<1>1. /\ list \in Seq(Nodes) /\ IsSorted(list, Before)
      /\ DirsOK(dirs) /\ dirs # <<>> /\ Dir \in HashFrames /\ Shows(Dir)
  BY HashDirFacts
<1>2. dirs \in Seq(HashFrames) /\ Front(dirs) \in Seq(HashFrames)
  BY <1>1, DirsFront DEF DirsOK
<1>3. Dir.phase = phase
  BY DEF InHashDir
<1>4. MarksInv /\ CallsSeen(dirs, Done)
  BY DEF HashedInv
<1>5. /\ CallsSeen(Front(dirs), Done) /\ Seen(Dir, Done)
      /\ Front(dirs) # <<>> => list[Last(Front(dirs)).at] = Dir.dir
      /\ Front(dirs) = <<>> => Dir.dir = Head(list)
  BY <1>1, <1>2, <1>4, CallsFront DEF Dir
<1> QED BY <1>1, <1>2, <1>3, <1>4, <1>5, TypedNow

(* The top call goes on, to a record of its own directory or to its files. *)
LEMMA TopGoesOn ==
  ASSUME ShapeInv, HashedInv, NEW phase, InHashDir(phase),
         NEW E, Done \subseteq E, NEW f \in HashFrames, f.dir = Dir.dir, Seen(f, E)
  PROVE  CallsSeen(Append(Front(dirs), f), E)
<1>1. /\ Front(dirs) \in Seq(HashFrames) /\ CallsSeen(Front(dirs), Done)
      /\ Front(dirs) # <<>> => list[Last(Front(dirs)).at] = Dir.dir
      /\ Front(dirs) = <<>> => Dir.dir = Head(list)
  BY CallFacts
<1>2. CallsSeen(Front(dirs), E)
  BY <1>1, CallsMore
<1> QED BY <1>1, <1>2, CallsPush

LEMMA NamesHashed ==
  ASSUME ShapeInv, HashedInv, Progress, NoteFileName \/ Descend \/ HashNames
  PROVE  HashedInv' /\ Done' = Done
<1>1. InHashDir("names") /\ UNCHANGED <<disk, walk, valid, unreadable>>
  BY DEF NoteFileName, Descend, HashNames, records
<1>2. /\ list \in Seq(Nodes) /\ IsSorted(list, Before)
      /\ dirs \in Seq(HashFrames) /\ dirs # <<>>
      /\ Dir \in HashFrames /\ Shows(Dir) /\ Dir.phase = "names"
      /\ MarksInv /\ CallsSeen(dirs, Done) /\ Seen(Dir, Done)
  BY <1>1, CallFacts
<1>3. MarksInv' /\ Done' = Done
  BY <1>1, <1>2, MarksKept, FillersAre DEF Progress
<1>4. CASE NoteFileName
  <2>1. ~ AtEnd(list, Dir.dir, Dir.at) /\ list[Dir.at] \notin Dirs
    BY <1>4 DEF NoteFileName, DirAtEnd, Entry
  <2>2. Advanced(Dir) \in HashFrames
    BY <1>2, <2>1, AdvancedFacts
  <2>3. Seen(Advanced(Dir), Done)
    BY <1>2, <2>1, SeenAdvances
  <2>4. Advanced(Dir).dir = Dir.dir
    BY <1>2 DEF Advanced, HashFrames
  <2>5. CallsSeen(Append(Front(dirs), Advanced(Dir)), Done)
    BY <1>1, <2>2, <2>3, <2>4, TopGoesOn
  <2>6. dirs' = Append(Front(dirs), Advanced(Dir)) /\ list' = list
    BY <1>1, <1>4 DEF NoteFileName, walk
  <2> QED BY <1>3, <2>5, <2>6, CallsPrime DEF HashedInv
<1>5. CASE Descend
  <2> DEFINE f == HashDir(Entry, Dir.at)
  <2>1. ~ AtEnd(list, Dir.dir, Dir.at) /\ Entry = list[Dir.at] /\ list[Dir.at] \in Dirs
    BY <1>5 DEF Descend, DirAtEnd, Entry
  <2>2. Dir.at \in 1 .. Len(list)
    BY <1>2, <2>1 DEF AtEnd, HashFrames
  <2>3. f \in HashFrames /\ f.dir = list[Dir.at] /\ Seen(f, Done)
    BY <1>2, <2>1, <2>2, HashDirBegins, SeenBegins DEF HashDir
  <2> HIDE DEF f
  <2>4. CallsSeen(Append(dirs, f), Done)
    BY <1>2, <2>3, CallsPush DEF Dir
  <2>5. dirs' = Append(dirs, f) /\ list' = list
    BY <1>1, <1>5 DEF Descend, walk, f
  <2> QED BY <1>3, <2>4, <2>5, CallsPrime DEF HashedInv
<1>6. CASE HashNames
  <2> DEFINE at == FirstFile(list, Dir.dir, Dir.view)
             f == [Dir EXCEPT !.phase = "files", !.at = at]
  <2>1. AtEnd(list, Dir.dir, Dir.at)
    BY <1>6 DEF HashNames, DirAtEnd
  <2>2. Seen(f, Done)
    BY <1>2, <2>1, SeenFiles
  <2>3. at \in 1 .. Len(list) + 1
    <3>1. Dir.view \in 1 .. Len(list)
      BY <1>2 DEF HashFrames
    <3>2. at \in Dir.view .. Len(list) + 1
      BY <1>2, <3>1, FirstFileLeast
    <3> HIDE DEF at
    <3> QED BY <3>1, <3>2
  <2> HIDE DEF at
  <2>4. f \in HashFrames /\ f.dir = Dir.dir
    BY <1>2, <2>3 DEF HashFrames
  <2> HIDE DEF f
  <2>5. CallsSeen(Append(Front(dirs), f), Done)
    BY <1>1, <2>2, <2>4, TopGoesOn
  <2>6. dirs' = Append(Front(dirs), f) /\ list' = list
    BY <1>1, <1>6 DEF HashNames, walk, f, at
  <2> QED BY <1>3, <2>5, <2>6, CallsPrime DEF HashedInv
<1> QED BY <1>4, <1>5, <1>6

LEMMA HashFileHashed ==
  ASSUME ShapeInv, TasksInv, HashedInv, Progress, HashFile
  PROVE  HashedInv' /\ Done \subseteq Done'
<1>1. /\ InHashDir("files") /\ ~ AtEnd(list, Dir.dir, Dir.at) /\ ReadFile(Entry)
      /\ dirs' = Append(Front(dirs), Advanced(Dir)) /\ UNCHANGED <<disk, walk>>
      /\ Working("hashing")
  BY DEF HashFile, DirAtEnd, InHashDir
<1>2. /\ list \in Seq(Nodes) /\ IsSorted(list, Before) /\ Typed
      /\ Dir \in HashFrames /\ Shows(Dir) /\ Dir.phase = "files"
      /\ MarksInv /\ Seen(Dir, Done)
  BY <1>1, CallFacts
<1>3. Entry = list[Dir.at] /\ Entry \in Nodes \ Dirs
  <2>1. Dir.at \in 1 .. Len(list)
    BY <1>1, <1>2 DEF AtEnd, HashFrames
  <2> QED BY <1>1, <1>2, <2>1, ElementOfSeq DEF Entry, Shows
<1>4. Filled("dirtree")'
  BY <1>1, HashingFollowsWalk, FillersAre DEF Progress
<1>5. MarksInv' /\ Done' = Done \cup {Entry}
  BY <1>1, <1>2, <1>3, <1>4, FileMarked
<1> DEFINE E == Done \cup {Entry}
           f == Advanced(Dir)
<1>6. Advanced(Dir) \in HashFrames /\ Advanced(Dir).dir = Dir.dir
  BY <1>1, <1>2, AdvancedFacts DEF Advanced, HashFrames
<1>7. Done \subseteq E /\ list[Dir.at] \in E
  BY <1>3
<1> HIDE DEF E
<1>8. Seen(Advanced(Dir), E)
  BY <1>1, <1>2, <1>7, SeenAdvances
<1>9. CallsSeen(Append(Front(dirs), Advanced(Dir)), E)
  BY <1>1, <1>6, <1>7, <1>8, TopGoesOn
<1>10. CallsSeen(dirs, Done)'
  BY <1>1, <1>5, <1>9, CallsPrime DEF E, walk
<1> QED BY <1>5, <1>10 DEF HashedInv

(* A directory is marked when its call has been at all that is in it; the  *)
(* first is when everything has been hashed.                               *)
LEMMA EndDirHashed ==
  ASSUME ShapeInv, TasksInv, VisitedInv, HashedInv, Progress, EndDir
  PROVE  HashedInv' /\ Done \subseteq Done' /\ (Len(dirs) = 1 => Range(list) \subseteq Done')
<1>1. /\ InHashDir("files") /\ AtEnd(list, Dir.dir, Dir.at) /\ Working("hashing")
      /\ valid' = [valid EXCEPT ![Dir.dir] = TRUE]
      /\ UNCHANGED <<disk, walk, unreadable>>
  BY DEF EndDir, DirAtEnd, InHashDir
<1>2. /\ list \in Seq(Nodes) /\ IsSorted(list, Before) /\ Typed
      /\ dirs \in Seq(HashFrames) /\ dirs # <<>> /\ Front(dirs) \in Seq(HashFrames)
      /\ Dir \in HashFrames /\ Dir.phase = "files"
      /\ MarksInv /\ CallsSeen(Front(dirs), Done) /\ Seen(Dir, Done)
      /\ Front(dirs) # <<>> => list[Last(Front(dirs)).at] = Dir.dir
      /\ Front(dirs) = <<>> => Dir.dir = Head(list)
  BY <1>1, CallFacts
<1>3. Children(Dir.dir) \cap Range(list) \subseteq Done
  <2> SUFFICES ASSUME NEW m \in Children(Dir.dir), m \in Range(list)
               PROVE  m \in Done
    OBVIOUS
  <2>1. DOMAIN list = 1 .. Len(list)
    BY <1>2, LenProperties
  <2>2. PICK p \in 1 .. Len(list) : m = list[p]
    BY <2>1 DEF Range
  <2>3. IsIn(list[p], Dir.dir)
    BY <2>2 DEF Children
  <2>4. p < Dir.at
    BY <1>1, <1>2, <2>3, AllBefore
  <2>5. HasPassed(Dir, p)
    BY <1>2, <2>3, <2>4 DEF HasPassed
  <2> QED BY <1>2, <2>1, <2>2, <2>5 DEF Seen
<1>4. Filled("dirtree")'
  BY <1>1, HashingFollowsWalk, FillersAre DEF Progress
<1>5. Dir.dir \in Dirs
  BY <1>2 DEF HashFrames
<1>6. MarksInv' /\ Done' = Done \cup {Dir.dir}
  BY <1>1, <1>2, <1>3, <1>4, <1>5, DirMarked
<1>7. Len(dirs) \in Nat \ {0} /\ Len(Front(dirs)) = Len(dirs) - 1
  BY <1>2, StackFacts
<1>8. CASE Len(dirs) = 1
  <2>1. dirs' = <<>>
    BY <1>8 DEF EndDir
  <2>2. CallsSeen(dirs, Done)'
    BY <2>1 DEF CallsSeen
  <2>3. Head(list) \in Done'
    <3>1. Front(dirs) = <<>>
      <4>1. Len(Front(dirs)) = 0
        BY <1>7, <1>8
      <4> QED BY <1>2, <4>1, EmptySeq
    <3> QED BY <1>2, <1>6, <3>1
  <2>4. \A d \in Dirs \cap Done' : Children(d) \cap Range(list) \subseteq Done'
    BY <1>1, <1>6 DEF MarksInv, walk
  <2>5. Range(list) \subseteq Done'
    BY <1>2, <2>3, <2>4, AllDone
  <2> QED BY <1>6, <2>2, <2>5 DEF HashedInv
<1>9. CASE Len(dirs) > 1
  <2> DEFINE above == Front(dirs)
             f == Last(above)
             E == Done \cup {Dir.dir}
  <2>1. dirs' = Append(Front(above), Advanced(f))
    <3>1. Len(dirs) # 1
      BY <1>7, <1>9
    <3> QED BY <3>1, Zenon DEF EndDir
  <2>2. DirsOK(above) /\ above # <<>>
    <3>1. Len(above) # 0
      BY <1>7, <1>9
    <3>2. DirsOK(dirs)
      BY <1>1, HashDirFacts
    <3> QED BY <1>2, <3>1, <3>2, DirsFront, EmptySeq
  <2>3. f \in HashFrames /\ Waits(f)
    <3>1. DirsOK(dirs)
      BY <1>1, HashDirFacts
    <3> QED BY <1>2, <2>2, <3>1, DirsFront
  <2>4. Shows(f) /\ DirsOK(Front(above))
    BY <2>2, DirsFront
  <2>5. /\ CallsSeen(Front(above), Done) /\ Seen(f, Done)
        /\ Front(above) # <<>> => list[Last(Front(above)).at] = f.dir
        /\ Front(above) = <<>> => f.dir = Head(list)
    BY <1>2, <2>2, CallsFront
  <2>6. list[f.at] = Dir.dir
    BY <1>2, <2>2
  <2> HIDE DEF above, f
  <2>7. Done \subseteq E /\ list[f.at] \in E
    BY <2>6
  <2> HIDE DEF E
  <2>8. Advanced(f) \in HashFrames /\ Advanced(f).dir = f.dir
    BY <1>2, <2>3, <2>4, AdvancedFacts DEF Waits, Advanced, HashFrames
  <2>9. Seen(Advanced(f), E)
    BY <1>2, <2>3, <2>5, <2>7, SeenAdvances DEF Waits
  <2>10. CallsSeen(Front(above), E)
    BY <2>5, <2>7, CallsMore
  <2>11. CallsSeen(Append(Front(above), Advanced(f)), E)
    <3>1. Front(above) \in Seq(HashFrames)
      BY <2>4 DEF DirsOK
    <3> QED BY <2>5, <2>8, <2>9, <2>10, <3>1, CallsPush
  <2>12. Done' = E
    BY <1>6 DEF E
  <2>13. CallsSeen(dirs, Done)'
    <3>1. list' = list
      BY <1>1 DEF walk
    <3> QED BY <2>1, <2>11, <2>12, <3>1, CallsPrime
  <2> QED BY <1>6, <1>7, <1>9, <2>13 DEF HashedInv
<1> QED BY <1>7, <1>8, <1>9

-----------------------------------------------------------------------------
(* Every step keeps the invariant.                                         *)

(* A step that is not of the hashing task and changes no record's marks.   *)
LEMMA StepElsewhere ==
  ASSUME ScanInv, ShapeInv', TasksInv', Progress, FilledInv',
         UNCHANGED <<disk, walk, valid, unreadable, dirs>>
  PROVE  ScanInv'
<1>1. VisitedInv'
  BY WalkKept DEF ScanInv
<1>2. HashedInv'
  BY HashedKept DEF ScanInv
<1> QED BY <1>1, <1>2 DEF ScanInv

LEMMA CallOrReturn ==
  ASSUME ScanInv, ShapeInv', (\E t \in Tasks : Call(t)) \/ Return \/ OpenMagic
  PROVE  ScanInv'
<1>1. UNCHANGED <<disk, walk, valid, unreadable, mimed, dirs, set>>
  BY DEF Call, Return, OpenMagic, records, hashdir
<1>2. TasksInv' /\ Same
  <2>1. CASE \E t \in Tasks : Call(t)
    BY <2>1, CallTasks DEF ScanInv
  <2>2. CASE Return
    BY <2>2, ReturnTasks DEF ScanInv
  <2>3. CASE OpenMagic
    <3>1. /\ Busy("open") /\ stack' = Popped /\ made' = made /\ result' # "stored"
          /\ \A t : ~ Working(t)
      BY <2>3 DEF OpenMagic, Busy, Working
    <3>2. TasksInv' /\ Progress
      BY <3>1, WorkTasks DEF ScanInv
    <3> QED BY <3>1, <3>2 DEF Progress, Same
  <2> QED BY <2>1, <2>2, <2>3
<1>3. FilledInv'
  <2>1. Done' = Done
    BY <1>1 DEF Done
  <2> QED BY <1>1, <1>2, <2>1, FilledKept DEF ScanInv
<1> QED BY <1>1, <1>2, <1>3, SameProgresses, StepElsewhere

LEMMA OwnWork ==
  ASSUME ScanInv, ShapeInv',
         EndWalk \/ AbortWalk \/ FillMime \/ FillBasic \/ FillMedia \/ FillContent
  PROVE  ScanInv'
<1>1. /\ UNCHANGED <<disk, walk, valid, unreadable, dirs>>
      /\ Busy("fill") /\ stack' = Popped /\ made' = made /\ result' # "stored"
  BY DEF EndWalk, AbortWalk, FillMime, FillBasic, FillMedia, FillContent, Working, Busy,
         records, hashdir
<1>2. TasksInv' /\ Progress
  BY <1>1, WorkTasks DEF ScanInv
<1>3. FilledInv'
  <2>1. CASE EndWalk \/ AbortWalk
    BY <1>2, <2>1, EndOfWalkFilled DEF ScanInv
  <2>2. CASE FillMime
    BY <1>2, <2>2, MimeFilled DEF ScanInv
  <2>3. CASE FillBasic \/ FillMedia \/ FillContent
    BY <1>2, <2>3, SetFilled DEF ScanInv
  <2> QED BY <2>1, <2>2, <2>3
<1> QED BY <1>1, <1>2, <1>3, StepElsewhere

LEMMA VisitStep ==
  ASSUME ScanInv, ShapeInv', NEW n \in Nodes, Visit(n)
  PROVE  ScanInv'
<1>1. UNCHANGED tasks /\ result' # "stored"
  BY DEF Visit, Working, Busy
<1>2. TasksInv' /\ Same
  BY <1>1, TasksKept DEF ScanInv
<1> QED BY <1>2, VisitVisited, VisitHashed, VisitFilled DEF ScanInv

LEMMA HashingGoesOn ==
  ASSUME ScanInv, ShapeInv', UNCHANGED tasks,
         HashTop \/ NoteFileName \/ Descend \/ HashNames \/ HashFile \/ EndDir
  PROVE  ScanInv'
<1>1. UNCHANGED <<disk, walk, mimed, set>> /\ result' # "stored"
  <2>1. CASE HashTop \/ NoteFileName \/ Descend \/ HashNames
    BY <2>1 DEF HashTop, NoteFileName, Descend, HashNames, InHashDir, Working, Busy, records
  <2>2. CASE HashFile \/ EndDir
    BY <2>2 DEF HashFile, EndDir, ReadFile, InHashDir, Working, Busy
  <2> QED BY <2>1, <2>2
<1>2. TasksInv' /\ Same
  BY <1>1, TasksKept DEF ScanInv
<1>3. Progress
  BY <1>2, SameProgresses
<1>4. HashedInv' /\ Done \subseteq Done'
  <2>1. CASE HashTop
    BY <1>3, <2>1, HashTopHashed DEF ScanInv
  <2>2. CASE NoteFileName \/ Descend \/ HashNames
    BY <1>3, <2>2, NamesHashed DEF ScanInv
  <2>3. CASE HashFile
    BY <1>3, <2>3, HashFileHashed DEF ScanInv
  <2>4. CASE EndDir
    BY <1>3, <2>4, EndDirHashed DEF ScanInv
  <2> QED BY <2>1, <2>2, <2>3, <2>4
<1>5. FilledInv'
  BY <1>1, <1>2, <1>4, FilledKept DEF ScanInv
<1>6. VisitedInv'
  BY <1>1, WalkKept DEF ScanInv
<1> QED BY <1>2, <1>4, <1>5, <1>6 DEF ScanInv

LEMMA HashingEnds ==
  ASSUME ScanInv, ShapeInv', stack' = Popped,
         NothingToHash \/ HashSingleFile \/ (EndDir /\ Len(dirs) = 1)
  PROVE  ScanInv'
<1>1. /\ UNCHANGED <<disk, walk, mimed, set>> /\ result' # "stored" /\ made' = made
      /\ Working("hashing") /\ Busy("fill")
  BY DEF NothingToHash, HashSingleFile, EndDir, ReadFile, InHashDir, Working, Busy, records
<1>2. TasksInv' /\ Progress
  BY <1>1, WorkTasks DEF ScanInv
<1>3. HashedInv' /\ Range(list) \subseteq Done'
  BY <1>2, NoDirectoryHashed, EndDirHashed DEF ScanInv
<1>4. FilledInv'
  BY <1>1, <1>2, <1>3, HashingFilled DEF ScanInv
<1>5. VisitedInv'
  BY <1>1, WalkKept DEF ScanInv
<1> QED BY <1>2, <1>3, <1>4, <1>5 DEF ScanInv

LEMMA RunEnds ==
  ASSUME ScanInv, ShapeInv',
         ReadError \/ NoMagic \/ NoDiscInfo \/ NoFirstRecord \/ AddToDb \/ UNCHANGED vars
  PROVE  ScanInv'
<1>1. UNCHANGED <<disk, tasks, walk, records, hashdir, set>>
  BY DEF ReadError, NoMagic, NoDiscInfo, NoFirstRecord, Fail, AddToDb, vars
<1>2. TasksInv' /\ Same
  <2>1. CASE AddToDb
    BY <2>1, EndTasks DEF ScanInv
  <2>2. CASE ReadError \/ NoMagic \/ NoDiscInfo \/ NoFirstRecord
    <3>1. result' # "stored"
      BY <2>2 DEF ReadError, NoMagic, NoDiscInfo, NoFirstRecord, Fail
    <3> QED BY <1>1, <3>1, TasksKept DEF ScanInv
  <2>3. CASE UNCHANGED vars
    <3>1. stack' = stack /\ made' = made /\ result' = result
      BY <2>3 DEF vars, tasks
    <3> QED BY <3>1 DEF ScanInv, TasksInv, Same, Filled
  <2> QED BY <2>1, <2>2, <2>3
<1>3. UNCHANGED <<disk, walk, valid, unreadable, mimed, dirs, set>>
  BY <1>1 DEF records, hashdir
<1>4. FilledInv'
  <2>1. Done' = Done
    BY <1>3 DEF Done
  <2> QED BY <1>2, <1>3, <2>1, FilledKept DEF ScanInv
<1> QED BY <1>2, <1>3, <1>4, SameProgresses, StepElsewhere

LEMMA ScanInvInit == Init => ScanInv
<1> SUFFICES ASSUME Init PROVE ScanInv
  OBVIOUS
<1>1. ShapeInv /\ TasksInv
  BY InitInv, TasksInit
<1>2. /\ visited = {} /\ list = <<>> /\ dirs = <<>> /\ made = {}
      /\ valid = [n \in Nodes |-> FALSE] /\ unreadable = [n \in Nodes |-> FALSE]
  BY DEF Init
<1>3. VisitedInv
  BY <1>2 DEF VisitedInv, Range
<1>4. Done = {}
  BY <1>2 DEF Done
<1>5. MarksInv
  BY <1>2, <1>4 DEF MarksInv
<1>6. CallsSeen(dirs, Done)
  BY <1>2 DEF CallsSeen
<1>7. FilledInv
  BY <1>2 DEF FilledInv, Filled
<1> QED BY <1>1, <1>3, <1>5, <1>6, <1>7 DEF ScanInv, HashedInv

LEMMA ScanInvNext == ScanInv /\ [Next]_vars => ScanInv'
<1> SUFFICES ASSUME ScanInv, [Next]_vars PROVE ScanInv'
  OBVIOUS
<1>0. ShapeInv'
  BY NextInv DEF ScanInv
<1>1. CASE (\E t \in Tasks : Call(t)) \/ Return \/ OpenMagic
  BY <1>0, <1>1, CallOrReturn
<1>2. ASSUME NEW n \in Nodes, Visit(n) PROVE ScanInv'
  BY <1>0, <1>2, VisitStep
<1>3. CASE EndWalk \/ AbortWalk \/ FillMime \/ FillBasic \/ FillMedia \/ FillContent
  BY <1>0, <1>3, OwnWork
<1>4. CASE HashTop \/ NoteFileName \/ Descend \/ HashNames \/ HashFile
  <2>1. UNCHANGED tasks
    BY <1>4 DEF HashTop, NoteFileName, Descend, HashNames, HashFile
  <2> QED BY <1>0, <1>4, <2>1, HashingGoesOn
<1>5. CASE EndDir
  <2>1. CASE Len(dirs) = 1
    <3>1. stack' = Popped
      BY <1>5, <2>1 DEF EndDir
    <3> QED BY <1>0, <1>5, <2>1, <3>1, HashingEnds
  <2>2. CASE Len(dirs) # 1
    <3>1. UNCHANGED tasks
      BY <1>5, <2>2 DEF EndDir, tasks
    <3> QED BY <1>0, <1>5, <3>1, HashingGoesOn
  <2> QED BY <2>1, <2>2
<1>6. CASE NothingToHash \/ HashSingleFile
  <2>1. stack' = Popped
    BY <1>6 DEF NothingToHash, HashSingleFile
  <2> QED BY <1>0, <1>6, <2>1, HashingEnds
<1>7. CASE ReadError \/ NoMagic \/ NoDiscInfo \/ NoFirstRecord \/ AddToDb \/ UNCHANGED vars
  BY <1>0, <1>7, RunEnds
<1> QED BY <1>1, <1>2, <1>3, <1>4, <1>5, <1>6, <1>7 DEF Next

(* In every state of a scan a task that is filled has done its work on     *)
(* what the tasks before it have left: the invariant of machinery's tasks. *)
THEOREM ScanInvariant == Spec => []ScanInv
BY ScanInvInit, ScanInvNext, PTL DEF Spec

(* What add_to_db writes (scan/main.cpp:134) is complete: every record has *)
(* been given a mime type and is hashed or marked as unreadable, the       *)
(* latter only with --ignore-errors; the set's record has all its fields,  *)
(* its content guessed from its final type and the whole list.             *)
THEOREM WrittenTheorem == Spec => []WrittenIsComplete
<1>1. ScanInv => WrittenIsComplete
  <2> SUFFICES ASSUME ScanInv, result = "stored" PROVE WrittenIsComplete
    BY DEF WrittenIsComplete
  <2>1. \A t \in {"mime", "hashing", "media", "content", "basic"} : Filled(t)
    BY DEF ScanInv, TasksInv, Tasks
  <2>2. Range(list) \subseteq Nodes /\ valid \in [Nodes -> BOOLEAN] /\ unreadable \in [Nodes -> BOOLEAN]
    BY DEF ScanInv, ShapeInv, TypeOK, Range
  <2>3. ASSUME NEW n \in Listed
        PROVE  /\ mimed[n]
               /\ valid[n] # unreadable[n]
               /\ unreadable[n] <=> n \notin Dirs /\ disc[n] = Failing
               /\ unreadable[n] => ignore
    <3>1. n \in Nodes /\ n \in Done /\ mimed[n]
      BY <2>1, <2>2, <2>3 DEF Listed, ScanInv, FilledInv
    <3>2. /\ valid[n] => n \in Dirs \/ disc[n] # Failing
          /\ unreadable[n] => n \notin Dirs /\ disc[n] = Failing /\ ignore
      BY <3>1 DEF ScanInv, HashedInv, MarksInv
    <3>3. valid[n] \/ unreadable[n]
      BY <3>1 DEF Done
    <3>4. valid[n] \in BOOLEAN /\ unreadable[n] \in BOOLEAN
      BY <2>2, <3>1
    <3> QED BY <3>1, <3>2, <3>3, <3>4
  <2>4. /\ set.name = "given" /\ set.label = "label" /\ set.type \in MediaTypes
        /\ set.content = GuessContentType(set.type)
    BY <2>1 DEF ScanInv, FilledInv
  <2> QED BY <2>3, <2>4 DEF WrittenIsComplete
<1> QED BY ScanInvariant, <1>1, PTL

(* Of the directories that are not seen to their end one is the deepest.   *)
LEMMA DeepestExists ==
  ASSUME ScanInv, Unfinished # {}
  PROVE  \E d \in Unfinished : \A e \in Unfinished : Depth[e] <= Depth[d]
<1>1. list \in Seq(Nodes) /\ IsSorted(list, Before)
  BY DEF ScanInv, ShapeInv, TypeOK, ListSorted
<1>2. Unfinished \subseteq Range(list)
  BY DEF ScanInv, VisitedInv, Unfinished, Fine, Gone
<1>3. Range(list) \subseteq Nodes
  BY <1>1 DEF Range
<1> DEFINE Top(m) == \A e \in Unfinished : Depth[e] <= m
           M == {m \in Nat : Top(m)}
<1>4. Depth \in [Nodes -> Nat]
  BY TreeAssumption
<1>5. Depth[Last(list)] \in M
  <2>1. Len(list) \in Nat /\ DOMAIN list = 1 .. Len(list)
    BY <1>1, LenProperties
  <2>2. list # <<>>
    BY <1>2 DEF Range
  <2>3. Last(list) = list[Len(list)] /\ Last(list) \in Nodes
    BY <1>1, <2>2, StackFacts
  <2>4. ASSUME NEW e \in Unfinished PROVE Depth[e] <= Depth[Last(list)]
    <3>1. PICK i \in 1 .. Len(list) : e = list[i]
      BY <1>2, <2>1 DEF Range
    <3>2. CASE i = Len(list)
      BY <2>3, <3>1, <3>2, <1>4
    <3>3. CASE i # Len(list)
      <4>1. i < Len(list) /\ Len(list) \in 1 .. Len(list)
        <5>1. \A l \in Nat : \A j \in 1 .. l : j # l => j < l /\ l \in 1 .. l
          OBVIOUS
        <5> QED BY <2>1, <3>3, <5>1
      <4>2. Before(list[i], list[Len(list)])
        BY <1>1, <2>1, <4>1 DEF IsSorted
      <4>3. e \in Nodes
        BY <1>2, <1>3
      <4> QED BY <1>4, <2>3, <3>1, <4>2, <4>3 DEF Before
    <3> QED BY <3>2, <3>3
  <2> QED BY <1>4, <2>3, <2>4
<1>6. PICK m \in M : \A l \in M : m <= l
  BY <1>5, LeastExists
<1>7. \E d \in Unfinished : Depth[d] >= m
  <2> SUFFICES ASSUME \A d \in Unfinished : ~ Depth[d] >= m PROVE FALSE
    OBVIOUS
  <2>1. \A d \in Unfinished : Depth[d] \in Nat
    BY <1>2, <1>3, <1>4
  <2>2. m # 0
    BY <2>1
  <2>3. m - 1 \in M
    BY <2>1, <2>2
  <2> QED BY <1>6, <2>3
<1>8. \A d \in Unfinished : Depth[d] \in Nat
  BY <1>2, <1>3, <1>4
<1> QED BY <1>6, <1>7, <1>8

(* Every entry that nftw reports below a directory it can list is written. *)
THEOREM EveryEntryTheorem == Spec => []EveryEntryWritten
<1>1. ScanInv => EveryEntryWritten
  <2> SUFFICES ASSUME ScanInv, result = "stored", \A d \in Dirs : disc[d] # Failing,
                      NEW n \in Nodes,
                      n = top \/ (n # Root /\ Parent[n] \in Listed /\ disc[Parent[n]] = Fine)
               PROVE  n \in Listed <=> disc[n] # Gone
    BY DEF EveryEntryWritten
  <2>1. \A m \in Nodes : ~ IsNext(m)
    BY DEF ScanInv, TasksInv, FilledInv, Walked, Tasks
  <2>2. Unfinished = {}
    <3> SUFFICES ASSUME Unfinished # {} PROVE FALSE
      OBVIOUS
    <3>1. PICK d \in Unfinished : \A e \in Unfinished : Depth[e] <= Depth[d]
      BY DeepestExists
    <3>2. PICK m \in Children(d) : m \notin visited
      BY <3>1 DEF Unfinished
    <3>3. m \in Nodes /\ IsIn(m, d)
      BY <3>2 DEF Children
    <3> QED BY <2>1, <3>1, <3>2, <3>3 DEF IsNext
  <2>3. n \in visited
    <3>1. CASE n = top
      <4>1. visited = {} => IsNext(top)
        BY DEF IsNext
      <4> QED BY <2>1, <3>1, <4>1 DEF ScanInv, VisitedInv
    <3>2. CASE n # Root /\ Parent[n] \in Listed /\ disc[Parent[n]] = Fine
      <4>1. Parent[n] \in visited \cap Dirs
        BY <3>2, TreeAssumption DEF Listed, ScanInv, VisitedInv
      <4>2. Children(Parent[n]) \subseteq visited
        BY <2>2, <3>2, <4>1 DEF Unfinished
      <4>3. n \in Children(Parent[n])
        BY <3>2 DEF Children, IsIn
      <4> QED BY <4>2, <4>3
    <3> QED BY <3>1, <3>2
  <2> QED BY <2>3 DEF ScanInv, VisitedInv, Listed
<1> QED BY ScanInvariant, <1>1, PTL

-----------------------------------------------------------------------------
(* What the walks of guess_content_type meet.                              *)

\* The list is rooted: what nftw has been at is the searched path or in a
\* directory that is listed itself.
LEMMA ListRooted ==
  ASSUME ScanInv, list # <<>>
  PROVE  Rooted(list)
<1>1. /\ list \in Seq(Nodes) /\ IsSorted(list, Before)
      /\ Range(list) = {n \in visited : disc[n] # Gone}
      /\ \A n \in visited :
           n = top \/ (n # Root /\ Parent[n] \in visited /\ disc[Parent[n]] = Fine)
  BY DEF ScanInv, ShapeInv, TypeOK, ListSorted, VisitedInv
<1>2. /\ DOMAIN list = 1 .. Len(list) /\ Len(list) \in Nat /\ Len(list) # 0
      /\ \A i \in 1 .. Len(list) : list[i] \in Nodes
  BY <1>1, LevelsAscend, EmptySeq
<1>3. ASSUME NEW j \in DOMAIN list, list[j] # top
      PROVE  \E i \in DOMAIN list : j \in Kids(list, i)
  <2>1. list[j] \in visited
    BY <1>1 DEF Range
  <2>2. list[j] # Root /\ Parent[list[j]] \in visited /\ disc[Parent[list[j]]] = Fine
    BY <1>1, <1>3, <2>1
  <2>3. Parent[list[j]] \in Range(list)
    BY <1>1, <2>2 DEF Fine, Gone
  <2>4. PICK i \in DOMAIN list : list[i] = Parent[list[j]]
    BY <2>3 DEF Range
  <2>5. j \in Kids(list, i)
    BY <2>2, <2>4 DEF Kids, IsIn
  <2> QED BY <2>5
<1>4. list[1] = top
  <2> SUFFICES ASSUME list[1] # top PROVE FALSE
    OBVIOUS
  <2>1. 1 \in DOMAIN list
    BY <1>2
  <2>2. PICK i \in DOMAIN list : 1 \in Kids(list, i)
    BY <1>3, <2>1
  <2>3. i < 1
    BY <1>1, <2>2, Levels
  <2> QED BY <1>2, <2>3
<1>5. \A j \in DOMAIN list : j # 1 => list[j] # top
  <2>1. \A i, j \in DOMAIN list : i # j => list[i] # list[j]
    BY <1>1, Levels
  <2> QED BY <1>2, <1>4, <2>1
<1> QED BY <1>1, <1>3, <1>5 DEF Rooted

(* guess_content_type.cpp:134 and 136: the count of items is that of the   *)
(* list without the searched path itself, and the flattened listing meets  *)
(* every one of them.                                                      *)
THEOREM ViewsCoverTheorem == Spec => []ViewsCoverList
<1>1. ScanInv => ViewsCoverList
  BY ListRooted, ViewsCover DEF ViewsCoverList
<1> QED BY ScanInvariant, <1>1, PTL
-----------------------------------------------------------------------------
(* What the hash of a directory is made of.                                *)

\* Induction over the natural numbers, for a set of them.
LEMMA Upwards ==
  ASSUME NEW S, 0 \in S, \A k \in Nat : k \in S => k + 1 \in S
  PROVE  \A k \in Nat : k \in S
<1> DEFINE bad == {k \in Nat : k \notin S}
<1> SUFFICES ASSUME bad # {} PROVE FALSE
  OBVIOUS
<1>1. PICK k \in bad : \A m \in bad : k <= m
  <2>1. bad \subseteq Nat
    OBVIOUS
  <2> QED BY <2>1, LeastExists
<1>2. k \in Nat /\ k # 0
  BY <1>1
<1>3. k - 1 \in Nat /\ k - 1 \notin bad
  BY <1>1, <1>2
<1> QED BY <1>1, <1>2, <1>3

\* The equations of Noted and Mixed, which are recursive, have a solution:
\* they are functions that are continued from position to position.
NotedUpTo(g, h, l, d, k) ==
  /\ g[0] = <<>>
  /\ \A p \in 1 .. k : g[p] = IF IsIn(l[p], d) THEN AddName(g[p - 1], h, l[p]) ELSE g[p - 1]

\* There is such a function, whatever the list.
LEMMA NotedExists ==
  ASSUME NEW h, NEW l, Len(l) \in Nat, NEW d
  PROVE  \E g : NotedUpTo(g, h, l, d, Len(l))
<1> DEFINE S == {k \in Nat : \E g : NotedUpTo(g, h, l, d, k)}
<1>1. 0 \in S
  <2>1. NotedUpTo([p \in {0} |-> <<>>], h, l, d, 0)
    BY DEF NotedUpTo
  <2> QED BY <2>1
<1>2. ASSUME NEW k \in Nat, k \in S
      PROVE  k + 1 \in S
  <2>1. PICK g : NotedUpTo(g, h, l, d, k)
    BY <1>2
  <2> DEFINE next == IF IsIn(l[k + 1], d) THEN AddName(g[k], h, l[k + 1]) ELSE g[k]
             f == [p \in 0 .. k + 1 |-> IF p = k + 1 THEN next ELSE g[p]]
  <2>2. f[k + 1] = next /\ \A p \in 0 .. k : f[p] = g[p]
    OBVIOUS
  <2> HIDE DEF f
  <2>3. f[0] = <<>>
    BY <2>1, <2>2 DEF NotedUpTo
  <2>4. ASSUME NEW p \in 1 .. k + 1
        PROVE  f[p] = IF IsIn(l[p], d) THEN AddName(f[p - 1], h, l[p]) ELSE f[p - 1]
    <3>1. CASE p = k + 1
      BY <2>2, <3>1
    <3>2. CASE p \in 1 .. k
      <4>1. f[p] = g[p] /\ f[p - 1] = g[p - 1]
        BY <2>2, <3>2
      <4> QED BY <2>1, <3>2, <4>1 DEF NotedUpTo
    <3> QED BY <3>1, <3>2
  <2>5. NotedUpTo(f, h, l, d, k + 1)
    BY <2>3, <2>4 DEF NotedUpTo
  <2> QED BY <2>5
<1> HIDE DEF S
<1>3. Len(l) \in S
  BY <1>1, <1>2, Upwards
<1> QED BY <1>3 DEF S

\* Noted is one.
LEMMA NotedIs ==
  ASSUME NEW h, NEW l, Len(l) \in Nat, NEW d
  PROVE  NotedUpTo(Noted(h, l, d), h, l, d, Len(l))
<1> DEFINE upTo[p \in 0 .. Len(l)] ==
             IF p = 0 THEN <<>>
             ELSE IF IsIn(l[p], d) THEN AddName(upTo[p - 1], h, l[p]) ELSE upTo[p - 1]
<1>1. PICK g : NotedUpTo(g, h, l, d, Len(l))
  BY NotedExists
<1> DEFINE f == [p \in 0 .. Len(l) |-> g[p]]
<1>2. f = [p \in 0 .. Len(l) |->
             IF p = 0 THEN <<>>
             ELSE IF IsIn(l[p], d) THEN AddName(f[p - 1], h, l[p]) ELSE f[p - 1]]
  <2>1. \A p \in 0 .. Len(l) :
          g[p] = IF p = 0 THEN <<>>
                 ELSE IF IsIn(l[p], d) THEN AddName(f[p - 1], h, l[p]) ELSE f[p - 1]
    BY <1>1 DEF NotedUpTo
  <2> QED BY <2>1
<1>3. upTo = CHOOSE w : w = [p \in 0 .. Len(l) |->
             IF p = 0 THEN <<>>
             ELSE IF IsIn(l[p], d) THEN AddName(w[p - 1], h, l[p]) ELSE w[p - 1]]
  BY DEF upTo
<1> HIDE DEF f
<1>4. upTo = [p \in 0 .. Len(l) |->
             IF p = 0 THEN <<>>
             ELSE IF IsIn(l[p], d) THEN AddName(upTo[p - 1], h, l[p]) ELSE upTo[p - 1]]
  BY <1>2, <1>3
<1>5. Noted(h, l, d) = upTo
  BY DEF Noted
<1> HIDE DEF upTo
<1>6. NotedUpTo(upTo, h, l, d, Len(l))
  <2>1. upTo[0] = <<>>
    BY <1>4
  <2>2. ASSUME NEW p \in 1 .. Len(l)
        PROVE  upTo[p] = IF IsIn(l[p], d) THEN AddName(upTo[p - 1], h, l[p]) ELSE upTo[p - 1]
    <3>1. p \in 0 .. Len(l) /\ p # 0
      OBVIOUS
    <3> QED BY <1>4, <3>1
  <2> QED BY <2>1, <2>2 DEF NotedUpTo
<1> QED BY <1>5, <1>6

MixedUpTo(g, first, l, c, d, k) ==
  /\ g[0] = first
  /\ \A p \in 1 .. k : g[p] = IF IsIn(l[p], d) THEN AddFile(g[p - 1], c, l[p]) ELSE g[p - 1]

\* The same of the hash that the contents of files are mixed into.
LEMMA MixedExists ==
  ASSUME NEW first, NEW l, Len(l) \in Nat, NEW c, NEW d
  PROVE  \E g : MixedUpTo(g, first, l, c, d, Len(l))
<1> DEFINE S == {k \in Nat : \E g : MixedUpTo(g, first, l, c, d, k)}
<1>1. 0 \in S
  <2>1. MixedUpTo([p \in {0} |-> first], first, l, c, d, 0)
    BY DEF MixedUpTo
  <2> QED BY <2>1
<1>2. ASSUME NEW k \in Nat, k \in S
      PROVE  k + 1 \in S
  <2>1. PICK g : MixedUpTo(g, first, l, c, d, k)
    BY <1>2
  <2> DEFINE next == IF IsIn(l[k + 1], d) THEN AddFile(g[k], c, l[k + 1]) ELSE g[k]
             f == [p \in 0 .. k + 1 |-> IF p = k + 1 THEN next ELSE g[p]]
  <2>2. f[k + 1] = next /\ \A p \in 0 .. k : f[p] = g[p]
    OBVIOUS
  <2> HIDE DEF f
  <2>3. f[0] = first
    BY <2>1, <2>2 DEF MixedUpTo
  <2>4. ASSUME NEW p \in 1 .. k + 1
        PROVE  f[p] = IF IsIn(l[p], d) THEN AddFile(f[p - 1], c, l[p]) ELSE f[p - 1]
    <3>1. CASE p = k + 1
      BY <2>2, <3>1
    <3>2. CASE p \in 1 .. k
      <4>1. f[p] = g[p] /\ f[p - 1] = g[p - 1]
        BY <2>2, <3>2
      <4> QED BY <2>1, <3>2, <4>1 DEF MixedUpTo
    <3> QED BY <3>1, <3>2
  <2>5. MixedUpTo(f, first, l, c, d, k + 1)
    BY <2>3, <2>4 DEF MixedUpTo
  <2> QED BY <2>5
<1> HIDE DEF S
<1>3. Len(l) \in S
  BY <1>1, <1>2, Upwards
<1> QED BY <1>3 DEF S

\* Mixed is one that begins with the hash of the names.
LEMMA MixedIs ==
  ASSUME NEW h, NEW l, Len(l) \in Nat, NEW c, NEW d
  PROVE  MixedUpTo(Mixed(h, l, c, d), Tiger(Noted(h, l, d)[Len(l)]), l, c, d, Len(l))
<1> DEFINE first == Tiger(Noted(h, l, d)[Len(l)])
           upTo[p \in 0 .. Len(l)] ==
             IF p = 0 THEN Tiger(Noted(h, l, d)[Len(l)])
             ELSE IF IsIn(l[p], d) THEN AddFile(upTo[p - 1], c, l[p]) ELSE upTo[p - 1]
<1>5. Mixed(h, l, c, d) = upTo
  BY DEF Mixed
<1>3. upTo = CHOOSE w : w = [p \in 0 .. Len(l) |->
             IF p = 0 THEN first
             ELSE IF IsIn(l[p], d) THEN AddFile(w[p - 1], c, l[p]) ELSE w[p - 1]]
  BY DEF upTo
<1> HIDE DEF first, upTo
<1>1. PICK g : MixedUpTo(g, first, l, c, d, Len(l))
  BY MixedExists
<1> DEFINE f == [p \in 0 .. Len(l) |-> g[p]]
<1>2. f = [p \in 0 .. Len(l) |->
             IF p = 0 THEN first
             ELSE IF IsIn(l[p], d) THEN AddFile(f[p - 1], c, l[p]) ELSE f[p - 1]]
  <2>1. \A p \in 0 .. Len(l) :
          g[p] = IF p = 0 THEN first
                 ELSE IF IsIn(l[p], d) THEN AddFile(f[p - 1], c, l[p]) ELSE f[p - 1]
    BY <1>1 DEF MixedUpTo
  <2> QED BY <2>1
<1> HIDE DEF f
<1>4. upTo = [p \in 0 .. Len(l) |->
             IF p = 0 THEN first
             ELSE IF IsIn(l[p], d) THEN AddFile(upTo[p - 1], c, l[p]) ELSE upTo[p - 1]]
  BY <1>2, <1>3
<1>6. MixedUpTo(upTo, first, l, c, d, Len(l))
  <2>1. upTo[0] = first
    BY <1>4
  <2>2. ASSUME NEW p \in 1 .. Len(l)
        PROVE  upTo[p] = IF IsIn(l[p], d) THEN AddFile(upTo[p - 1], c, l[p]) ELSE upTo[p - 1]
    <3>1. p \in 0 .. Len(l) /\ p # 0
      OBVIOUS
    <3> QED BY <1>4, <3>1
  <2> QED BY <2>1, <2>2 DEF MixedUpTo
<1> QED BY <1>5, <1>6 DEF first

\* Where a walk meets nothing of d, nothing is added.
LEMMA NotedSkips ==
  ASSUME NEW h, NEW l, Len(l) \in Nat, NEW d,
         NEW i \in 0 .. Len(l), NEW j \in 0 .. Len(l), i <= j,
         \A p \in i + 1 .. j : ~ IsIn(l[p], d)
  PROVE  Noted(h, l, d)[j] = Noted(h, l, d)[i]
<1> DEFINE g == Noted(h, l, d)
           S == {k \in Nat : i + k <= j => g[i + k] = g[i]}
<1>1. NotedUpTo(g, h, l, d, Len(l))
  BY NotedIs
<1> HIDE DEF g
<1>2. 0 \in S
  OBVIOUS
<1>3. ASSUME NEW k \in Nat, k \in S
      PROVE  k + 1 \in S
  <2> SUFFICES ASSUME i + (k + 1) <= j PROVE g[i + (k + 1)] = g[i]
    OBVIOUS
  <2> DEFINE q == i + (k + 1)
  <2>1. q \in i + 1 .. j /\ q \in 1 .. Len(l) /\ i + k <= j /\ q - 1 = i + k
    OBVIOUS
  <2> HIDE DEF q
  <2>2. ~ IsIn(l[q], d)
    BY <2>1
  <2>3. g[q] = IF IsIn(l[q], d) THEN AddName(g[q - 1], h, l[q]) ELSE g[q - 1]
    BY <1>1, <2>1 DEF NotedUpTo
  <2> QED BY <1>3, <2>1, <2>2, <2>3 DEF q
<1> HIDE DEF S
<1>4. \A k \in Nat : k \in S
  BY <1>2, <1>3, Upwards
<1>5. j - i \in Nat /\ i + (j - i) = j
  OBVIOUS
<1>6. j - i \in S
  BY <1>4, <1>5
<1> QED BY <1>5, <1>6 DEF S, g

\* Of d there are no files from i to j.
OnlyDirs(l, d, i, j) == \A p \in i + 1 .. j : IsIn(l[p], d) => l[p] \in Dirs

\* Nothing is mixed in where there are only directories.
LEMMA MixedSkips ==
  ASSUME NEW h, NEW l, Len(l) \in Nat, NEW c, NEW d,
         NEW i \in 0 .. Len(l), NEW j \in 0 .. Len(l), i <= j,
         OnlyDirs(l, d, i, j)
  PROVE  Mixed(h, l, c, d)[j] = Mixed(h, l, c, d)[i]
<1> DEFINE g == Mixed(h, l, c, d)
           first == Tiger(Noted(h, l, d)[Len(l)])
           S == {k \in Nat : i + k <= j => g[i + k] = g[i]}
<1>1. MixedUpTo(g, first, l, c, d, Len(l))
  BY MixedIs
<1> HIDE DEF g, first
<1>2. 0 \in S
  OBVIOUS
<1>3. ASSUME NEW k \in Nat, k \in S
      PROVE  k + 1 \in S
  <2> SUFFICES ASSUME i + (k + 1) <= j PROVE g[i + (k + 1)] = g[i]
    OBVIOUS
  <2> DEFINE q == i + (k + 1)
  <2>1. q \in i + 1 .. j /\ q \in 1 .. Len(l) /\ i + k <= j /\ q - 1 = i + k
    OBVIOUS
  <2> HIDE DEF q
  <2>2. IsIn(l[q], d) => l[q] \in Dirs
    BY <2>1 DEF OnlyDirs
  <2>3. g[q] = IF IsIn(l[q], d) THEN AddFile(g[q - 1], c, l[q]) ELSE g[q - 1]
    BY <1>1, <2>1 DEF MixedUpTo
  <2>4. g[q] = g[q - 1]
    BY <2>2, <2>3 DEF AddFile
  <2> QED BY <1>3, <2>1, <2>4 DEF q
<1> HIDE DEF S
<1>4. \A k \in Nat : k \in S
  BY <1>2, <1>3, Upwards
<1>5. j - i \in Nat /\ i + (j - i) = j
  OBVIOUS
<1>6. j - i \in S
  BY <1>4, <1>5
<1> QED BY <1>5, <1>6 DEF S, g

\* Only the hashes of the directories passed matter.
SameHashes(h, h2, l, d, k) ==
  \A p \in 1 .. k : IsIn(l[p], d) /\ l[p] \in Dirs => h2[l[p]] = h[l[p]]

\* The names noted depend on no other hash.
LEMMA NotedAgrees ==
  ASSUME NEW h, NEW h2, NEW l, Len(l) \in Nat, NEW d, NEW k \in 0 .. Len(l),
         SameHashes(h, h2, l, d, k)
  PROVE  Noted(h2, l, d)[k] = Noted(h, l, d)[k]
<1> DEFINE g == Noted(h, l, d)
           g2 == Noted(h2, l, d)
           S == {p \in Nat : p <= k => g2[p] = g[p]}
<1>1. NotedUpTo(g, h, l, d, Len(l)) /\ NotedUpTo(g2, h2, l, d, Len(l))
  BY NotedIs
<1> HIDE DEF g, g2
<1>2. 0 \in S
  BY <1>1 DEF NotedUpTo
<1>3. ASSUME NEW p \in Nat, p \in S
      PROVE  p + 1 \in S
  <2> SUFFICES ASSUME p + 1 <= k PROVE g2[p + 1] = g[p + 1]
    OBVIOUS
  <2>1. p + 1 \in 1 .. k /\ p + 1 \in 1 .. Len(l) /\ p + 1 - 1 = p /\ g2[p] = g[p]
    BY <1>3
  <2>2. /\ g[p + 1] = IF IsIn(l[p + 1], d) THEN AddName(g[p], h, l[p + 1]) ELSE g[p]
        /\ g2[p + 1] = IF IsIn(l[p + 1], d) THEN AddName(g2[p], h2, l[p + 1]) ELSE g2[p]
    <3> DEFINE q == p + 1
    <3>1. q \in 1 .. Len(l) /\ q - 1 = p
      BY <2>1
    <3> HIDE DEF q
    <3>2. /\ g[q] = IF IsIn(l[q], d) THEN AddName(g[q - 1], h, l[q]) ELSE g[q - 1]
          /\ g2[q] = IF IsIn(l[q], d) THEN AddName(g2[q - 1], h2, l[q]) ELSE g2[q - 1]
      BY <1>1, <3>1 DEF NotedUpTo
    <3> QED BY <3>1, <3>2 DEF q
  <2>3. IsIn(l[p + 1], d) /\ l[p + 1] \in Dirs => h2[l[p + 1]] = h[l[p + 1]]
    BY <2>1 DEF SameHashes
  <2> QED BY <2>1, <2>2, <2>3 DEF AddName
<1> HIDE DEF S
<1>4. \A p \in Nat : p \in S
  BY <1>2, <1>3, Upwards
<1>5. k \in S
  BY <1>4
<1> QED BY <1>5 DEF S, g, g2

\* Nor does the hash of the names and contents.
LEMMA MixedAgrees ==
  ASSUME NEW h, NEW h2, NEW l, Len(l) \in Nat, NEW c, NEW d, NEW k \in 0 .. Len(l),
         SameHashes(h, h2, l, d, Len(l))
  PROVE  Mixed(h2, l, c, d)[k] = Mixed(h, l, c, d)[k]
<1> DEFINE g == Mixed(h, l, c, d)
           g2 == Mixed(h2, l, c, d)
           first == Tiger(Noted(h, l, d)[Len(l)])
           S == {p \in Nat : p <= Len(l) => g2[p] = g[p]}
<1>1. Noted(h2, l, d)[Len(l)] = Noted(h, l, d)[Len(l)]
  <2>1. PICK m \in 0 .. Len(l) : m = Len(l)
    OBVIOUS
  <2>2. SameHashes(h, h2, l, d, m)
    BY <2>1
  <2>3. Noted(h2, l, d)[m] = Noted(h, l, d)[m]
    BY <2>2, NotedAgrees
  <2> QED BY <2>1, <2>3
<1>2. MixedUpTo(g, first, l, c, d, Len(l)) /\ MixedUpTo(g2, first, l, c, d, Len(l))
  BY <1>1, MixedIs
<1> HIDE DEF g, g2, first
<1>3. 0 \in S
  BY <1>2 DEF MixedUpTo
<1>4. ASSUME NEW p \in Nat, p \in S
      PROVE  p + 1 \in S
  <2> SUFFICES ASSUME p + 1 <= Len(l) PROVE g2[p + 1] = g[p + 1]
    OBVIOUS
  <2> DEFINE q == p + 1
  <2>1. q \in 1 .. Len(l) /\ q - 1 = p /\ g2[p] = g[p]
    BY <1>4
  <2> HIDE DEF q
  <2>2. /\ g[q] = IF IsIn(l[q], d) THEN AddFile(g[q - 1], c, l[q]) ELSE g[q - 1]
        /\ g2[q] = IF IsIn(l[q], d) THEN AddFile(g2[q - 1], c, l[q]) ELSE g2[q - 1]
    BY <1>2, <2>1 DEF MixedUpTo
  <2> QED BY <2>1, <2>2 DEF q
<1> HIDE DEF S
<1>5. \A p \in Nat : p \in S
  BY <1>3, <1>4, Upwards
<1>6. k \in S
  BY <1>5
<1> QED BY <1>6 DEF S, g, g2

-----------------------------------------------------------------------------
(* What is made stays what it is while other hashes change.                *)

\* h2 has the hashes that h has of the directories that are done.
Agree(h, h2, D) == \A n \in Dirs \cap D : h2[n] = h[n]

\* A call stays as far as it has come when other hashes change.
LEMMA SoFarKept ==
  ASSUME list \in Seq(Nodes), IsSorted(list, Before), NEW f \in HashFrames,
         NEW D, Seen(f, D), NEW h, NEW h2, Agree(h, h2, D), NEW b, NEW b2, NEW c,
         h2[f.dir] = h[f.dir], b2[f.dir] = b[f.dir], SoFar(f, h, list, c, b)
  PROVE  SoFar(f, h2, list, c, b2)
<1>1. DOMAIN list = 1 .. Len(list) /\ Len(list) \in Nat
  BY LevelsAscend
<1>2. f.at \in 1 .. Len(list) + 1
  BY DEF HashFrames
<1> DEFINE k == f.at - 1
<1>5. k \in 0 .. Len(list) /\ f.at = k + 1
  BY <1>1, <1>2
<1> HIDE DEF k
<1>3. CASE f.phase = "names"
  <2>1. SameHashes(h, h2, list, f.dir, k)
    <3> SUFFICES ASSUME NEW p \in 1 .. k, IsIn(list[p], f.dir), list[p] \in Dirs
                 PROVE  h2[list[p]] = h[list[p]]
      BY DEF SameHashes
    <3>1. p \in DOMAIN list /\ p < f.at
      BY <1>1, <1>5
    <3>2. HasPassed(f, p)
      BY <3>1 DEF HasPassed
    <3> QED BY <3>1, <3>2 DEF Seen, Agree
  <2>2. Noted(h2, list, f.dir)[k] = Noted(h, list, f.dir)[k]
    BY <1>1, <1>5, <2>1, NotedAgrees
  <2> QED BY <1>3, <2>2 DEF SoFar, k
<1>4. CASE f.phase = "files"
  <2>1. SameHashes(h, h2, list, f.dir, Len(list))
    <3> SUFFICES ASSUME NEW p \in 1 .. Len(list), IsIn(list[p], f.dir), list[p] \in Dirs
                 PROVE  h2[list[p]] = h[list[p]]
      BY DEF SameHashes
    <3>1. HasPassed(f, p)
      BY <1>4 DEF HasPassed
    <3> QED BY <1>1, <3>1 DEF Seen, Agree
  <2>2. Mixed(h2, list, c, f.dir)[k] = Mixed(h, list, c, f.dir)[k]
    BY <1>1, <1>5, <2>1, MixedAgrees
  <2> QED BY <1>4, <2>2 DEF SoFar, k
<1> QED BY <1>3, <1>4 DEF HashFrames

\* The whole hash is kept too, when the entries are among D.
LEMMA WholeHashKept ==
  ASSUME list \in Seq(Nodes), NEW n \in Nodes, NEW D, n \in D, NEW h, NEW h2, Agree(h, h2, D),
         \A d \in Dirs \cap D : Children(d) \cap Range(list) \subseteq D, NEW c
  PROVE  WholeHash(h2, list, c, n) = WholeHash(h, list, c, n)
<1>1. DOMAIN list = 1 .. Len(list) /\ Len(list) \in Nat /\ \A p \in 1 .. Len(list) : list[p] \in Nodes
  BY LenProperties, ElementOfSeq
<1>2. CASE n \in Dirs
  <2>1. SameHashes(h, h2, list, n, Len(list))
    <3> SUFFICES ASSUME NEW p \in 1 .. Len(list), IsIn(list[p], n), list[p] \in Dirs
                 PROVE  h2[list[p]] = h[list[p]]
      BY DEF SameHashes
    <3>1. list[p] \in Children(n) \cap Range(list)
      BY <1>1 DEF Children, Range
    <3> QED BY <1>2, <3>1 DEF Agree
  <2>2. Len(list) \in 0 .. Len(list)
    BY <1>1
  <2>3. Mixed(h2, list, c, n)[Len(list)] = Mixed(h, list, c, n)[Len(list)]
    BY <1>1, <2>1, <2>2, MixedAgrees
  <2> QED BY <1>2, <2>3 DEF WholeHash
<1>3. CASE n \notin Dirs
  BY <1>3 DEF WholeHash
<1> QED BY <1>2, <1>3

-----------------------------------------------------------------------------
(* How far the calls of hash_dir have come, as they are made and return.   *)

CallSoFar(f, h, c, b, v) == SoFar(f, h, list, c, b) /\ ~ v[f.dir]

\* What is known of the calls, split in the top one and the others.
LEMMA CallsSoFarFront ==
  ASSUME NEW ds \in Seq(HashFrames), ds # <<>>, NEW h, NEW c, NEW b, NEW v,
         CallsSoFar(ds, h, list, c, b, v)
  PROVE  /\ CallsSoFar(Front(ds), h, list, c, b, v) /\ CallSoFar(Last(ds), h, c, b, v)
         /\ \A i \in DOMAIN Front(ds) : Depth[Front(ds)[i].dir] < Depth[Last(ds).dir]
<1> DEFINE f == Front(ds)
<1>1. /\ Len(ds) \in Nat \ {0} /\ Last(ds) = ds[Len(ds)]
      /\ f \in Seq(HashFrames) /\ Len(f) = Len(ds) - 1
      /\ \A i \in 1 .. Len(ds) - 1 : f[i] = ds[i]
  BY StackFacts
<1> HIDE DEF f
<1>2. DOMAIN ds = 1 .. Len(ds) /\ DOMAIN f = 1 .. Len(ds) - 1
  BY <1>1, LenProperties
<1>3. CallSoFar(Last(ds), h, c, b, v)
  <2>1. Len(ds) \in DOMAIN ds
    BY <1>1, <1>2
  <2> QED BY <1>1, <2>1 DEF CallsSoFar, CallSoFar
<1>4. ASSUME NEW i \in DOMAIN f
      PROVE  /\ SoFar(f[i], h, list, c, b) /\ ~ v[f[i].dir]
             /\ \A j \in DOMAIN f : i < j => Depth[f[i].dir] < Depth[f[j].dir]
             /\ Depth[f[i].dir] < Depth[Last(ds).dir]
  <2>1. i \in DOMAIN ds /\ f[i] = ds[i] /\ Len(ds) \in DOMAIN ds /\ i < Len(ds)
    BY <1>1, <1>2
  <2>2. \A j \in DOMAIN f : j \in DOMAIN ds /\ f[j] = ds[j]
    BY <1>1, <1>2
  <2> QED BY <1>1, <2>1, <2>2 DEF CallsSoFar
<1> QED BY <1>3, <1>4 DEF CallsSoFar, f

\* A call on top, for a directory below those of the others.
LEMMA CallsSoFarPush ==
  ASSUME NEW ds \in Seq(HashFrames), NEW f \in HashFrames, NEW h, NEW c, NEW b, NEW v,
         CallsSoFar(ds, h, list, c, b, v), CallSoFar(f, h, c, b, v),
         \A i \in DOMAIN ds : Depth[ds[i].dir] < Depth[f.dir]
  PROVE  CallsSoFar(Append(ds, f), h, list, c, b, v)
<1> DEFINE r == Append(ds, f)
<1>1. /\ r \in Seq(HashFrames) /\ Len(r) = Len(ds) + 1 /\ Len(ds) \in Nat
      /\ \A i \in 1 .. Len(ds) + 1 : r[i] = IF i = Len(ds) + 1 THEN f ELSE ds[i]
  BY PushTop, LenProperties
<1> HIDE DEF r
<1>2. DOMAIN ds = 1 .. Len(ds) /\ DOMAIN r = 1 .. Len(ds) + 1
  BY <1>1, LenProperties
<1>3. ASSUME NEW i \in DOMAIN r
      PROVE  /\ SoFar(r[i], h, list, c, b) /\ ~ v[r[i].dir]
             /\ \A j \in DOMAIN r : i < j => Depth[r[i].dir] < Depth[r[j].dir]
  <2>1. CASE i = Len(ds) + 1
    <3>1. r[i] = f /\ \A j \in DOMAIN r : ~ (i < j)
      BY <1>1, <1>2, <2>1
    <3> QED BY <3>1 DEF CallSoFar
  <2>2. CASE i \in DOMAIN ds
    <3>1. r[i] = ds[i]
      BY <1>1, <1>2, <2>2
    <3>2. ASSUME NEW j \in DOMAIN r, i < j
          PROVE  Depth[r[i].dir] < Depth[r[j].dir]
      <4>1. CASE j = Len(ds) + 1
        <5>1. r[j] = f
          BY <1>1, <1>2, <4>1
        <5> QED BY <2>2, <3>1, <5>1
      <4>2. CASE j \in DOMAIN ds
        <5>1. r[j] = ds[j]
          BY <1>1, <1>2, <4>2
        <5> QED BY <2>2, <3>1, <3>2, <4>2, <5>1 DEF CallsSoFar
      <4> QED BY <1>2, <1>1, <4>1, <4>2
    <3> QED BY <2>2, <3>1, <3>2 DEF CallsSoFar
  <2> QED BY <1>1, <1>2, <2>1, <2>2
<1> QED BY <1>3 DEF CallsSoFar, r

\* Calls that nothing is done for stay where they are.
Untouched(ds, h, h2, b, b2, v, v2) ==
  \A i \in DOMAIN ds :
    /\ h2[ds[i].dir] = h[ds[i].dir] /\ b2[ds[i].dir] = b[ds[i].dir]
    /\ v2[ds[i].dir] <=> v[ds[i].dir]

\* Calls that wait keep what is known of them.
LEMMA CallsSoFarKept ==
  ASSUME list \in Seq(Nodes), IsSorted(list, Before), NEW ds \in Seq(HashFrames),
         NEW D, CallsSeen(ds, D), NEW h, NEW h2, Agree(h, h2, D), NEW b, NEW b2,
         NEW v, NEW v2, NEW c, Untouched(ds, h, h2, b, b2, v, v2),
         CallsSoFar(ds, h, list, c, b, v)
  PROVE  CallsSoFar(ds, h2, list, c, b2, v2)
<1>1. ASSUME NEW i \in DOMAIN ds
      PROVE  SoFar(ds[i], h2, list, c, b2) /\ ~ v2[ds[i].dir]
  <2> DEFINE f == ds[i]
  <2>1. f \in HashFrames
    BY <1>1, LenProperties, ElementOfSeq
  <2>2. /\ Seen(f, D) /\ SoFar(f, h, list, c, b) /\ ~ v[f.dir]
        /\ h2[f.dir] = h[f.dir] /\ b2[f.dir] = b[f.dir] /\ (v2[f.dir] <=> v[f.dir])
    BY <1>1 DEF CallsSeen, CallsSoFar, Untouched
  <2> HIDE DEF f
  <2>3. SoFar(f, h2, list, c, b2)
    BY <2>1, <2>2, SoFarKept
  <2> QED BY <2>2, <2>3 DEF f
<1> QED BY <1>1 DEF CallsSoFar

-----------------------------------------------------------------------------
(* What has been reached stays reached.                                    *)

\* g has passed the directories that f has.
GoesOn(f, g) ==
  \A p \in DOMAIN list : HasPassed(f, p) /\ list[p] \in Dirs => HasPassed(g, p)

Continued(ds, ds2, v2) ==
  \A i \in DOMAIN ds : v2[ds[i].dir] \/ \E j \in DOMAIN ds2 : GoesOn(ds[i], ds2[j])

\* A directory that has been reached stays so.
LEMMA ReachedKept ==
  ASSUME NEW ds, NEW ds2, NEW v, NEW v2, Continued(ds, ds2, v2), \A n \in Nodes : v[n] => v2[n],
         NEW d \in Dirs, Reached(d, v, ds)
  PROVE  Reached(d, v2, ds2)
<1>1. CASE d = Head(list)
  BY <1>1 DEF Reached
<1>2. CASE d # Root /\ v[Parent[d]]
  <2>1. Parent[d] \in Nodes
    BY <1>2, TreeAssumption
  <2> QED BY <1>2, <2>1 DEF Reached
<1>3. CASE \E i \in DOMAIN ds, p \in DOMAIN list : list[p] = d /\ HasPassed(ds[i], p)
  <2>1. PICK i \in DOMAIN ds, p \in DOMAIN list : list[p] = d /\ HasPassed(ds[i], p)
    BY <1>3
  <2>2. CASE v2[ds[i].dir]
    <3>1. d # Root /\ Parent[d] = ds[i].dir
      BY <2>1 DEF HasPassed, IsIn
    <3> QED BY <2>2, <3>1 DEF Reached
  <2>3. CASE \E j \in DOMAIN ds2 : GoesOn(ds[i], ds2[j])
    <3>1. PICK j \in DOMAIN ds2 : GoesOn(ds[i], ds2[j])
      BY <2>3
    <3>2. HasPassed(ds2[j], p)
      BY <2>1, <3>1 DEF GoesOn
    <3> QED BY <2>1, <3>2 DEF Reached
  <2> QED BY <2>2, <2>3 DEF Continued
<1> QED BY <1>1, <1>2, <1>3 DEF Reached

\* The top call goes on and the others wait.
LEMMA TopContinued ==
  ASSUME NEW ds \in Seq(HashFrames), ds # <<>>, NEW f \in HashFrames, NEW v2, GoesOn(Last(ds), f)
  PROVE  Continued(ds, Append(Front(ds), f), v2)
<1> DEFINE r == Append(Front(ds), f)
<1>1. /\ Len(ds) \in Nat \ {0} /\ Last(ds) = ds[Len(ds)]
      /\ r \in Seq(HashFrames) /\ Len(r) = Len(ds)
      /\ \A i \in 1 .. Len(ds) : r[i] = IF i = Len(ds) THEN f ELSE ds[i]
  BY StackFacts, ReplaceTop
<1> HIDE DEF r
<1>2. DOMAIN ds = 1 .. Len(ds) /\ DOMAIN r = 1 .. Len(ds)
  BY <1>1, LenProperties
<1>3. ASSUME NEW i \in DOMAIN ds
      PROVE  i \in DOMAIN r /\ GoesOn(ds[i], r[i])
  <2>1. CASE i = Len(ds)
    BY <1>1, <1>2, <2>1
  <2>2. CASE i # Len(ds)
    <3>1. r[i] = ds[i]
      BY <1>1, <1>2, <2>2
    <3> QED BY <1>2, <3>1 DEF GoesOn
  <2> QED BY <2>1, <2>2
<1> QED BY <1>3 DEF Continued, r

\* The iterator goes to the next entry of the directory and skips none.
LEMMA AdvancedGoesOn ==
  ASSUME list \in Seq(Nodes), NEW f \in HashFrames, ~ AtEnd(list, f.dir, f.at)
  PROVE  /\ Advanced(f).dir = f.dir /\ Advanced(f).phase = f.phase
         /\ f.at \in 1 .. Len(list) /\ Advanced(f).at \in f.at + 1 .. Len(list) + 1
         /\ \A p \in f.at + 1 .. Len(list) : IsIn(list[p], f.dir) => Advanced(f).at <= p
         /\ GoesOn(f, Advanced(f))
<1>1. f.at \in 1 .. Len(list) /\ Len(list) \in Nat
  BY LenProperties DEF AtEnd, HashFrames
<1> DEFINE at == ViewNext(list, f.dir, f.at)
<1>2. /\ at \in f.at + 1 .. Len(list) + 1
      /\ \A p \in f.at + 1 .. Len(list) : IsIn(list[p], f.dir) => at <= p
  BY <1>1, ViewNextLeast
<1> HIDE DEF at
<1>3. Advanced(f).dir = f.dir /\ Advanced(f).phase = f.phase /\ Advanced(f).at = at
  BY DEF Advanced, HashFrames, at
<1>4. GoesOn(f, Advanced(f))
  <2> SUFFICES ASSUME NEW p \in DOMAIN list, HasPassed(f, p), list[p] \in Dirs
               PROVE  HasPassed(Advanced(f), p)
    BY DEF GoesOn
  <2>1. p \in 1 .. Len(list)
    BY LenProperties
  <2>2. p < f.at => p < at
    BY <1>1, <1>2, <2>1
  <2> QED BY <1>3, <2>2 DEF HasPassed
<1> QED BY <1>1, <1>2, <1>3, <1>4

-----------------------------------------------------------------------------
(* What a call of hash_dir adds to what it has made.                       *)

\* A call begins with an empty blob: its directory has no entry earlier.
LEMMA NamesBegin ==
  ASSUME list \in Seq(Nodes), IsSorted(list, Before),
         NEW from \in 1 .. Len(list), list[from] \in Dirs, NEW h, NEW c, NEW b,
         b[list[from]] = <<>>
  PROVE  SoFar(HashDir(list[from], from), h, list, c, b)
<1> DEFINE d == list[from]
           at == ViewBegin(list, d, from)
<1>1. Len(list) \in Nat
  BY LenProperties
<1>2. /\ at \in from .. Len(list) + 1
      /\ \A p \in from .. Len(list) : IsIn(list[p], d) => at <= p
  BY ViewBeginLeast
<1>3. HashDir(d, from).dir = d /\ HashDir(d, from).at = at /\ HashDir(d, from).phase = "names"
  BY DEF HashDir
<1> HIDE DEF at
<1> DEFINE k == at - 1
<1>4. k \in 0 .. Len(list) /\ 0 \in 0 .. Len(list) /\ 0 <= k
  BY <1>1, <1>2
<1>5. ASSUME NEW p \in 0 + 1 .. k
      PROVE  ~ IsIn(list[p], d)
  <2>1. p \in 1 .. Len(list)
    BY <1>4
  <2>2. IsIn(list[p], d) => from < p
    BY <2>1, NotBefore
  <2>3. IsIn(list[p], d) => p \in from .. Len(list)
    BY <2>1, <2>2
  <2>4. ~ (at <= p)
    BY <1>1, <1>2
  <2> QED BY <1>2, <2>3, <2>4
<1> HIDE DEF k
<1>6. Noted(h, list, d)[k] = Noted(h, list, d)[0]
  BY <1>1, <1>4, <1>5, NotedSkips
<1>7. Noted(h, list, d)[0] = <<>>
  BY <1>1, NotedIs DEF NotedUpTo
<1> QED BY <1>3, <1>6, <1>7 DEF SoFar, k

\* It notes the entry it is at and advances (hashing.cpp:67).
LEMMA NamesAdvance ==
  ASSUME list \in Seq(Nodes), IsSorted(list, Before),
         NEW f \in HashFrames, Shows(f), ~ AtEnd(list, f.dir, f.at), f.phase = "names",
         NEW h, NEW c, NEW b, NEW b2, SoFar(f, h, list, c, b),
         b2[f.dir] = AddName(b[f.dir], h, list[f.at])
  PROVE  SoFar(Advanced(f), h, list, c, b2)
<1>1. /\ Advanced(f).dir = f.dir /\ Advanced(f).phase = "names"
      /\ f.at \in 1 .. Len(list) /\ Advanced(f).at \in f.at + 1 .. Len(list) + 1
      /\ \A p \in f.at + 1 .. Len(list) : IsIn(list[p], f.dir) => Advanced(f).at <= p
      /\ Len(list) \in Nat
  BY AdvancedGoesOn, LenProperties
<1> DEFINE q == f.at
           k == Advanced(f).at - 1
           g == Noted(h, list, f.dir)
<1>2. q \in 1 .. Len(list) /\ q \in 0 .. Len(list) /\ k \in 0 .. Len(list) /\ q <= k
  BY <1>1
<1>3. \A p \in q + 1 .. k : ~ IsIn(list[p], f.dir)
  BY <1>1
<1>4. b[f.dir] = g[q - 1] /\ IsIn(list[q], f.dir)
  BY DEF SoFar, Shows
<1>5. Advanced(f).at - 1 = k /\ b2[f.dir] = AddName(b[f.dir], h, list[q])
  OBVIOUS
<1> HIDE DEF q, k
<1>6. g[k] = g[q]
  BY <1>1, <1>2, <1>3, NotedSkips
<1>7. g[q] = AddName(g[q - 1], h, list[q])
  BY <1>1, <1>2, <1>4, NotedIs DEF NotedUpTo
<1> QED BY <1>1, <1>4, <1>5, <1>6, <1>7 DEF SoFar

\* At the last name it hashes the blob and goes to the first file.
LEMMA FilesBegin ==
  ASSUME list \in Seq(Nodes), IsSorted(list, Before),
         NEW f \in HashFrames, AtEnd(list, f.dir, f.at), f.phase = "names",
         NEW D, Seen(f, D), NEW h, NEW h2, Agree(h, h2, D), NEW c, NEW b,
         SoFar(f, h, list, c, b), h2[f.dir] = Tiger(b[f.dir])
  PROVE  SoFar([f EXCEPT !.phase = "files", !.at = FirstFile(list, f.dir, f.view)], h2, list, c, b)
<1> DEFINE d == f.dir
           at == FirstFile(list, d, f.view)
           g == [f EXCEPT !.phase = "files", !.at = at]
           i == f.at - 1
           k == at - 1
           n == Len(list)
<1>1. n \in Nat /\ f.view \in 1 .. n /\ f.at \in 1 .. n + 1 /\ list[f.view] = d
  BY LenProperties DEF HashFrames, Seen
<1>2. /\ at \in f.view .. n + 1
      /\ \A p \in f.view .. n : IsIn(list[p], d) /\ list[p] \notin Dirs => at <= p
  BY <1>1, FirstFileLeast
<1>3. g.dir = d /\ g.phase = "files" /\ g.at = at
  BY DEF HashFrames
<1>4. \A p \in 1 .. n : IsIn(list[p], d) => p < f.at
  BY AllBefore
<1> HIDE DEF at, g
<1>5. i \in 0 .. n /\ k \in 0 .. n /\ n \in 0 .. n /\ 0 \in 0 .. n /\ i <= n /\ 0 <= k
  BY <1>1, <1>2
<1>6. \A p \in i + 1 .. n : ~ IsIn(list[p], d)
  BY <1>1, <1>4
<1>7. ASSUME NEW p \in 0 + 1 .. k, IsIn(list[p], d)
      PROVE  list[p] \in Dirs
  <2>1. p \in 1 .. n /\ ~ (at <= p)
    BY <1>1, <1>2
  <2>2. f.view < p
    BY <1>1, <1>7, <2>1, NotBefore
  <2>3. p \in f.view .. n
    BY <1>1, <2>1, <2>2
  <2> QED BY <1>2, <1>7, <2>1, <2>3
<1>7b. OnlyDirs(list, d, 0, k)
  BY <1>7 DEF OnlyDirs
<1>8. SameHashes(h, h2, list, d, n)
  <2> SUFFICES ASSUME NEW p \in 1 .. n, IsIn(list[p], d), list[p] \in Dirs
               PROVE  h2[list[p]] = h[list[p]]
    BY DEF SameHashes
  <2>1. p \in DOMAIN list /\ p < f.at
    BY <1>4, LenProperties
  <2>2. HasPassed(f, p)
    BY <2>1 DEF HasPassed
  <2> QED BY <2>1, <2>2 DEF Seen, Agree
<1>9. f.at - 1 = i /\ at - 1 = k
  OBVIOUS
<1> HIDE DEF i, k
<1>10. Noted(h, list, d)[n] = Noted(h, list, d)[i]
  BY <1>1, <1>5, <1>6, NotedSkips
<1>11. Noted(h2, list, d)[n] = Noted(h, list, d)[n]
  BY <1>1, <1>5, <1>8, NotedAgrees
<1>12. Mixed(h2, list, c, d)[k] = Mixed(h2, list, c, d)[0]
  BY <1>1, <1>5, <1>7b, MixedSkips
<1>13. Mixed(h2, list, c, d)[0] = Tiger(Noted(h2, list, d)[n])
  BY <1>1, MixedIs DEF MixedUpTo
<1>14. b[d] = Noted(h, list, d)[i]
  BY <1>9 DEF SoFar
<1>15. SoFar(g, h2, list, c, b)
  BY <1>3, <1>9, <1>10, <1>11, <1>12, <1>13, <1>14 DEF SoFar
<1> QED BY <1>15 DEF g, at

\* One file more is mixed in; directories between are skipped.
LEMMA MixedStep ==
  ASSUME NEW h, NEW l, Len(l) \in Nat, NEW c, NEW d, NEW q \in 1 .. Len(l), IsIn(l[q], d),
         NEW j, j = q - 1, NEW k \in 0 .. Len(l), q <= k, OnlyDirs(l, d, q, k)
  PROVE  Mixed(h, l, c, d)[k] = AddFile(Mixed(h, l, c, d)[j], c, l[q])
<1>1. q \in 0 .. Len(l)
  OBVIOUS
<1>2. Mixed(h, l, c, d)[k] = Mixed(h, l, c, d)[q]
  BY <1>1, MixedSkips
<1>3. MixedUpTo(Mixed(h, l, c, d), Tiger(Noted(h, l, d)[Len(l)]), l, c, d, Len(l))
  BY MixedIs
<1> QED BY <1>2, <1>3 DEF MixedUpTo

\* It mixes in the file it is at and advances.
LEMMA FilesAdvance ==
  ASSUME list \in Seq(Nodes), IsSorted(list, Before),
         NEW f \in HashFrames, Shows(f), ~ AtEnd(list, f.dir, f.at), f.phase = "files",
         NEW D, Seen(f, D), NEW h, NEW h2, Agree(h, h2, D), NEW c, NEW b,
         SoFar(f, h, list, c, b), h2[f.dir] = AddFile(h[f.dir], c, list[f.at])
  PROVE  SoFar(Advanced(f), h2, list, c, b)
<1>1. /\ Advanced(f).dir = f.dir /\ Advanced(f).phase = "files"
      /\ f.at \in 1 .. Len(list) /\ Advanced(f).at \in f.at + 1 .. Len(list) + 1
      /\ \A p \in f.at + 1 .. Len(list) : IsIn(list[p], f.dir) => Advanced(f).at <= p
      /\ Len(list) \in Nat
  BY AdvancedGoesOn, LenProperties
<1> DEFINE q == f.at
           j == f.at - 1
           k == Advanced(f).at - 1
           g == Mixed(h, list, c, f.dir)
           g2 == Mixed(h2, list, c, f.dir)
<1>2. /\ q \in 1 .. Len(list) /\ q \in 0 .. Len(list) /\ k \in 0 .. Len(list) /\ q <= k
      /\ j \in 0 .. Len(list) /\ q - 1 = j
  BY <1>1
<1>3. OnlyDirs(list, f.dir, q, k)
  BY <1>1 DEF OnlyDirs
<1>4. h[f.dir] = g[j] /\ IsIn(list[q], f.dir)
  BY DEF SoFar, Shows
<1>5. Advanced(f).at - 1 = k /\ h2[f.dir] = AddFile(h[f.dir], c, list[q])
  OBVIOUS
<1> HIDE DEF q, k, j
<1>n. Len(list) \in Nat
  BY <1>1
<1>7. g2[k] = AddFile(g2[j], c, list[q])
  <2>1. PICK d : d = f.dir
    OBVIOUS
  <2>2. OnlyDirs(list, d, q, k) /\ IsIn(list[q], d) /\ j = q - 1 /\ q \in 1 .. Len(list)
        /\ k \in 0 .. Len(list) /\ q <= k
    BY <1>2, <1>3, <1>4, <2>1
  <2>3. Mixed(h2, list, c, d)[k] = AddFile(Mixed(h2, list, c, d)[j], c, list[q])
    BY <1>n, <2>2, MixedStep
  <2> QED BY <2>1, <2>3
<1>8. SameHashes(h, h2, list, f.dir, Len(list))
  <2> SUFFICES ASSUME NEW p \in 1 .. Len(list), IsIn(list[p], f.dir), list[p] \in Dirs
               PROVE  h2[list[p]] = h[list[p]]
    BY DEF SameHashes
  <2>1. p \in DOMAIN list
    BY LenProperties
  <2>2. HasPassed(f, p)
    BY DEF HasPassed
  <2> QED BY <2>1, <2>2 DEF Seen, Agree
<1>9. g2[j] = g[j]
  <2>1. j \in 0 .. Len(list)
    BY <1>2
  <2> QED BY <1>n, <1>8, <2>1, MixedAgrees
<1> QED BY <1>1, <1>4, <1>5, <1>7, <1>9 DEF SoFar

\* At the last file the hash is whole.
LEMMA DirHashed ==
  ASSUME list \in Seq(Nodes), IsSorted(list, Before),
         NEW f \in HashFrames, AtEnd(list, f.dir, f.at), f.phase = "files",
         NEW D, Seen(f, D), NEW h, NEW c, NEW b, SoFar(f, h, list, c, b)
  PROVE  h[f.dir] = WholeHash(h, list, c, f.dir)
<1> DEFINE j == f.at - 1
           n == Len(list)
<1>1. n \in Nat /\ f.at \in 1 .. n + 1 /\ f.dir \in Dirs
  BY LenProperties DEF HashFrames
<1>2. \A p \in 1 .. n : IsIn(list[p], f.dir) => p < f.at
  BY AllBefore
<1>3. j \in 0 .. n /\ n \in 0 .. n /\ j <= n /\ f.at - 1 = j
  BY <1>1
<1>4. OnlyDirs(list, f.dir, j, n)
  BY <1>1, <1>2 DEF OnlyDirs
<1> HIDE DEF j
<1>5. Mixed(h, list, c, f.dir)[n] = Mixed(h, list, c, f.dir)[j]
  BY <1>1, <1>3, <1>4, MixedSkips
<1> QED BY <1>1, <1>3, <1>5 DEF SoFar, WholeHash

-----------------------------------------------------------------------------
(* A task fills once.                                                      *)

\* No step takes back what a task has done.
LEMMA ProgressNext == ScanInv /\ [Next]_vars => Progress
<1> SUFFICES ASSUME ScanInv, [Next]_vars PROVE Progress
  OBVIOUS
<1>0. ShapeInv /\ TasksInv
  BY DEF ScanInv
<1>1. ASSUME NEW t \in Tasks, Call(t) PROVE Progress
  BY <1>0, <1>1, CallTasks, SameProgresses
<1>2. CASE Return
  BY <1>0, <1>2, ReturnTasks, SameProgresses
<1>3. ASSUME stack' = Popped, made' = made, result' # "stored", Busy("open") \/ Busy("fill")
      PROVE  Progress
  BY <1>0, <1>3, WorkTasks
<1>4. ASSUME UNCHANGED tasks, result' # "stored"
      PROVE  Progress
  BY <1>0, <1>4, TasksKept, SameProgresses
<1>5. CASE AddToDb
  BY <1>0, <1>5, EndTasks, SameProgresses
<1>6. CASE \E n \in Nodes : Visit(n)
  BY <1>4, <1>6 DEF Visit, Working, Busy
<1>7. CASE EndWalk \/ AbortWalk \/ OpenMagic \/ FillMime \/ FillBasic \/ FillMedia \/ FillContent
           \/ NothingToHash
  BY <1>3, <1>7 DEF EndWalk, AbortWalk, OpenMagic, FillMime, FillBasic, FillMedia, FillContent,
     NothingToHash, Working, Busy
<1>8. CASE HashSingleFile
  BY <1>3, <1>8 DEF HashSingleFile, ReadFile, Working, Busy
<1>9. CASE HashTop \/ NoteFileName \/ Descend \/ HashNames
  BY <1>4, <1>9 DEF HashTop, NoteFileName, Descend, HashNames, InHashDir, Working, Busy
<1>10. CASE HashFile
  BY <1>4, <1>10 DEF HashFile, ReadFile, InHashDir, Working, Busy
<1>11. CASE EndDir
  BY <1>3, <1>4, <1>11 DEF EndDir, InHashDir, Working, Busy, tasks
<1>12. CASE ReadError \/ NoMagic \/ NoDiscInfo \/ NoFirstRecord
  BY <1>4, <1>12 DEF ReadError, NoMagic, NoDiscInfo, NoFirstRecord, Fail
<1>13. CASE UNCHANGED vars
  <2>1. UNCHANGED tasks
    BY <1>13 DEF vars
  <2>2. CASE result = "stored"
    <3>1. Same
      BY <2>1 DEF Same, Filled, tasks
    <3> QED BY <3>1, SameProgresses
  <2>3. CASE result # "stored"
    <3>1. result' = result
      BY <1>13 DEF vars
    <3> QED BY <1>4, <2>1, <2>3, <3>1
  <2> QED BY <2>2, <2>3
<1> QED BY <1>1, <1>2, <1>5, <1>6, <1>7, <1>8, <1>9, <1>10, <1>11, <1>12, <1>13 DEF Next

\* What a frame has yet to do is filled once by a task that has been called.
FillsOnceIn(frame, called) ==
  \A j \in DOMAIN frame.todo : frame.todo[j] = "fill" =>
    /\ frame.task \in called
    /\ \A k \in DOMAIN frame.todo : frame.todo[k] = "fill" => k = j

\* A task fills once when it is called.
LEMMA FrameFillsOnce ==
  ASSUME NEW t \in Tasks
  PROVE  FillsOnceIn(Frame(t), made \cup {t})
<1>1. /\ Fill(t) \in Seq(Steps) /\ Get(t) \in Seq(Steps)
      /\ \A k \in 1 .. Len(Fill(t)) : Fill(t)[k] = "fill" => k = Len(Fill(t))
      /\ \A k \in 1 .. Len(Get(t)) : Get(t)[k] # "fill"
  BY ProgramDescends, ProgramFills
<1> DEFINE fill == Fill(t)
           get == Get(t)
           todo == IF t \in made THEN get ELSE fill \o get
<1>2. Frame(t).task = t /\ Frame(t).todo = todo
  BY DEF Frame
<1> HIDE DEF fill, get
<1>3. /\ Len(fill) \in Nat /\ Len(get) \in Nat /\ DOMAIN get = 1 .. Len(get)
      /\ DOMAIN (fill \o get) = 1 .. Len(fill) + Len(get)
      /\ \A k \in 1 .. Len(fill) + Len(get) :
           (fill \o get)[k] = IF k <= Len(fill) THEN fill[k] ELSE get[k - Len(fill)]
  BY <1>1, ConcatProperties, LenProperties DEF fill, get
<1>4. \A k \in 1 .. Len(fill) + Len(get) : (fill \o get)[k] = "fill" => k = Len(fill)
  BY <1>1, <1>3 DEF fill, get
<1>5. \A j, k \in DOMAIN todo : todo[j] = "fill" /\ todo[k] = "fill" => k = j
  <2>1. CASE t \in made
    BY <1>1, <1>3, <2>1 DEF get
  <2>2. CASE t \notin made
    BY <1>3, <1>4, <2>2
  <2> QED BY <2>1, <2>2
<1> HIDE DEF todo
<1> QED BY <1>2, <1>5 DEF FillsOnceIn

\* What is left to do when a step of a task is done.
LEMMA PoppedFillsOnce ==
  ASSUME TypeOK, Now.todo # <<>>, FillsOnce(stack, made), NEW m, made \subseteq m
  PROVE  \A i \in DOMAIN Popped : FillsOnceIn(Popped[i], m)
<1>1. /\ Len(stack) \in Nat \ {0} /\ Now = stack[Len(stack)] /\ Now.todo \in Seq(Steps)
      /\ DOMAIN stack = 1 .. Len(stack) /\ DOMAIN Popped = 1 .. Len(stack)
      /\ \A i \in 1 .. Len(stack) : i # Len(stack) => Popped[i] = stack[i]
      /\ Popped[Len(stack)].task = Now.task /\ Popped[Len(stack)].todo = Tail(Now.todo)
      /\ Len(stack) \in 1 .. Len(stack)
  BY PoppedIs
<1>2. ASSUME NEW i \in 1 .. Len(stack)
      PROVE  FillsOnceIn(stack[i], m)
  BY <1>1 DEF FillsOnce, FillsOnceIn
<1>3. FillsOnceIn(Popped[Len(stack)], m)
  <2> DEFINE todo == Now.todo
  <2>1. FillsOnceIn(Now, m)
    BY <1>1, <1>2
  <2>2. /\ DOMAIN todo = 1 .. Len(todo) /\ Len(todo) \in Nat \ {0}
        /\ DOMAIN Tail(todo) = 1 .. Len(todo) - 1
        /\ \A j \in 1 .. Len(todo) - 1 : Tail(todo)[j] = todo[j + 1]
    BY <1>1, TailFacts
  <2>3. \A j \in DOMAIN todo : todo[j] = "fill" =>
          Now.task \in m /\ \A k \in DOMAIN todo : todo[k] = "fill" => k = j
    BY <2>1 DEF FillsOnceIn
  <2> HIDE DEF todo
  <2> SUFFICES ASSUME NEW j \in DOMAIN Tail(todo), Tail(todo)[j] = "fill"
               PROVE  Now.task \in m /\ \A k \in DOMAIN Tail(todo) : Tail(todo)[k] = "fill" => k = j
    BY <1>1 DEF FillsOnceIn, todo
  <2>4. j \in 1 .. Len(todo) - 1 /\ j + 1 \in DOMAIN todo /\ todo[j + 1] = "fill"
    BY <2>2
  <2>5. ASSUME NEW k \in DOMAIN Tail(todo), Tail(todo)[k] = "fill"
        PROVE  k = j
    <3>1. k \in 1 .. Len(todo) - 1 /\ k + 1 \in DOMAIN todo /\ todo[k + 1] = "fill"
      BY <2>2, <2>5
    <3>2. k + 1 = j + 1
      BY <2>3, <2>4, <3>1
    <3> QED BY <2>4, <3>1, <3>2
  <2> QED BY <2>3, <2>4, <2>5
<1> QED BY <1>1, <1>2, <1>3

\* No step lets a task fill again.
LEMMA FillsOnceKept ==
  ASSUME ScanInv, FillsOnce(stack, made), [Next]_vars
  PROVE  FillsOnce(stack, made)'
<1>0. TypeOK
  BY DEF ScanInv, ShapeInv
<1>1. ASSUME Now.todo # <<>>, stack' = Popped, made' = made
      PROVE  FillsOnce(stack, made)'
  <2>1. \A i \in DOMAIN Popped : FillsOnceIn(Popped[i], made)
    BY <1>0, <1>1, PoppedFillsOnce
  <2> QED BY <1>1, <2>1 DEF FillsOnce, FillsOnceIn
<1>2. ASSUME UNCHANGED tasks
      PROVE  FillsOnce(stack, made)'
  BY <1>2 DEF tasks, FillsOnce
<1>3. ASSUME NEW t \in Tasks, Call(t)
      PROVE  FillsOnce(stack, made)'
  <2>1. Now.todo # <<>> /\ stack' = Append(Popped, Frame(t)) /\ made' = made \cup {t}
    BY <1>3 DEF Call, Busy
  <2> DEFINE m == made \cup {t}
             f == Frame(t)
             r == Append(Popped, f)
  <2>2. FillsOnceIn(f, m) /\ f \in Frames
    BY FrameFillsOnce, FrameDescends
  <2>3. made \subseteq m /\ made' = m
    BY <2>1
  <2> HIDE DEF m
  <2>4. Popped \in Seq(Frames) /\ \A i \in DOMAIN Popped : FillsOnceIn(Popped[i], m)
    BY <1>0, <2>1, <2>3, PoppedFillsOnce, PoppedIs
  <2> HIDE DEF f
  <2>5. /\ r \in Seq(Frames) /\ Len(r) = Len(Popped) + 1 /\ Len(Popped) \in Nat
        /\ \A i \in 1 .. Len(Popped) + 1 : r[i] = IF i = Len(Popped) + 1 THEN f ELSE Popped[i]
    BY <2>2, <2>4, PushTop, LenProperties
  <2>6. stack' = r
    BY <2>1 DEF f
  <2> HIDE DEF r
  <2>7. DOMAIN Popped = 1 .. Len(Popped) /\ DOMAIN r = 1 .. Len(Popped) + 1
    BY <2>4, <2>5, LenProperties
  <2>8. \A i \in DOMAIN r : FillsOnceIn(r[i], m)
    BY <2>2, <2>4, <2>5, <2>7
  <2> QED BY <2>3, <2>6, <2>8 DEF FillsOnce, FillsOnceIn
<1>4. CASE Return
  <2>1. stack' = Front(stack) /\ made' = made /\ stack \in Seq(Frames) /\ stack # <<>>
    BY <1>0, <1>4 DEF Return, TypeOK
  <2> DEFINE r == Front(stack)
  <2>2. /\ r \in Seq(Frames) /\ Len(r) = Len(stack) - 1 /\ Len(stack) \in Nat \ {0}
        /\ \A i \in 1 .. Len(stack) - 1 : r[i] = stack[i]
    BY <2>1, StackFacts
  <2>3. stack' = r
    BY <2>1
  <2> HIDE DEF r
  <2>4. DOMAIN stack = 1 .. Len(stack) /\ DOMAIN r = 1 .. Len(stack) - 1
    BY <2>1, <2>2, LenProperties
  <2>5. \A i \in DOMAIN r : i \in DOMAIN stack /\ r[i] = stack[i]
    BY <2>2, <2>4
  <2> QED BY <2>1, <2>3, <2>5 DEF FillsOnce
<1>5. CASE \/ \E n \in Nodes : Visit(n)
           \/ HashTop \/ NoteFileName \/ Descend \/ HashNames \/ HashFile
           \/ ReadError \/ NoMagic \/ NoDiscInfo \/ AddToDb \/ NoFirstRecord \/ UNCHANGED vars
  BY <1>2, <1>5 DEF Visit, HashTop, NoteFileName, Descend, HashNames, HashFile, ReadError, NoMagic,
     NoDiscInfo, AddToDb, NoFirstRecord, Fail, vars
<1>6. CASE EndDir
  BY <1>1, <1>2, <1>6 DEF EndDir, tasks, InHashDir, Working, Busy
<1>7. CASE \/ EndWalk \/ AbortWalk \/ NothingToHash \/ HashSingleFile
           \/ OpenMagic \/ FillMime \/ FillBasic \/ FillMedia \/ FillContent
  BY <1>1, <1>7 DEF EndWalk, AbortWalk, NothingToHash, HashSingleFile, OpenMagic, FillMime,
     FillBasic, FillMedia, FillContent, Working, Busy
<1> QED BY <1>3, <1>4, <1>5, <1>6, <1>7 DEF Next

\* The hashing task is filled when it has done what it does itself.
LEMMA HashingIsFilled ==
  ASSUME ScanInv, FillsOnce(stack, made), Working("hashing"), stack' = Popped, made' = made
  PROVE  Filled("hashing")'
<1>1. TypeOK /\ Descending(stack) /\ Now.todo # <<>> /\ Head(Now.todo) = "fill" /\ Now.task = "hashing"
  BY DEF ScanInv, ShapeInv, Working, Busy
<1>2. /\ Len(stack) \in Nat \ {0} /\ Now = stack[Len(stack)] /\ Now.todo \in Seq(Steps)
      /\ DOMAIN stack = 1 .. Len(stack) /\ DOMAIN Popped = 1 .. Len(stack)
      /\ \A i \in 1 .. Len(stack) : i # Len(stack) => Popped[i] = stack[i]
      /\ Popped[Len(stack)].task = Now.task /\ Popped[Len(stack)].todo = Tail(Now.todo)
      /\ Len(stack) \in 1 .. Len(stack)
  BY <1>1, PoppedIs
<1> DEFINE todo == Now.todo
<1>3. /\ DOMAIN todo = 1 .. Len(todo) /\ Len(todo) \in Nat \ {0}
      /\ DOMAIN Tail(todo) = 1 .. Len(todo) - 1 /\ Head(todo) = todo[1]
      /\ \A j \in 1 .. Len(todo) - 1 : Tail(todo)[j] = todo[j + 1]
  BY <1>1, <1>2, TailFacts
<1>4. \A j \in DOMAIN todo : todo[j] = "fill" =>
        Now.task \in made /\ \A k \in DOMAIN todo : todo[k] = "fill" => k = j
  BY <1>2 DEF FillsOnce
<1>5. todo[1] = "fill" /\ 1 \in DOMAIN todo
  BY <1>1, <1>3
<1>6. "hashing" \in made
  BY <1>1, <1>4, <1>5
<1>7. "fill" \notin Range(Tail(todo))
  <2> SUFFICES ASSUME NEW j \in DOMAIN Tail(todo), Tail(todo)[j] = "fill" PROVE FALSE
    BY DEF Range
  <2>1. j + 1 \in DOMAIN todo /\ todo[j + 1] = "fill" /\ j + 1 # 1
    BY <1>3
  <2> QED BY <1>4, <1>5, <2>1
<1>8. ASSUME NEW i \in 1 .. Len(stack), stack[i].task = "hashing"
      PROVE  i = Len(stack)
  <2> SUFFICES ASSUME i # Len(stack) PROVE FALSE
    OBVIOUS
  <2>0. Len(stack) \in Nat
    BY <1>2
  <2>1. i < Len(stack)
    BY <2>0
  <2>2. Tier(stack[Len(stack)].task) < Tier(stack[i].task)
    BY <1>1, <1>2, <2>1 DEF Descending
  <2> QED BY <1>1, <1>2, <1>8, <2>2 DEF Tier
<1>9. ~ Filling(Popped, "hashing")
  <2> SUFFICES ASSUME NEW i \in DOMAIN Popped, Popped[i].task = "hashing",
                      "fill" \in Range(Popped[i].todo)
               PROVE  FALSE
    BY DEF Filling
  <2>1. CASE i = Len(stack)
    BY <1>2, <1>7, <2>1
  <2>2. CASE i # Len(stack)
    BY <1>2, <1>8, <2>2
  <2> QED BY <2>1, <2>2
<1> QED BY <1>6, <1>9 DEF Filled

-----------------------------------------------------------------------------
(* Every step keeps what is known of hashes.                               *)

\* What is known of them, of any state.
Known(h, c, b, v, ds) ==
  /\ \A n \in Nodes : v[n] => h[n] = WholeHash(h, list, c, n)
  /\ CallsSoFar(ds, h, list, c, b, v)
  /\ \A d \in Dirs : v[d] => Reached(d, v, ds)

\* The hashes are right when what is known is known of the next state.
LEMMA KnownIs ==
  ASSUME list' = list
  PROVE  HashesInv' <=>
           /\ Known(hash', disc', blob', valid', dirs')
           /\ (\E d \in Dirs : valid'[d]) => dirs' # <<>> \/ Filled("hashing")'
BY DEF HashesInv, Known, Reached, HasPassed

\* Steps that leave the records and the hashing alone.
LEMMA HashesElsewhere ==
  ASSUME HashesInv, UNCHANGED <<disk, walk, records, hashdir>>, Progress
  PROVE  HashesInv'
<1>1. UNCHANGED <<disc, list, hash, valid, blob, dirs>>
  BY DEF disk, walk, records, hashdir
<1>2. Filled("hashing") => Filled("hashing")'
  BY FillersAre DEF Progress
<1>3. Known(hash', disc', blob', valid', dirs')
  BY <1>1 DEF HashesInv, Known
<1>4. (\E d \in Dirs : valid'[d]) => dirs' # <<>> \/ Filled("hashing")'
  BY <1>1, <1>2 DEF HashesInv
<1> QED BY <1>1, <1>3, <1>4, KnownIs

\* Before anything is listed no directory is done.
LEMMA VisitHashes ==
  ASSUME ScanInv, HashesInv, NEW m \in Nodes, Visit(m)
  PROVE  HashesInv'
<1>1. ShapeInv /\ TasksInv /\ MarksInv /\ Working("dirtree") /\ UNCHANGED <<records, hashdir>>
  BY DEF ScanInv, HashedInv, Visit
<1>2. "dirtree" \in Tasks \ {"hashing"}
  BY DEF Tasks
<1>3. ~ Filled("dirtree") /\ dirs = <<>>
  BY <1>1, <1>2, NeedsFilled, NoHashDir
<1>4. \A n \in Nodes : ~ valid[n]
  BY <1>1, <1>3 DEF MarksInv, Done
<1>5. valid' = valid /\ dirs' = <<>>
  BY <1>1, <1>3 DEF records, hashdir
<1>6. Dirs \subseteq Nodes
  BY TreeAssumption
<1> QED BY <1>4, <1>5, <1>6 DEF HashesInv, CallsSoFar

\* Nothing is hashed at first.
LEMMA HashesInit == Init => HashesInv /\ FillsOnce(stack, made)
<1> SUFFICES ASSUME Init PROVE HashesInv /\ FillsOnce(stack, made)
  OBVIOUS
<1>1. valid = [n \in Nodes |-> FALSE] /\ dirs = <<>>
  BY DEF Init
<1>2. Dirs \subseteq Nodes
  BY TreeAssumption
<1>3. HashesInv
  BY <1>1, <1>2 DEF HashesInv, CallsSoFar
<1>4. PICK todo \in {<<"files", "set">>, <<"set", "files">>} : stack = <<[task |-> "main", todo |-> todo]>>
  BY DEF Init
<1>5. stack[1].todo = todo /\ DOMAIN stack = {1} /\ DOMAIN todo = {1, 2}
  BY <1>4
<1>6. todo[1] # "fill" /\ todo[2] # "fill"
  BY <1>4
<1>7. FillsOnce(stack, made)
  BY <1>5, <1>6 DEF FillsOnce
<1> QED BY <1>3, <1>7

\* A record is done with the hash it has to have, and what was done stays so.
LEMMA MadeKept ==
  ASSUME ScanInv, \A n \in Nodes : valid[n] => hash[n] = WholeHash(hash, list, disc, n),
         NEW h, NEW v, Agree(hash, h, Done),
         \A n \in Nodes : v[n] => \/ valid[n] /\ h[n] = hash[n]
                                  \/ h[n] = WholeHash(h, list, disc, n)
  PROVE  \A n \in Nodes : v[n] => h[n] = WholeHash(h, list, disc, n)
<1>1. list \in Seq(Nodes) /\ \A d \in Dirs \cap Done : Children(d) \cap Range(list) \subseteq Done
  BY DEF ScanInv, ShapeInv, TypeOK, HashedInv, MarksInv
<1>2. ASSUME NEW n \in Nodes, valid[n], h[n] = hash[n]
      PROVE  h[n] = WholeHash(h, list, disc, n)
  <2> DEFINE D == Done
  <2>1. n \in D /\ Agree(hash, h, D) /\ \A d \in Dirs \cap D : Children(d) \cap Range(list) \subseteq D
    BY <1>1, <1>2 DEF Done
  <2> HIDE DEF D
  <2>2. WholeHash(h, list, disc, n) = WholeHash(hash, list, disc, n)
    BY <1>1, <2>1, WholeHashKept
  <2> QED BY <1>2, <2>2
<1> QED BY <1>2

\* A file that can be read gets its whole hash from hash_file.
LEMMA FileWhole ==
  ASSUME NEW n \in Nodes \ Dirs, NEW h, disc[n] # Failing
  PROVE  FileHash(n) = WholeHash(h, list, disc, n)
BY DEF FileHash, WholeHash, Data, Bytes

\* The search path is a file: its hash is set and no directory is done.
LEMMA SingleFileHashes ==
  ASSUME ScanInv, HashesInv, Progress, HashSingleFile
  PROVE  HashesInv'
<1> DEFINE n == Head(list)
<1>1. /\ n \notin Dirs /\ list # <<>> /\ list \in Seq(Nodes) /\ ReadFile(n)
      /\ hash' = [hash EXCEPT ![n] = FileHash(n)] /\ DOMAIN hash = Nodes
      /\ UNCHANGED <<disc, list, blob, dirs>>
      /\ valid \in [Nodes -> BOOLEAN]
  BY DEF HashSingleFile, ScanInv, ShapeInv, TypeOK, disk, walk, hashdir
<1>2. n \in Nodes
  <2>1. Head(list) = list[1] /\ 1 \in 1 .. Len(list)
    BY <1>1, TailFacts
  <2> QED BY <1>1, <2>1, ElementOfSeq
<1>3. dirs = <<>>
  BY <1>1 DEF ScanInv, ShapeInv, HashingInProgress
<1> HIDE DEF n
<1>4. hash'[n] = FileHash(n) /\ \A m \in Nodes \ {n} : hash'[m] = hash[m]
  BY <1>1, <1>2
<1>5. /\ \A m \in Nodes \ {n} : valid'[m] <=> valid[m]
      /\ valid'[n] => disc[n] # Failing
  <2>1. valid[n] => disc[n] # Failing
    BY <1>1, <1>2 DEF ScanInv, HashedInv, MarksInv
  <2> QED BY <1>1, <1>2, <2>1 DEF ReadFile
<1>6. Dirs \subseteq Nodes \ {n}
  BY <1>1, TreeAssumption
<1>7. Agree(hash, hash', Done)
  BY <1>4, <1>6 DEF Agree
<1>8. \A m \in Nodes : valid'[m] => hash'[m] = WholeHash(hash', list, disc, m)
  <2>1. ASSUME NEW m \in Nodes, valid'[m]
        PROVE  \/ valid[m] /\ hash'[m] = hash[m]
               \/ hash'[m] = WholeHash(hash', list, disc, m)
    <3>1. CASE m = n
      <4>1. n \in Nodes \ Dirs /\ disc[n] # Failing
        BY <1>1, <1>2, <1>5, <2>1, <3>1
      <4>2. FileHash(n) = WholeHash(hash', list, disc, n)
        BY <4>1, FileWhole
      <4> QED BY <1>4, <3>1, <4>2
    <3>2. CASE m # n
      BY <1>4, <1>5, <2>1, <3>2
    <3> QED BY <3>1, <3>2
  <2>2. \A m \in Nodes : valid[m] => hash[m] = WholeHash(hash, list, disc, m)
    BY DEF HashesInv
  <2> QED BY <1>7, <2>1, <2>2, MadeKept
<1>9. \A d \in Dirs : valid'[d] => Reached(d, valid', dirs')
  <2> SUFFICES ASSUME NEW d \in Dirs, valid'[d] PROVE Reached(d, valid', dirs')
    OBVIOUS
  <2>1. valid[d]
    BY <1>5, <1>6
  <2>2. Reached(d, valid, dirs)
    BY <2>1 DEF HashesInv
  <2>3. \A m \in Nodes : valid[m] => valid'[m]
    BY <1>1, <1>2 DEF ReadFile
  <2>4. Continued(dirs, dirs', valid')
    BY <1>3 DEF Continued
  <2> QED BY <2>2, <2>3, <2>4, ReachedKept
<1>10. Known(hash', disc', blob', valid', dirs')
  <2>1. CallsSoFar(dirs', hash', list, disc', blob', valid')
    BY <1>1, <1>3 DEF CallsSoFar
  <2> QED BY <1>1, <1>8, <1>9, <2>1 DEF Known
<1>11. (\E d \in Dirs : valid'[d]) => dirs' # <<>> \/ Filled("hashing")'
  <2>1. (\E d \in Dirs : valid'[d]) => \E d \in Dirs : valid[d]
    BY <1>5, <1>6
  <2>2. Filled("hashing") => Filled("hashing")'
    BY FillersAre DEF Progress
  <2> QED BY <1>1, <2>1, <2>2 DEF HashesInv
<1> QED BY <1>1, <1>10, <1>11, KnownIs

\* The call for the first record: there is no other and none is done.
LEMMA HashTopHashes ==
  ASSUME ScanInv, HashesInv, HashTop
  PROVE  HashesInv'
<1> DEFINE f == HashDir(Head(list), 1)
<1>1. /\ list \in Seq(Nodes) /\ IsSorted(list, Before) /\ list # <<>> /\ Head(list) \in Dirs
      /\ dirs = <<>> /\ dirs' = <<f>> /\ blob' = [blob EXCEPT ![Head(list)] = <<>>]
      /\ DOMAIN blob = Dirs /\ UNCHANGED <<disc, list, hash, valid>>
  BY DEF ScanInv, ShapeInv, TypeOK, ListSorted, HashTop, disk, walk, records
<1>2. 1 \in 1 .. Len(list) /\ Head(list) = list[1]
  BY <1>1, TailFacts
<1>3. \A d \in Dirs : ~ valid[d]
  <2>1. ~ Filled("hashing")
    BY HashingFollowsWalk DEF ScanInv, HashTop
  <2> QED BY <1>1, <2>1 DEF HashesInv
<1>4. SoFar(f, hash, list, disc, blob')
  <2>1. blob'[list[1]] = <<>>
    BY <1>1, <1>2
  <2> QED BY <1>1, <1>2, <2>1, NamesBegin
<1>5. f.dir = Head(list)
  BY DEF HashDir
<1> HIDE DEF f
<1>6. CallsSoFar(<<f>>, hash, list, disc, blob', valid)
  BY <1>1, <1>3, <1>4, <1>5 DEF CallsSoFar
<1>7. Known(hash', disc', blob', valid', dirs')
  BY <1>1, <1>3, <1>6 DEF HashesInv, Known
<1> QED BY <1>1, <1>3, <1>7, KnownIs

\* What is known where the top call is in a loop.
LEMMA TopFacts ==
  ASSUME ScanInv, HashesInv, NEW phase, InHashDir(phase)
  PROVE  /\ list \in Seq(Nodes) /\ IsSorted(list, Before) /\ Typed /\ Working("hashing")
         /\ dirs \in Seq(HashFrames) /\ dirs # <<>> /\ Front(dirs) \in Seq(HashFrames)
         /\ Dir \in HashFrames /\ Shows(Dir) /\ Dir.phase = phase /\ Dir = Last(dirs)
         /\ MarksInv /\ CallsSeen(dirs, Done) /\ CallsSeen(Front(dirs), Done) /\ Seen(Dir, Done)
         /\ CallsSoFar(dirs, hash, list, disc, blob, valid)
         /\ CallsSoFar(Front(dirs), hash, list, disc, blob, valid)
         /\ SoFar(Dir, hash, list, disc, blob) /\ ~ valid[Dir.dir]
         /\ Dir.dir \in Dirs /\ Dir.dir \in Nodes /\ Dir.dir \notin Done
<1>1. /\ list \in Seq(Nodes) /\ IsSorted(list, Before) /\ Typed
      /\ dirs \in Seq(HashFrames) /\ dirs # <<>> /\ Front(dirs) \in Seq(HashFrames)
      /\ Dir \in HashFrames /\ Shows(Dir) /\ Dir.phase = phase
      /\ MarksInv /\ CallsSeen(dirs, Done) /\ CallsSeen(Front(dirs), Done) /\ Seen(Dir, Done)
  BY CallFacts DEF ScanInv
<1>2. CallsSoFar(dirs, hash, list, disc, blob, valid) /\ Dir = Last(dirs) /\ Working("hashing")
  BY DEF HashesInv, Dir, InHashDir
<1>3. /\ CallsSoFar(Front(dirs), hash, list, disc, blob, valid)
      /\ CallSoFar(Dir, hash, disc, blob, valid)
  BY <1>1, <1>2, CallsSoFarFront
<1>4. Dir.dir \in Dirs /\ Dir.dir \in Nodes
  BY <1>1, TreeAssumption DEF HashFrames
<1>5. ~ valid[Dir.dir] /\ ~ unreadable[Dir.dir]
  BY <1>1, <1>3, <1>4 DEF CallSoFar, MarksInv
<1> QED BY <1>1, <1>2, <1>3, <1>4, <1>5 DEF CallSoFar, Done

\* The calls that wait are for other directories than the top one.
LEMMA OthersAbove ==
  ASSUME ScanInv, HashesInv, NEW phase, InHashDir(phase), NEW i \in DOMAIN Front(dirs)
  PROVE  /\ Front(dirs)[i] \in HashFrames
         /\ Front(dirs)[i].dir \in Dirs /\ Front(dirs)[i].dir # Dir.dir
         /\ Depth[Front(dirs)[i].dir] < Depth[Dir.dir]
<1>1. /\ dirs \in Seq(HashFrames) /\ dirs # <<>> /\ Front(dirs) \in Seq(HashFrames)
      /\ CallsSoFar(dirs, hash, list, disc, blob, valid) /\ Dir = Last(dirs) /\ Dir.dir \in Nodes
  BY TopFacts
<1>2. Depth[Front(dirs)[i].dir] < Depth[Dir.dir]
  BY <1>1, CallsSoFarFront
<1>3. Front(dirs)[i] \in HashFrames
  BY <1>1, LenProperties, ElementOfSeq
<1>4. Front(dirs)[i].dir \in Dirs /\ Depth[Dir.dir] \in Nat
  BY <1>1, <1>3, TreeAssumption DEF HashFrames
<1>5. Front(dirs)[i].dir # Dir.dir
  BY <1>2, <1>4
<1> QED BY <1>2, <1>3, <1>4, <1>5

\* The top call goes on: the others stay where they are.
LEMMA TopSoFar ==
  ASSUME ScanInv, HashesInv, NEW phase, InHashDir(phase), NEW h, NEW b, NEW v, Agree(hash, h, Done),
         Untouched(Front(dirs), hash, h, blob, b, valid, v),
         NEW f \in HashFrames, f.dir = Dir.dir, SoFar(f, h, list, disc, b), ~ v[Dir.dir]
  PROVE  CallsSoFar(Append(Front(dirs), f), h, list, disc, b, v)
<1> DEFINE ds == Front(dirs)
           D == Done
<1>1. /\ list \in Seq(Nodes) /\ IsSorted(list, Before) /\ ds \in Seq(HashFrames)
      /\ CallsSeen(ds, D) /\ CallsSoFar(ds, hash, list, disc, blob, valid)
  BY TopFacts
<1>2. \A i \in DOMAIN ds : Depth[ds[i].dir] < Depth[f.dir]
  BY OthersAbove
<1>3. CallSoFar(f, h, disc, b, v)
  BY DEF CallSoFar
<1>4. Agree(hash, h, D) /\ Untouched(ds, hash, h, blob, b, valid, v)
  OBVIOUS
<1> HIDE DEF ds, D
<1>5. CallsSoFar(ds, h, list, disc, b, v)
  BY <1>1, <1>4, CallsSoFarKept
<1>6. CallsSoFar(Append(ds, f), h, list, disc, b, v)
  BY <1>1, <1>2, <1>3, <1>5, CallsSoFarPush
<1> QED BY <1>6 DEF ds

\* Where the top call goes on the directories reached stay so.
LEMMA TopReached ==
  ASSUME ScanInv, HashesInv, NEW phase, InHashDir(phase), NEW f \in HashFrames, GoesOn(Dir, f),
         NEW v, \A n \in Nodes : valid[n] => v[n], NEW d \in Dirs, valid[d]
  PROVE  Reached(d, v, Append(Front(dirs), f))
<1>1. dirs \in Seq(HashFrames) /\ dirs # <<>> /\ Dir = Last(dirs)
  BY TopFacts
<1>2. Continued(dirs, Append(Front(dirs), f), v)
  BY <1>1, TopContinued
<1>3. Reached(d, valid, dirs)
  BY DEF HashesInv
<1> DEFINE r == Append(Front(dirs), f)
<1> HIDE DEF r
<1>4. Reached(d, v, r)
  BY <1>2, <1>3, ReachedKept DEF r
<1> QED BY <1>4 DEF r

\* The top call goes on and no directory is done by that.
LEMMA TopHashes ==
  ASSUME ScanInv, HashesInv, NEW phase, InHashDir(phase), Agree(hash, hash', Done),
         Untouched(Front(dirs), hash, hash', blob, blob', valid, valid'),
         NEW f \in HashFrames, f.dir = Dir.dir, SoFar(f, hash', list, disc, blob'), GoesOn(Dir, f),
         dirs' = Append(Front(dirs), f), UNCHANGED <<disc, list>>,
         \A n \in Nodes : valid[n] => valid'[n], \A d \in Dirs : valid'[d] => valid[d],
         \A n \in Nodes : valid'[n] => \/ valid[n] /\ hash'[n] = hash[n]
                                       \/ hash'[n] = WholeHash(hash', list, disc, n)
  PROVE  HashesInv'
<1> DEFINE ds == Append(Front(dirs), f)
<1>1. /\ Dir.dir \in Dirs /\ ~ valid[Dir.dir] /\ dirs \in Seq(HashFrames) /\ dirs # <<>>
  BY TopFacts
<1>2. CallsSoFar(ds, hash', list, disc, blob', valid')
  <2>1. ~ valid'[Dir.dir]
    BY <1>1
  <2> QED BY <2>1, TopSoFar
<1>3. \A d \in Dirs : valid'[d] => Reached(d, valid', ds)
  <2> SUFFICES ASSUME NEW d \in Dirs, valid'[d] PROVE Reached(d, valid', ds)
    OBVIOUS
  <2>1. valid[d]
    OBVIOUS
  <2> QED BY <2>1, TopReached
<1>4. \A n \in Nodes : valid'[n] => hash'[n] = WholeHash(hash', list, disc, n)
  <2>1. \A n \in Nodes : valid[n] => hash[n] = WholeHash(hash, list, disc, n)
    BY DEF HashesInv
  <2> QED BY <2>1, MadeKept
<1>5. ds # <<>>
  BY <1>1, ReplaceTop
<1> HIDE DEF ds
<1>6. dirs' = ds
  BY DEF ds
<1>7. Known(hash', disc', blob', valid', dirs')
  BY <1>2, <1>3, <1>4, <1>6 DEF Known
<1> QED BY <1>5, <1>6, <1>7, KnownIs

\* The name of a file is noted.
LEMMA NoteFileNameHashes ==
  ASSUME ScanInv, HashesInv, NoteFileName
  PROVE  HashesInv'
<1>1. /\ InHashDir("names") /\ ~ AtEnd(list, Dir.dir, Dir.at) /\ Entry = list[Dir.at]
      /\ Entry \notin Dirs /\ dirs' = Append(Front(dirs), Advanced(Dir))
      /\ blob' = [blob EXCEPT ![Dir.dir] = @ \o Letters(Name[Entry])]
      /\ UNCHANGED <<disc, list, hash, valid>>
  BY DEF NoteFileName, DirAtEnd, Entry, disk, walk, records
<1>2. /\ list \in Seq(Nodes) /\ IsSorted(list, Before) /\ Typed
      /\ Dir \in HashFrames /\ Shows(Dir) /\ Dir.phase = "names"
      /\ SoFar(Dir, hash, list, disc, blob) /\ Dir.dir \in Dirs
  BY <1>1, TopFacts
<1>3. Advanced(Dir) \in HashFrames /\ Advanced(Dir).dir = Dir.dir /\ GoesOn(Dir, Advanced(Dir))
  BY <1>1, <1>2, AdvancedFacts, AdvancedGoesOn
<1>4. blob'[Dir.dir] = AddName(blob[Dir.dir], hash, list[Dir.at])
  BY <1>1, <1>2 DEF AddName, Typed
<1>5. SoFar(Advanced(Dir), hash, list, disc, blob')
  BY <1>1, <1>2, <1>4, NamesAdvance
<1>6. Untouched(Front(dirs), hash, hash', blob, blob', valid, valid')
  BY <1>1, <1>2, OthersAbove DEF Untouched, Typed
<1>7. Agree(hash, hash', Done)
  BY <1>1 DEF Agree
<1> QED BY <1>1, <1>3, <1>5, <1>6, <1>7, TopHashes

\* The blob is hashed and the files begin.
LEMMA HashNamesHashes ==
  ASSUME ScanInv, HashesInv, HashNames
  PROVE  HashesInv'
<1> DEFINE at == FirstFile(list, Dir.dir, Dir.view)
           f == [Dir EXCEPT !.phase = "files", !.at = at]
<1>1. /\ InHashDir("names") /\ AtEnd(list, Dir.dir, Dir.at)
      /\ hash' = [hash EXCEPT ![Dir.dir] = Tiger(blob[Dir.dir])]
      /\ dirs' = Append(Front(dirs), f) /\ UNCHANGED <<disc, list, valid, blob>>
  BY DEF HashNames, DirAtEnd, disk, walk
<1>2. /\ list \in Seq(Nodes) /\ IsSorted(list, Before) /\ Typed
      /\ Dir \in HashFrames /\ Dir.phase = "names" /\ Seen(Dir, Done)
      /\ SoFar(Dir, hash, list, disc, blob) /\ Dir.dir \in Nodes /\ Dir.dir \notin Done
      /\ ~ valid[Dir.dir]
  BY <1>1, TopFacts
<1>3. hash'[Dir.dir] = Tiger(blob[Dir.dir]) /\ \A n \in Nodes : n # Dir.dir => hash'[n] = hash[n]
  BY <1>1, <1>2 DEF Typed
<1>4. Agree(hash, hash', Done)
  BY <1>2, <1>3, TreeAssumption DEF Agree
<1>5. SoFar(f, hash', list, disc, blob)
  BY <1>1, <1>2, <1>3, <1>4, FilesBegin
<1>6. at \in 1 .. Len(list) + 1
  <2>1. Dir.view \in 1 .. Len(list)
    BY <1>2 DEF HashFrames
  <2>2. at \in Dir.view .. Len(list) + 1
    BY <1>2, <2>1, FirstFileLeast
  <2> HIDE DEF at
  <2> QED BY <2>1, <2>2
<1> HIDE DEF at
<1>7. f \in HashFrames /\ f.dir = Dir.dir /\ f.phase = "files"
  BY <1>2, <1>6 DEF HashFrames
<1> HIDE DEF f
<1>8. GoesOn(Dir, f)
  BY <1>7 DEF GoesOn, HasPassed
<1>9. Untouched(Front(dirs), hash, hash', blob, blob', valid, valid')
  BY <1>1, <1>3, OthersAbove, TreeAssumption DEF Untouched
<1>10. \A n \in Nodes : valid'[n] => valid[n] /\ hash'[n] = hash[n]
  BY <1>1, <1>2, <1>3
<1> QED BY <1>1, <1>4, <1>5, <1>7, <1>8, <1>9, <1>10, TopHashes

\* A file is hashed, or skipped when it cannot be read, and mixed in.
LEMMA HashFileHashes ==
  ASSUME ScanInv, HashesInv, HashFile
  PROVE  HashesInv'
<1> DEFINE n == Entry
<1>1. /\ InHashDir("files") /\ ~ AtEnd(list, Dir.dir, Dir.at) /\ n = list[Dir.at] /\ ReadFile(n)
      /\ hash' = [hash EXCEPT
           ![n] = FileHash(n),
           ![Dir.dir] = IF disc[n] = Failing THEN @ ELSE Tiger(<<Block(@)>> \o Bytes(n))]
      /\ dirs' = Append(Front(dirs), Advanced(Dir)) /\ UNCHANGED <<disc, list, blob>>
  BY DEF HashFile, DirAtEnd, Entry, disk, walk
<1>2. /\ list \in Seq(Nodes) /\ IsSorted(list, Before) /\ Typed
      /\ Dir \in HashFrames /\ Shows(Dir) /\ Dir.phase = "files" /\ Seen(Dir, Done)
      /\ SoFar(Dir, hash, list, disc, blob) /\ Dir.dir \in Nodes /\ Dir.dir \in Dirs
      /\ Dir.dir \notin Done /\ ~ valid[Dir.dir] /\ MarksInv
  BY <1>1, TopFacts
<1>3. n \in Nodes \ Dirs
  <2>1. Dir.at \in 1 .. Len(list)
    BY <1>1, <1>2 DEF AtEnd, HashFrames
  <2> QED BY <1>1, <1>2, <2>1, ElementOfSeq DEF Shows
<1> HIDE DEF n
<1>4. /\ hash'[n] = FileHash(n)
      /\ hash'[Dir.dir] = IF disc[n] = Failing THEN hash[Dir.dir]
                          ELSE Tiger(<<Block(hash[Dir.dir])>> \o Bytes(n))
      /\ \A m \in Nodes : m # n /\ m # Dir.dir => hash'[m] = hash[m]
  BY <1>1, <1>2, <1>3 DEF Typed
<1>5. Agree(hash, hash', Done)
  BY <1>2, <1>3, <1>4, TreeAssumption DEF Agree
<1>6. hash'[Dir.dir] = AddFile(hash[Dir.dir], disc, list[Dir.at])
  BY <1>1, <1>3, <1>4 DEF AddFile, Data, Bytes
<1>7. SoFar(Advanced(Dir), hash', list, disc, blob)
  BY <1>1, <1>2, <1>5, <1>6, FilesAdvance
<1>8. Advanced(Dir) \in HashFrames /\ Advanced(Dir).dir = Dir.dir /\ GoesOn(Dir, Advanced(Dir))
  BY <1>1, <1>2, AdvancedFacts, AdvancedGoesOn
<1>9. /\ \A m \in Nodes : m # n => (valid'[m] <=> valid[m])
      /\ valid'[n] => disc[n] # Failing
      /\ valid[n] => valid'[n]
  <2>1. valid[n] => disc[n] # Failing
    BY <1>2, <1>3 DEF MarksInv
  <2> QED BY <1>1, <1>2, <1>3, <2>1 DEF ReadFile, Typed
<1>10. Untouched(Front(dirs), hash, hash', blob, blob', valid, valid')
  <2> SUFFICES ASSUME NEW i \in DOMAIN Front(dirs)
               PROVE  LET d == Front(dirs)[i].dir
                      IN  hash'[d] = hash[d] /\ blob'[d] = blob[d] /\ (valid'[d] <=> valid[d])
    BY DEF Untouched
  <2> DEFINE d == Front(dirs)[i].dir
  <2>1. d \in Dirs /\ d # Dir.dir
    BY <1>1, OthersAbove
  <2> HIDE DEF d
  <2>2. d \in Nodes /\ d # n
    BY <1>3, <2>1, TreeAssumption
  <2>3. hash'[d] = hash[d] /\ blob'[d] = blob[d] /\ (valid'[d] <=> valid[d])
    BY <1>1, <1>4, <1>9, <2>1, <2>2
  <2> QED BY <2>3 DEF d
<1>11. ASSUME NEW m \in Nodes, valid'[m]
       PROVE  \/ valid[m] /\ hash'[m] = hash[m]
              \/ hash'[m] = WholeHash(hash', list, disc, m)
  <2>1. CASE m = n
    <3>1. disc[n] # Failing
      BY <1>9, <1>11, <2>1
    <3>2. FileHash(n) = WholeHash(hash', list, disc, n)
      BY <1>3, <3>1, FileWhole
    <3> QED BY <1>4, <2>1, <3>2
  <2>2. CASE m # n
    <3>1. valid[m] /\ m # Dir.dir
      BY <1>2, <1>9, <1>11, <2>2
    <3> QED BY <1>4, <2>2, <3>1
  <2> QED BY <2>1, <2>2
<1>12. /\ \A m \in Nodes : valid[m] => valid'[m]
       /\ \A d \in Dirs : valid'[d] => valid[d]
  BY <1>3, <1>9, TreeAssumption
<1>13. blob' = blob /\ list' = list /\ disc' = disc
  BY <1>1
<1> QED BY <1>1, <1>5, <1>7, <1>8, <1>10, <1>11, <1>12, <1>13, TopHashes

\* A directory that the top call comes to has not been hashed before.
LEMMA EntryNotDone ==
  ASSUME ScanInv, HashesInv, InHashDir("names"), ~ DirAtEnd, Entry \in Dirs
  PROVE  ~ valid[Entry] /\ Depth[Dir.dir] < Depth[Entry] /\ Dir.at \in 1 .. Len(list)
<1>1. /\ list \in Seq(Nodes) /\ IsSorted(list, Before)
      /\ dirs \in Seq(HashFrames) /\ dirs # <<>> /\ Dir = Last(dirs)
      /\ Dir \in HashFrames /\ Shows(Dir) /\ Dir.phase = "names"
      /\ Seen(Dir, Done) /\ CallsSoFar(dirs, hash, list, disc, blob, valid)
      /\ ~ valid[Dir.dir]
  BY TopFacts
<1>2. /\ DOMAIN list = 1 .. Len(list) /\ Len(list) \in Nat
      /\ \A i \in 1 .. Len(list) : list[i] \in Nodes /\ Depth[list[i]] \in Nat
      /\ \A i, j \in 1 .. Len(list) : i <= j => Depth[list[i]] <= Depth[list[j]]
  BY <1>1, LevelsAscend
<1>3. Dir.at \in 1 .. Len(list) /\ Entry = list[Dir.at] /\ ~ AtEnd(list, Dir.dir, Dir.at)
  BY <1>1, <1>2 DEF AtEnd, HashFrames, DirAtEnd, Entry
<1>4. IsIn(list[Dir.at], Dir.dir)
  BY <1>1, <1>3 DEF Shows
<1>5. Depth[list[Dir.at]] = Depth[Dir.dir] + 1 /\ Depth[Dir.dir] \in Nat
  BY <1>2, <1>3, <1>4, ChildIsBelow
<1>6. ~ valid[Entry]
  <2> SUFFICES ASSUME valid[Entry] PROVE FALSE
    OBVIOUS
  <2>1. Reached(Entry, valid, dirs)
    BY DEF HashesInv
  <2>2. Entry # Head(list)
    <3>1. list # <<>> /\ Head(list) = list[1] /\ Dir.view \in 1 .. Len(list) /\ list[Dir.view] = Dir.dir
      BY <1>1, <1>2, <1>3, TailFacts DEF HashFrames, Seen
    <3>2. 1 \in 1 .. Len(list) /\ 1 <= Dir.view
      BY <1>2, <3>1
    <3>3. Depth[list[1]] <= Depth[Dir.dir] /\ Depth[list[1]] \in Nat
      BY <1>2, <3>1, <3>2
    <3> QED BY <1>3, <1>5, <3>1, <3>3
  <2>3. ~ (Entry # Root /\ valid[Parent[Entry]])
    BY <1>1, <1>3, <1>4 DEF IsIn
  <2>4. PICK i \in DOMAIN dirs, p \in DOMAIN list : list[p] = Entry /\ HasPassed(dirs[i], p)
    BY <2>1, <2>2, <2>3 DEF Reached
  <2>5. dirs[i].dir = Dir.dir
    BY <1>3, <1>4, <2>4 DEF HasPassed, IsIn
  <2>6. i = Len(dirs) /\ Dir = dirs[Len(dirs)]
    <3>1. DOMAIN dirs = 1 .. Len(dirs) /\ Len(dirs) \in Nat \ {0} /\ Last(dirs) = dirs[Len(dirs)]
      BY <1>1, StackFacts, LenProperties
    <3>2. i < Len(dirs) => Depth[dirs[i].dir] < Depth[Dir.dir]
      BY <1>1, <2>4, <3>1 DEF CallsSoFar
    <3>3. ~ (i < Len(dirs))
      BY <1>5, <2>5, <3>2
    <3>4. i \in 1 .. Len(dirs)
      BY <2>4, <3>1
    <3> QED BY <1>1, <3>1, <3>3, <3>4
  <2>7. p < Dir.at /\ p \in 1 .. Len(list) /\ list[p] = list[Dir.at]
    BY <1>1, <1>2, <1>3, <2>4, <2>6 DEF HasPassed
  <2>8. Before(list[p], list[Dir.at])
    BY <1>1, <1>3, <2>7 DEF IsSorted
  <2>9. list[p] \in Nodes /\ Depth[list[p]] \in Nat /\ Rank[list[p]] \in Nat
    BY <1>2, <2>7, OrderAssumption
  <2> QED BY <2>7, <2>8, <2>9 DEF Before
<1> QED BY <1>3, <1>5, <1>6

\* A call for an entry that is a directory, which has not been done.
LEMMA DescendHashes ==
  ASSUME ScanInv, HashesInv, Descend
  PROVE  HashesInv'
<1> DEFINE f == HashDir(Entry, Dir.at)
           ds == dirs
           D == Done
<1>1. /\ InHashDir("names") /\ ~ DirAtEnd /\ Entry = list[Dir.at] /\ Entry \in Dirs
      /\ dirs' = Append(ds, f) /\ blob' = [blob EXCEPT ![Entry] = <<>>]
      /\ UNCHANGED <<disc, list, hash, valid>>
  BY DEF Descend, Entry, disk, walk, records
<1>2. /\ list \in Seq(Nodes) /\ IsSorted(list, Before) /\ Typed
      /\ ds \in Seq(HashFrames) /\ ds # <<>> /\ Dir = Last(ds) /\ Dir.dir \in Nodes
      /\ CallsSeen(ds, D) /\ CallsSoFar(ds, hash, list, disc, blob, valid)
  BY <1>1, TopFacts
<1>3. ~ valid[Entry] /\ Depth[Dir.dir] < Depth[Entry] /\ Dir.at \in 1 .. Len(list)
  BY <1>1, EntryNotDone
<1>4. f \in HashFrames /\ f.dir = Entry
  BY <1>1, <1>2, <1>3, HashDirBegins DEF HashDir
<1>5. SoFar(f, hash, list, disc, blob')
  <2>1. blob'[list[Dir.at]] = <<>>
    BY <1>1, <1>2 DEF Typed
  <2> QED BY <1>1, <1>2, <1>3, <2>1, NamesBegin
<1>6. ASSUME NEW i \in DOMAIN ds
      PROVE  ds[i].dir \in Dirs /\ Depth[ds[i].dir] < Depth[Entry]
  <2>1. /\ DOMAIN ds = 1 .. Len(ds) /\ Len(ds) \in Nat \ {0} /\ Last(ds) = ds[Len(ds)]
        /\ ds[i] \in HashFrames
    BY <1>2, <1>6, StackFacts, LenProperties, ElementOfSeq
  <2>2. Depth[ds[i].dir] \in Nat /\ Depth[Dir.dir] \in Nat /\ Depth[Entry] \in Nat /\ ds[i].dir \in Dirs
    BY <1>1, <1>2, <2>1, TreeAssumption DEF HashFrames
  <2>3. CASE i = Len(ds)
    BY <1>2, <1>3, <2>1, <2>2, <2>3
  <2>4. CASE i < Len(ds)
    <3>1. Depth[ds[i].dir] < Depth[Dir.dir]
      BY <1>2, <1>6, <2>1, <2>4 DEF CallsSoFar
    <3> QED BY <1>3, <2>2, <3>1
  <2> QED BY <1>6, <2>1, <2>3, <2>4
<1> HIDE DEF f, D
<1>7. Untouched(ds, hash, hash, blob, blob', valid, valid)
  <2> SUFFICES ASSUME NEW i \in DOMAIN ds PROVE blob'[ds[i].dir] = blob[ds[i].dir]
    BY DEF Untouched
  <2>1. ds[i].dir \in Dirs /\ Depth[ds[i].dir] < Depth[Entry]
    BY <1>6
  <2>2. Depth[Entry] \in Nat
    BY <1>1, TreeAssumption
  <2>3. ds[i].dir # Entry
    BY <2>1, <2>2
  <2> QED BY <1>1, <1>2, <2>1, <2>3 DEF Typed
<1> HIDE DEF ds
<1>8. CallsSoFar(ds, hash, list, disc, blob', valid)
  <2>1. Agree(hash, hash, D)
    BY DEF Agree
  <2> QED BY <1>2, <1>7, <2>1, CallsSoFarKept
<1>9. CallsSoFar(Append(ds, f), hash, list, disc, blob', valid)
  <2>1. CallSoFar(f, hash, disc, blob', valid)
    BY <1>3, <1>4, <1>5 DEF CallSoFar
  <2>2. \A i \in DOMAIN ds : Depth[ds[i].dir] < Depth[f.dir]
    BY <1>4, <1>6
  <2> QED BY <1>2, <1>4, <1>8, <2>1, <2>2, CallsSoFarPush
<1> DEFINE r == Append(ds, f)
<1>10. /\ r # <<>> /\ Len(r) = Len(ds) + 1 /\ r \in Seq(HashFrames) /\ Len(ds) \in Nat
       /\ \A i \in 1 .. Len(ds) + 1 : r[i] = IF i = Len(ds) + 1 THEN f ELSE ds[i]
  BY <1>2, <1>4, PushTop, LenProperties
<1>11. dirs' = r /\ CallsSoFar(r, hash, list, disc, blob', valid)
  BY <1>1, <1>9
<1> HIDE DEF r
<1>12. Continued(ds, r, valid)
  <2>1. DOMAIN ds = 1 .. Len(ds) /\ DOMAIN r = 1 .. Len(ds) + 1
    BY <1>2, <1>10, LenProperties
  <2>2. \A i \in DOMAIN ds : i \in DOMAIN r /\ r[i] = ds[i]
    BY <1>10, <2>1
  <2> QED BY <2>2 DEF Continued, GoesOn
<1>13. \A d \in Dirs : valid[d] => Reached(d, valid, r)
  <2> SUFFICES ASSUME NEW d \in Dirs, valid[d] PROVE Reached(d, valid, r)
    OBVIOUS
  <2>1. Reached(d, valid, ds)
    BY DEF HashesInv, ds
  <2> QED BY <1>12, <2>1, ReachedKept
<1>14. Known(hash', disc', blob', valid', dirs')
  BY <1>1, <1>11, <1>13 DEF Known, HashesInv
<1> QED BY <1>1, <1>10, <1>11, <1>14, KnownIs

\* A directory that is hashed to its end has the hash it has to have.
LEMMA EndDirMade ==
  ASSUME ScanInv, HashesInv, EndDir
  PROVE  /\ \A n \in Nodes : valid'[n] <=> valid[n] \/ n = Dir.dir
         /\ \A n \in Nodes : valid'[n] => hash'[n] = WholeHash(hash', list, disc, n)
<1>1. /\ InHashDir("files") /\ AtEnd(list, Dir.dir, Dir.at) /\ hash' = hash
      /\ valid' = [valid EXCEPT ![Dir.dir] = TRUE]
  BY DEF EndDir, DirAtEnd
<1>2. /\ list \in Seq(Nodes) /\ IsSorted(list, Before) /\ Typed
      /\ Dir \in HashFrames /\ Dir.phase = "files" /\ Seen(Dir, Done)
      /\ SoFar(Dir, hash, list, disc, blob) /\ Dir.dir \in Nodes
  BY <1>1, TopFacts
<1>3. hash[Dir.dir] = WholeHash(hash, list, disc, Dir.dir)
  BY <1>1, <1>2, DirHashed
<1>4. \A n \in Nodes : valid'[n] <=> valid[n] \/ n = Dir.dir
  BY <1>1, <1>2 DEF Typed
<1> QED BY <1>1, <1>3, <1>4 DEF HashesInv

\* The first record is done: the hashing task fills.
LEMMA LastEndDirHashes ==
  ASSUME ScanInv, HashesInv, FillsOnce(stack, made), EndDir, Len(dirs) = 1
  PROVE  HashesInv'
<1>1. /\ InHashDir("files") /\ Working("hashing") /\ dirs' = <<>> /\ stack' = Popped /\ made' = made
      /\ list' = list /\ disc' = disc
  BY DEF EndDir, InHashDir, disk, walk
<1>2. /\ \A n \in Nodes : valid'[n] <=> valid[n] \/ n = Dir.dir
      /\ \A n \in Nodes : valid'[n] => hash'[n] = WholeHash(hash', list, disc, n)
  BY EndDirMade
<1>3. /\ dirs \in Seq(HashFrames) /\ dirs # <<>> /\ Dir = Last(dirs)
      /\ Dir.dir \in Nodes
  BY <1>1, TopFacts
<1>4. DOMAIN dirs = {1} /\ Dir = dirs[1]
  <2>1. DOMAIN dirs = 1 .. Len(dirs) /\ Last(dirs) = dirs[Len(dirs)]
    BY <1>3, StackFacts, LenProperties
  <2> QED BY <1>3, <2>1
<1>5. Dir.dir = Head(list)
  <2>1. CallsSeen(dirs, Done)
    BY DEF ScanInv, HashedInv
  <2> QED BY <1>3, <1>4, <2>1 DEF CallsSeen
<1>6. \A d \in Dirs : valid'[d] => Reached(d, valid', <<>>)
  <2> SUFFICES ASSUME NEW d \in Dirs, valid'[d] PROVE Reached(d, valid', <<>>)
    OBVIOUS
  <2>0. d \in Nodes
    BY TreeAssumption
  <2>1. CASE d = Dir.dir
    BY <1>5, <2>1 DEF Reached
  <2>2. CASE valid[d]
    <3>1. Reached(d, valid, dirs)
      BY <2>2 DEF HashesInv
    <3>2. Continued(dirs, <<>>, valid')
      BY <1>2, <1>3, <1>4 DEF Continued
    <3>3. \A n \in Nodes : valid[n] => valid'[n]
      BY <1>2
    <3> QED BY <3>1, <3>2, <3>3, ReachedKept
  <2> QED BY <1>2, <2>0, <2>1, <2>2
<1>7. Filled("hashing")'
  BY <1>1, HashingIsFilled
<1>8. CallsSoFar(<<>>, hash', list, disc', blob', valid')
  BY DEF CallsSoFar
<1>9. Known(hash', disc', blob', valid', dirs')
  BY <1>1, <1>2, <1>6, <1>8 DEF Known
<1> QED BY <1>1, <1>7, <1>9, KnownIs

\* A directory is done and its name is noted behind its hash.
LEMMA EndDirHashes ==
  ASSUME ScanInv, HashesInv, EndDir, Len(dirs) # 1
  PROVE  HashesInv'
<1> DEFINE above == Front(dirs)
           f == Last(above)
           g == Advanced(f)
           under == Front(above)
           r == Append(under, g)
<1>1. /\ InHashDir("files") /\ dirs' = r
      /\ blob' = [blob EXCEPT ![f.dir] = @ \o <<hash[Dir.dir]>> \o Letters(Name[Dir.dir])]
      /\ hash' = hash /\ list' = list /\ disc' = disc
  <2>1. /\ dirs' = r
        /\ blob' = [blob EXCEPT ![f.dir] = @ \o <<hash[Dir.dir]>> \o Letters(Name[Dir.dir])]
    BY Zenon DEF EndDir
  <2> QED BY <2>1 DEF EndDir, disk, walk
<1>2. /\ \A n \in Nodes : valid'[n] <=> valid[n] \/ n = Dir.dir
      /\ \A n \in Nodes : valid'[n] => hash'[n] = WholeHash(hash', list, disc, n)
  BY EndDirMade
<1>3. /\ list \in Seq(Nodes) /\ IsSorted(list, Before) /\ Typed
      /\ dirs \in Seq(HashFrames) /\ dirs # <<>> /\ above \in Seq(HashFrames)
      /\ Dir = Last(dirs) /\ Dir.dir \in Dirs /\ Dir.dir \in Nodes
      /\ CallsSeen(above, Done) /\ CallsSoFar(above, hash, list, disc, blob, valid)
  BY <1>1, TopFacts
<1>4. Len(dirs) \in Nat \ {0} /\ Len(above) = Len(dirs) - 1 /\ above # <<>>
  <2>1. Len(dirs) \in Nat \ {0} /\ Len(above) = Len(dirs) - 1
    BY <1>3, StackFacts
  <2>2. Len(above) # 0
    BY <2>1
  <2> QED BY <1>3, <2>1, <2>2, EmptySeq
<1>5. f \in HashFrames /\ Waits(f) /\ Shows(f) /\ list[f.at] = Dir.dir
  <2>1. DirsOK(dirs) /\ Dir = Last(dirs)
    BY <1>1, <1>3, HashDirFacts DEF ScanInv
  <2>2. DirsOK(above) /\ f \in HashFrames /\ Waits(f)
    BY <1>3, <1>4, <2>1, DirsFront
  <2>3. Shows(f)
    BY <1>4, <2>2, DirsFront
  <2>4. list[f.at] = Dir.dir
    BY <1>1, <1>4, CallFacts DEF ScanInv
  <2> QED BY <2>2, <2>3, <2>4
<1>6. f.phase = "names" /\ ~ AtEnd(list, f.dir, f.at) /\ IsIn(list[f.at], f.dir) /\ f.dir \in Dirs
  BY <1>5 DEF Waits, Shows, HashFrames
<1>7. /\ CallsSoFar(under, hash, list, disc, blob, valid)
      /\ SoFar(f, hash, list, disc, blob) /\ ~ valid[f.dir]
      /\ \A i \in DOMAIN under : Depth[under[i].dir] < Depth[f.dir]
      /\ under \in Seq(HashFrames) /\ CallsSeen(under, Done)
  BY <1>3, <1>4, CallsSoFarFront, CallsFront, StackFacts DEF CallSoFar
<1>8. Depth[Dir.dir] = Depth[f.dir] + 1 /\ Depth[f.dir] \in Nat
  BY <1>3, <1>5, <1>6, ChildIsBelow
<1>9. blob'[f.dir] = AddName(blob[f.dir], hash, list[f.at])
  BY <1>1, <1>3, <1>5, <1>6 DEF AddName, Typed
<1>10. SoFar(g, hash, list, disc, blob')
  <2> HIDE DEF f
  <2> QED BY <1>3, <1>5, <1>6, <1>7, <1>9, NamesAdvance
<1>11. /\ g \in HashFrames /\ g.dir = f.dir /\ g.phase = "names" /\ f.at < g.at
       /\ f.at \in 1 .. Len(list) /\ GoesOn(f, g)
  <2> HIDE DEF f
  <2>1. /\ g \in HashFrames /\ g.dir = f.dir /\ g.phase = f.phase /\ GoesOn(f, g)
        /\ f.at \in 1 .. Len(list) /\ g.at \in f.at + 1 .. Len(list) + 1
    BY <1>3, <1>5, <1>6, AdvancedFacts, AdvancedGoesOn
  <2> HIDE DEF g
  <2> QED BY <1>6, <2>1
<1>12. ASSUME NEW i \in DOMAIN under
       PROVE  under[i].dir \in Dirs /\ under[i].dir \in Nodes /\ under[i].dir # f.dir
              /\ under[i].dir # Dir.dir
  <2>1. under[i] \in HashFrames
    BY <1>7, <1>12, LenProperties, ElementOfSeq
  <2>2. under[i].dir \in Dirs /\ under[i].dir \in Nodes /\ Depth[under[i].dir] \in Nat
    BY <2>1, TreeAssumption DEF HashFrames
  <2>3. Depth[under[i].dir] < Depth[f.dir]
    BY <1>7, <1>12
  <2>4. under[i].dir # f.dir
    BY <1>8, <2>3
  <2>5. under[i].dir # Dir.dir
    BY <1>8, <2>2, <2>3
  <2> QED BY <2>2, <2>4, <2>5
<1>13. f.dir # Dir.dir
  BY <1>8
<1> HIDE DEF f, g
<1>14. Untouched(under, hash, hash, blob, blob', valid, valid')
  BY <1>1, <1>2, <1>3, <1>12 DEF Untouched, Typed
<1>15. CallsSoFar(r, hash, list, disc, blob', valid')
  <2> DEFINE ds == under
             D == Done
  <2>1. /\ ds \in Seq(HashFrames) /\ CallsSeen(ds, D) /\ CallsSoFar(ds, hash, list, disc, blob, valid)
        /\ Agree(hash, hash, D) /\ Untouched(ds, hash, hash, blob, blob', valid, valid')
        /\ \A i \in DOMAIN ds : Depth[ds[i].dir] < Depth[g.dir]
    BY <1>7, <1>11, <1>14 DEF Agree
  <2>2. CallSoFar(g, hash, disc, blob', valid')
    <3>1. f.dir \in Nodes
      BY <1>6, TreeAssumption
    <3> QED BY <1>2, <1>7, <1>10, <1>11, <1>13, <3>1 DEF CallSoFar
  <2> HIDE DEF ds, D
  <2>3. CallsSoFar(ds, hash, list, disc, blob', valid')
    BY <1>3, <2>1, CallsSoFarKept
  <2>4. CallsSoFar(Append(ds, g), hash, list, disc, blob', valid')
    BY <1>11, <2>1, <2>2, <2>3, CallsSoFarPush
  <2> QED BY <2>4 DEF ds
<1>16. /\ r # <<>> /\ Len(r) \in DOMAIN r /\ r[Len(r)] = g
       /\ Continued(above, r, valid')
  <2>1. above # <<>> /\ above \in Seq(HashFrames) /\ f = Last(above)
    BY <1>3, <1>4 DEF f
  <2> DEFINE a == above
  <2>2. r = Append(Front(a), g) /\ a # <<>> /\ a \in Seq(HashFrames) /\ GoesOn(Last(a), g)
    BY <1>11, <2>1
  <2> HIDE DEF a, r
  <2>3. Continued(a, r, valid')
    BY <1>11, <2>2, TopContinued
  <2>4. /\ r # <<>> /\ Last(r) = g /\ r \in Seq(HashFrames)
    BY <1>11, <2>2, ReplaceTop
  <2>5. Len(r) \in DOMAIN r /\ r[Len(r)] = g
    <3>1. Len(r) \in Nat \ {0} /\ Last(r) = r[Len(r)] /\ DOMAIN r = 1 .. Len(r)
      BY <2>4, StackFacts, LenProperties
    <3> QED BY <2>4, <3>1
  <2> QED BY <2>3, <2>4, <2>5 DEF a
<1> HIDE DEF r
<1>17. Continued(dirs, r, valid')
  <2> SUFFICES ASSUME NEW i \in DOMAIN dirs
               PROVE  valid'[dirs[i].dir] \/ \E j \in DOMAIN r : GoesOn(dirs[i], r[j])
    BY DEF Continued
  <2>1. /\ DOMAIN dirs = 1 .. Len(dirs) /\ Last(dirs) = dirs[Len(dirs)]
        /\ DOMAIN above = 1 .. Len(dirs) - 1
        /\ \A j \in 1 .. Len(dirs) - 1 : above[j] = dirs[j]
    BY <1>3, <1>4, StackFacts, LenProperties
  <2>2. CASE i = Len(dirs)
    <3>1. dirs[i] = Dir
      BY <1>3, <2>1, <2>2
    <3> QED BY <1>2, <1>3, <3>1
  <2>3. CASE i # Len(dirs)
    <3>1. i \in DOMAIN above /\ above[i] = dirs[i]
      BY <1>4, <2>1, <2>3
    <3> QED BY <1>16, <3>1 DEF Continued
  <2> QED BY <2>2, <2>3
<1>18. \A d \in Dirs : valid'[d] => Reached(d, valid', r)
  <2> SUFFICES ASSUME NEW d \in Dirs, valid'[d] PROVE Reached(d, valid', r)
    OBVIOUS
  <2>0. d \in Nodes
    BY TreeAssumption
  <2>1. CASE d = Dir.dir
    <3>1. f.at \in DOMAIN list /\ list[f.at] = d
      BY <1>3, <1>5, <1>11, <2>1, LenProperties
    <3>2. HasPassed(r[Len(r)], f.at)
      BY <1>6, <1>11, <1>16, <3>1 DEF HasPassed
    <3> QED BY <1>16, <3>1, <3>2 DEF Reached
  <2>2. CASE valid[d]
    <3>1. Reached(d, valid, dirs)
      BY <2>2 DEF HashesInv
    <3>2. \A n \in Nodes : valid[n] => valid'[n]
      BY <1>2
    <3> QED BY <1>17, <3>1, <3>2, ReachedKept
  <2> QED BY <1>2, <2>0, <2>1, <2>2
<1>19. dirs' = r /\ dirs' # <<>>
  BY <1>1, <1>16
<1>20. Known(hash', disc', blob', valid', dirs')
  BY <1>1, <1>2, <1>15, <1>18, <1>19 DEF Known
<1> QED BY <1>1, <1>19, <1>20, KnownIs

\* Every step keeps the hashes right.
LEMMA HashesNext == HashingInv /\ [Next]_vars => HashesInv'
<1> SUFFICES ASSUME ScanInv, HashesInv, FillsOnce(stack, made), [Next]_vars PROVE HashesInv'
  BY DEF HashingInv
<1>1. Progress
  BY ProgressNext
<1>2. CASE \E n \in Nodes : Visit(n)
  BY <1>2, VisitHashes
<1>3. CASE HashSingleFile
  BY <1>1, <1>3, SingleFileHashes
<1>4. CASE HashTop \/ NoteFileName \/ Descend \/ HashNames \/ HashFile
  BY <1>4, HashTopHashes, NoteFileNameHashes, DescendHashes, HashNamesHashes, HashFileHashes
<1>5. CASE EndDir
  BY <1>5, LastEndDirHashes, EndDirHashes
<1>6. ASSUME UNCHANGED <<disk, walk, records, hashdir>>
      PROVE  HashesInv'
  BY <1>1, <1>6, HashesElsewhere
<1>7. ASSUME UNCHANGED <<disk, walk, hash, valid, unreadable, hashdir>>
      PROVE  HashesInv'
  <2>1. Known(hash', disc', blob', valid', dirs') /\ list' = list /\ valid' = valid /\ dirs' = dirs
    BY <1>7 DEF Known, HashesInv, disk, walk, hashdir
  <2>2. Filled("hashing") => Filled("hashing")'
    BY <1>1, FillersAre DEF Progress
  <2>3. (\E d \in Dirs : valid'[d]) => dirs' # <<>> \/ Filled("hashing")'
    BY <2>1, <2>2 DEF HashesInv
  <2> QED BY <2>1, <2>3, KnownIs
<1>8. CASE (\E t \in Tasks : Call(t)) \/ Return \/ NothingToHash \/ EndWalk \/ AbortWalk
           \/ OpenMagic \/ FillBasic \/ FillMedia \/ FillContent \/ AddToDb
           \/ ReadError \/ NoMagic \/ NoDiscInfo \/ NoFirstRecord
  BY <1>6, <1>8 DEF Call, Return, NothingToHash, EndWalk, AbortWalk, OpenMagic, FillBasic,
     FillMedia, FillContent, AddToDb, ReadError, NoMagic, NoDiscInfo, NoFirstRecord, Fail
<1>9. CASE FillMime
  BY <1>7, <1>9 DEF FillMime
<1>10. CASE UNCHANGED vars
  BY <1>6, <1>10 DEF vars
<1> QED BY <1>2, <1>3, <1>4, <1>5, <1>8, <1>9, <1>10 DEF Next

(* A record whose hash is marked valid has the hash that the tree gives    *)
(* it: names and hashes of the entries of a directory, then the contents   *)
(* of its files, all in the order of the list (hashing.cpp:60).            *)
THEOREM HashingInvariant == Spec => []HashingInv
<1>1. Init => HashingInv
  BY ScanInvInit, HashesInit DEF HashingInv
<1>2. HashingInv /\ [Next]_vars => HashingInv'
  BY ScanInvNext, HashesNext, FillsOnceKept DEF HashingInv
<1> QED BY <1>1, <1>2, PTL DEF Spec

-----------------------------------------------------------------------------
(* What a directory contains.                                              *)

\* The entries of a directory that are in the list.
ListedKids(n) == Children(n) \cap Listed

\* The equations of Contents and of Below.
ContentsOf(g, n) ==
  IF n \in Dirs THEN [dir |-> {<<Name[m], g[m]>> : m \in ListedKids(n)}]
  ELSE IF disc[n] = Failing THEN [unreadable |-> TRUE]
  ELSE [content |-> Content[n]]

BelowOf(g, n) == {n} \cup UNION {g[m] : m \in ListedKids(n)}

\* What is in a directory depends on what is in its entries only.
LEMMA OfKids ==
  ASSUME NEW n, NEW g, NEW g2, \A m \in ListedKids(n) : g2[m] = g[m]
  PROVE  ContentsOf(g2, n) = ContentsOf(g, n) /\ BelowOf(g2, n) = BelowOf(g, n)
<1>1. {<<Name[m], g2[m]>> : m \in ListedKids(n)} = {<<Name[m], g[m]>> : m \in ListedKids(n)}
  OBVIOUS
<1>2. {g2[m] : m \in ListedKids(n)} = {g[m] : m \in ListedKids(n)}
  OBVIOUS
<1> QED BY <1>1, <1>2 DEF ContentsOf, BelowOf

\* Nothing is listed deeper than M.
Deepest(M) == M \in Nat /\ \A m \in Listed : m \in Nodes /\ Depth[m] <= M

\* Some depth is reached by no listed entry.
LEMMA DeepestExistsInList ==
  ASSUME ShapeInv
  PROVE  \E M : Deepest(M)
<1>1. list \in Seq(Nodes) /\ IsSorted(list, Before)
  BY DEF ShapeInv, TypeOK, ListSorted
<1>2. /\ DOMAIN list = 1 .. Len(list) /\ Len(list) \in Nat
      /\ \A i \in 1 .. Len(list) : list[i] \in Nodes /\ Depth[list[i]] \in Nat
      /\ \A i, j \in 1 .. Len(list) : i <= j => Depth[list[i]] <= Depth[list[j]]
  BY <1>1, LevelsAscend
<1>3. CASE Len(list) = 0
  <2>1. Deepest(0)
    BY <1>2, <1>3 DEF Deepest, Listed, Range
  <2> QED BY <2>1
<1>4. CASE Len(list) # 0
  <2>1. Len(list) \in 1 .. Len(list) /\ \A i \in 1 .. Len(list) : i <= Len(list)
    BY <1>2, <1>4
  <2>2. Deepest(Depth[list[Len(list)]])
    BY <1>2, <2>1 DEF Deepest, Listed, Range
  <2> QED BY <2>2
<1> QED BY <1>3, <1>4

\* An entry of a directory is deeper than it.
LEMMA KidsDeeper ==
  ASSUME NEW M, Deepest(M), NEW n \in Nodes, NEW m \in ListedKids(n)
  PROVE  m \in Nodes /\ n \in Dirs /\ Depth[m] = Depth[n] + 1 /\ Depth[m] <= M /\ Depth[n] \in Nat
BY ChildIsBelow DEF ListedKids, Children, Deepest

\* The equations of Contents and of Below have solutions: from the deepest
\* entries upwards.
LEMMA ContentsExist ==
  ASSUME NEW M, Deepest(M)
  PROVE  \E g : g = [n \in Nodes |-> ContentsOf(g, n)]
<1> DEFINE S == {k \in Nat : \E g : \A n \in Nodes : Depth[n] + k > M => g[n] = ContentsOf(g, n)}
<1>0. M \in Nat /\ \A n \in Nodes : Depth[n] \in Nat
  BY TreeAssumption DEF Deepest
<1>1. 0 \in S
  <2> DEFINE none == [n \in {} |-> n]
             g == [n \in Nodes |-> ContentsOf(none, n)]
  <2>1. \A n \in Nodes : g[n] = ContentsOf(none, n)
    OBVIOUS
  <2> HIDE DEF g, none
  <2>2. ASSUME NEW n \in Nodes, Depth[n] + 0 > M
        PROVE  g[n] = ContentsOf(g, n)
    <3>1. ListedKids(n) = {}
      <4> SUFFICES ASSUME NEW m \in ListedKids(n) PROVE FALSE
        OBVIOUS
      <4>1. Depth[m] = Depth[n] + 1 /\ Depth[m] <= M /\ Depth[n] \in Nat
        BY KidsDeeper
      <4> QED BY <1>0, <2>2, <4>1
    <3> QED BY <2>1, <3>1, OfKids
  <2> QED BY <2>2
<1>2. ASSUME NEW k \in Nat, k \in S
      PROVE  k + 1 \in S
  <2>1. PICK g : \A n \in Nodes : Depth[n] + k > M => g[n] = ContentsOf(g, n)
    BY <1>2
  <2> DEFINE f == [n \in Nodes |-> IF Depth[n] + k > M THEN g[n] ELSE ContentsOf(g, n)]
  <2>2. \A n \in Nodes : f[n] = IF Depth[n] + k > M THEN g[n] ELSE ContentsOf(g, n)
    OBVIOUS
  <2> HIDE DEF f
  <2>3. ASSUME NEW n \in Nodes, Depth[n] + (k + 1) > M
        PROVE  f[n] = ContentsOf(f, n)
    <3>1. f[n] = ContentsOf(g, n)
      BY <2>1, <2>2
    <3>2. ASSUME NEW m \in ListedKids(n)
          PROVE  f[m] = g[m]
      <4>1. m \in Nodes /\ Depth[m] = Depth[n] + 1 /\ Depth[n] \in Nat
        BY KidsDeeper
      <4>2. Depth[m] + k > M
        BY <1>0, <2>3, <4>1
      <4> QED BY <2>2, <4>1, <4>2
    <3>3. ContentsOf(f, n) = ContentsOf(g, n)
      BY <3>2, OfKids
    <3> QED BY <3>1, <3>3
  <2> QED BY <2>3
<1> HIDE DEF S
<1>3. M + 1 \in S
  <2>1. M + 1 \in Nat
    BY <1>0
  <2> QED BY <1>1, <1>2, <2>1, Upwards
<1>4. PICK g : \A n \in Nodes : Depth[n] + (M + 1) > M => g[n] = ContentsOf(g, n)
  BY <1>3 DEF S
<1>5. \A n \in Nodes : g[n] = ContentsOf(g, n)
  BY <1>0, <1>4
<1> DEFINE f == [n \in Nodes |-> g[n]]
<1>6. \A n \in Nodes : f[n] = g[n]
  OBVIOUS
<1>7. \A n \in Nodes : ContentsOf(f, n) = ContentsOf(g, n)
  <2> SUFFICES ASSUME NEW n \in Nodes PROVE ContentsOf(f, n) = ContentsOf(g, n)
    OBVIOUS
  <2>1. \A m \in ListedKids(n) : f[m] = g[m]
    BY <1>6, KidsDeeper
  <2> HIDE DEF f
  <2> QED BY <2>1, OfKids
<1>8. f = [n \in Nodes |-> ContentsOf(f, n)]
  BY <1>5, <1>7
<1> QED BY <1>8

\* The same of what is below an entry.
LEMMA BelowExist ==
  ASSUME NEW M, Deepest(M)
  PROVE  \E g : g = [n \in Nodes |-> BelowOf(g, n)]
<1> DEFINE S == {k \in Nat : \E g : \A n \in Nodes : Depth[n] + k > M => g[n] = BelowOf(g, n)}
<1>0. M \in Nat /\ \A n \in Nodes : Depth[n] \in Nat
  BY TreeAssumption DEF Deepest
<1>1. 0 \in S
  <2> DEFINE none == [n \in {} |-> n]
             g == [n \in Nodes |-> BelowOf(none, n)]
  <2>1. \A n \in Nodes : g[n] = BelowOf(none, n)
    OBVIOUS
  <2> HIDE DEF g, none
  <2>2. ASSUME NEW n \in Nodes, Depth[n] + 0 > M
        PROVE  g[n] = BelowOf(g, n)
    <3>1. ListedKids(n) = {}
      <4> SUFFICES ASSUME NEW m \in ListedKids(n) PROVE FALSE
        OBVIOUS
      <4>1. Depth[m] = Depth[n] + 1 /\ Depth[m] <= M /\ Depth[n] \in Nat
        BY KidsDeeper
      <4> QED BY <1>0, <2>2, <4>1
    <3> QED BY <2>1, <3>1, OfKids
  <2> QED BY <2>2
<1>2. ASSUME NEW k \in Nat, k \in S
      PROVE  k + 1 \in S
  <2>1. PICK g : \A n \in Nodes : Depth[n] + k > M => g[n] = BelowOf(g, n)
    BY <1>2
  <2> DEFINE f == [n \in Nodes |-> IF Depth[n] + k > M THEN g[n] ELSE BelowOf(g, n)]
  <2>2. \A n \in Nodes : f[n] = IF Depth[n] + k > M THEN g[n] ELSE BelowOf(g, n)
    OBVIOUS
  <2> HIDE DEF f
  <2>3. ASSUME NEW n \in Nodes, Depth[n] + (k + 1) > M
        PROVE  f[n] = BelowOf(f, n)
    <3>1. f[n] = BelowOf(g, n)
      BY <2>1, <2>2
    <3>2. ASSUME NEW m \in ListedKids(n)
          PROVE  f[m] = g[m]
      <4>1. m \in Nodes /\ Depth[m] = Depth[n] + 1 /\ Depth[n] \in Nat
        BY KidsDeeper
      <4>2. Depth[m] + k > M
        BY <1>0, <2>3, <4>1
      <4> QED BY <2>2, <4>1, <4>2
    <3>3. BelowOf(f, n) = BelowOf(g, n)
      BY <3>2, OfKids
    <3> QED BY <3>1, <3>3
  <2> QED BY <2>3
<1> HIDE DEF S
<1>3. M + 1 \in S
  <2>1. M + 1 \in Nat
    BY <1>0
  <2> QED BY <1>1, <1>2, <2>1, Upwards
<1>4. PICK g : \A n \in Nodes : Depth[n] + (M + 1) > M => g[n] = BelowOf(g, n)
  BY <1>3 DEF S
<1>5. \A n \in Nodes : g[n] = BelowOf(g, n)
  BY <1>0, <1>4
<1> DEFINE f == [n \in Nodes |-> g[n]]
<1>6. \A n \in Nodes : f[n] = g[n]
  OBVIOUS
<1>7. \A n \in Nodes : BelowOf(f, n) = BelowOf(g, n)
  <2> SUFFICES ASSUME NEW n \in Nodes PROVE BelowOf(f, n) = BelowOf(g, n)
    OBVIOUS
  <2>1. \A m \in ListedKids(n) : f[m] = g[m]
    BY <1>6, KidsDeeper
  <2> HIDE DEF f
  <2> QED BY <2>1, OfKids
<1>8. f = [n \in Nodes |-> BelowOf(f, n)]
  BY <1>5, <1>7
<1> QED BY <1>8

\* The functions that solve its equations.
SolvesContents(w) == w = [n \in Nodes |-> ContentsOf(w, n)]

\* So Contents satisfies its equation.
LEMMA ContentsIs ==
  ASSUME ShapeInv
  PROVE  \A n \in Nodes : Contents[n] = ContentsOf(Contents, n)
<1> DEFINE c[n \in Nodes] ==
             IF n \in Dirs
               THEN [dir |-> {<<Name[m], c[m]>> : m \in Children(n) \cap Listed}]
             ELSE IF disc[n] = Failing THEN [unreadable |-> TRUE]
             ELSE [content |-> Content[n]]
<1>1. \E g : SolvesContents(g)
  BY DeepestExistsInList, ContentsExist DEF SolvesContents
<1>2. c = CHOOSE w : SolvesContents(w)
  BY DEF c, SolvesContents, ContentsOf, ListedKids
<1>3. Contents = c
  BY DEF Contents
<1> HIDE DEF c
<1>4. SolvesContents(c)
  BY <1>1, <1>2
<1>5. \A n \in Nodes : c[n] = ContentsOf(c, n)
  BY <1>4 DEF SolvesContents
<1> QED BY <1>3, <1>5

\* The functions that solve its equations.
SolvesBelow(w) == w = [n \in Nodes |-> BelowOf(w, n)]

\* And so does Below.
LEMMA BelowIs ==
  ASSUME ShapeInv
  PROVE  \A n \in Nodes : Below[n] = BelowOf(Below, n)
<1> DEFINE b[n \in Nodes] == {n} \cup UNION {b[m] : m \in Children(n) \cap Listed}
<1>1. \E g : SolvesBelow(g)
  BY DeepestExistsInList, BelowExist DEF SolvesBelow
<1>2. b = CHOOSE w : SolvesBelow(w)
  BY DEF b, SolvesBelow, BelowOf, ListedKids
<1>3. Below = b
  BY DEF Below
<1> HIDE DEF b
<1>4. SolvesBelow(b)
  BY <1>1, <1>2
<1>5. \A n \in Nodes : b[n] = BelowOf(b, n)
  BY <1>4 DEF SolvesBelow
<1> QED BY <1>3, <1>5

\* What has no garbage below it could be read, and so could its entries.
LEMMA NoGarbageBelow ==
  ASSUME ShapeInv, NEW n \in Nodes, NoGarbage(n)
  PROVE  /\ n \notin Dirs => disc[n] # Closed
         /\ \A m \in ListedKids(n) : NoGarbage(m)
<1>1. Below[n] = {n} \cup UNION {Below[m] : m \in ListedKids(n)}
  BY BelowIs DEF BelowOf
<1> QED BY <1>1 DEF NoGarbage

-----------------------------------------------------------------------------
(* Two walks that meet alike entries in one order make the same of them.   *)

\* R relates the positions A to the positions B, in their order.
InStep(A, B, R) ==
  /\ R \subseteq A \X B
  /\ \A i \in A : \E j \in B : <<i, j>> \in R
  /\ \A j \in B : \E i \in A : <<i, j>> \in R
  /\ \A i, i2 \in A, j, j2 \in B :
       <<i, j>> \in R /\ <<i2, j2>> \in R => (i < i2 <=> j < j2)

\* g does not change outside of A, n positions long.
OnlyAt(g, A, n) == \A p \in 1 .. n : p \notin A => g[p] = g[p - 1]

SameSteps(g1, g2, R) == \A x \in R : g1[x[1] - 1] = g2[x[2] - 1] => g1[x[1]] = g2[x[2]]

\* As much of A is up to p as is of B up to q.
Match(A, B, R, p, q) ==
  \A i \in A, j \in B : <<i, j>> \in R => (i <= p <=> j <= q)

\* Functions that change alike at positions in step end alike.
LEMMA InStepAgree ==
  ASSUME NEW n \in Nat, NEW A \in SUBSET (1 .. n), NEW B \in SUBSET (1 .. n), NEW R, InStep(A, B, R),
         NEW g1, NEW g2, g1[0] = g2[0], OnlyAt(g1, A, n), OnlyAt(g2, B, n), SameSteps(g1, g2, R)
  PROVE  g1[n] = g2[n]
<1> DEFINE S == {k \in Nat : \A p, q \in 0 .. n : p + q = k /\ Match(A, B, R, p, q) => g1[p] = g2[q]}
<1>1. 0 \in S
  <2> SUFFICES ASSUME NEW p \in 0 .. n, NEW q \in 0 .. n, p + q = 0 PROVE g1[p] = g2[q]
    OBVIOUS
  <2>1. p = 0 /\ q = 0
    OBVIOUS
  <2> QED BY <2>1
<1>2. ASSUME NEW k \in Nat, \A m \in 0 .. k : m \in S
      PROVE  k + 1 \in S
  <2> SUFFICES ASSUME NEW p \in 0 .. n, NEW q \in 0 .. n, p + q = k + 1, Match(A, B, R, p, q)
               PROVE  g1[p] = g2[q]
    OBVIOUS
  <2>1. CASE p > 0 /\ p \notin A
    <3>1. Match(A, B, R, p - 1, q)
      <4> SUFFICES ASSUME NEW i \in A, NEW j \in B, <<i, j>> \in R PROVE i <= p - 1 <=> j <= q
        BY DEF Match
      <4>1. i <= p <=> j <= q
        BY DEF Match
      <4>2. i # p /\ i \in 1 .. n
        BY <2>1
      <4> QED BY <4>1, <4>2
    <3>2. g1[p - 1] = g2[q]
      <4>1. p - 1 \in 0 .. n /\ (p - 1) + q = k /\ k \in 0 .. k
        BY <2>1
      <4> QED BY <1>2, <3>1, <4>1
    <3> QED BY <2>1, <3>2 DEF OnlyAt
  <2>2. CASE q > 0 /\ q \notin B
    <3>1. Match(A, B, R, p, q - 1)
      <4> SUFFICES ASSUME NEW i \in A, NEW j \in B, <<i, j>> \in R PROVE i <= p <=> j <= q - 1
        BY DEF Match
      <4>1. i <= p <=> j <= q
        BY DEF Match
      <4>2. j # q /\ j \in 1 .. n
        BY <2>2
      <4> QED BY <4>1, <4>2
    <3>2. g1[p] = g2[q - 1]
      <4>1. q - 1 \in 0 .. n /\ p + (q - 1) = k /\ k \in 0 .. k
        BY <2>2
      <4> QED BY <1>2, <3>1, <4>1
    <3> QED BY <2>2, <3>2 DEF OnlyAt
  <2>3. CASE (p = 0 \/ p \in A) /\ (q = 0 \/ q \in B)
    <3>1. p \in A => q \in B
      <4> SUFFICES ASSUME p \in A PROVE q \in B
        OBVIOUS
      <4>1. PICK j \in B : <<p, j>> \in R
        BY DEF InStep
      <4>2. j <= q
        BY <4>1 DEF Match
      <4>3. j \in 1 .. n
        OBVIOUS
      <4> QED BY <2>3, <4>2, <4>3
    <3>2. q \in B => p \in A
      <4> SUFFICES ASSUME q \in B PROVE p \in A
        OBVIOUS
      <4>1. PICK i \in A : <<i, q>> \in R
        BY DEF InStep
      <4>2. i <= p
        BY <4>1 DEF Match
      <4>3. i \in 1 .. n
        OBVIOUS
      <4> QED BY <2>3, <4>2, <4>3
    <3>3. p \in A /\ q \in B
      BY <2>3, <3>1, <3>2
    <3>4. <<p, q>> \in R
      <4>1. PICK j \in B : <<p, j>> \in R
        BY <3>3 DEF InStep
      <4>2. PICK i \in A : <<i, q>> \in R
        BY <3>3 DEF InStep
      <4>3. j <= q /\ i <= p
        BY <3>3, <4>1, <4>2 DEF Match
      <4>4. p < i <=> j < q
        BY <3>3, <4>1, <4>2 DEF InStep
      <4>5. j \in 1 .. n /\ i \in 1 .. n
        OBVIOUS
      <4>6. j = q
        BY <4>3, <4>4, <4>5
      <4> QED BY <4>1, <4>6
    <3>5. Match(A, B, R, p - 1, q - 1)
      <4> SUFFICES ASSUME NEW i \in A, NEW j \in B, <<i, j>> \in R PROVE i <= p - 1 <=> j <= q - 1
        BY DEF Match
      <4>1. i < p <=> j < q
        BY <3>3, <3>4 DEF InStep
      <4>2. i \in 1 .. n /\ j \in 1 .. n
        OBVIOUS
      <4> QED BY <4>1, <4>2
    <3>6. g1[p - 1] = g2[q - 1]
      <4>1. p \in 1 .. n /\ q \in 1 .. n
        BY <3>3
      <4>2. p - 1 \in 0 .. n /\ q - 1 \in 0 .. n /\ (p - 1) + (q - 1) = k - 1 /\ k - 1 \in 0 .. k
        BY <4>1
      <4>3. k - 1 \in S
        BY <1>2, <4>2
      <4> QED BY <3>5, <4>2, <4>3
    <3>7. <<p, q>>[1] = p /\ <<p, q>>[2] = q
      OBVIOUS
    <3> QED BY <3>4, <3>6, <3>7 DEF SameSteps
  <2> QED BY <2>1, <2>2, <2>3
<1> HIDE DEF S
<1> DEFINE T == {k \in Nat : \A m \in 0 .. k : m \in S}
<1>3. 0 \in T
  BY <1>1
<1>4. ASSUME NEW k \in Nat, k \in T
      PROVE  k + 1 \in T
  <2>1. k + 1 \in S
    BY <1>2, <1>4
  <2>2. \A m \in 0 .. k + 1 : m \in 0 .. k \/ m = k + 1
    OBVIOUS
  <2> QED BY <1>4, <2>1, <2>2
<1> HIDE DEF T
<1>5. n + n \in T
  <2>1. n + n \in Nat
    OBVIOUS
  <2> QED BY <1>3, <1>4, <2>1, Upwards
<1>6. n + n \in S
  BY <1>5 DEF T
<1>7. Match(A, B, R, n, n)
  BY DEF Match
<1> QED BY <1>6, <1>7 DEF S

-----------------------------------------------------------------------------
(* What contains the same is hashed alike.                                 *)

Alike(m, k) == Name[m] = Name[k] /\ Contents[m] = Contents[k]

\* Entries of the same contents are both directories or both files.
LEMMA SameKind ==
  ASSUME ShapeInv, NEW m \in Nodes, NEW k \in Nodes, Contents[m] = Contents[k]
  PROVE  /\ m \in Dirs <=> k \in Dirs
         /\ m \notin Dirs => (disc[m] = Failing <=> disc[k] = Failing)
         /\ m \notin Dirs /\ disc[m] # Failing => Content[m] = Content[k]
<1>1. ContentsOf(Contents, m) = ContentsOf(Contents, k)
  BY ContentsIs
<1>2. \A n \in Nodes : DOMAIN ContentsOf(Contents, n) =
        IF n \in Dirs THEN {"dir"} ELSE IF disc[n] = Failing THEN {"unreadable"} ELSE {"content"}
  BY DEF ContentsOf
<1>3. m \notin Dirs /\ disc[m] # Failing => ContentsOf(Contents, m).content = Content[m]
  BY DEF ContentsOf
<1>4. k \notin Dirs /\ disc[k] # Failing => ContentsOf(Contents, k).content = Content[k]
  BY DEF ContentsOf
<1>5. /\ m \in Dirs <=> k \in Dirs
      /\ m \notin Dirs => (disc[m] = Failing <=> disc[k] = Failing)
  BY <1>1, <1>2
<1> QED BY <1>1, <1>3, <1>4, <1>5

\* Directories of the same contents have entries alike.
LEMMA AlikeKids ==
  ASSUME ShapeInv, NEW d \in Dirs, NEW e \in Dirs, Contents[d] = Contents[e], NEW m \in ListedKids(d)
  PROVE  \E k \in ListedKids(e) : Alike(m, k)
<1>0. d \in Nodes /\ e \in Nodes
  BY TreeAssumption
<1> DEFINE D == {<<Name[n], Contents[n]>> : n \in ListedKids(d)}
           E == {<<Name[n], Contents[n]>> : n \in ListedKids(e)}
<1>1. Contents[d] = [dir |-> D] /\ Contents[e] = [dir |-> E]
  BY <1>0, ContentsIs DEF ContentsOf
<1>2. [dir |-> D].dir = D /\ [dir |-> E].dir = E
  OBVIOUS
<1>3. D = E
  <2> HIDE DEF D, E
  <2> QED BY <1>1, <1>2
<1>4. <<Name[m], Contents[m]>> \in E
  BY <1>3
<1>5. PICK k \in ListedKids(e) : <<Name[m], Contents[m]>> = <<Name[k], Contents[k]>>
  BY <1>4
<1> QED BY <1>5 DEF Alike

\* The order of entries is that of their names.
LEMMA BeforeStrict ==
  ASSUME NEW m \in Nodes, NEW k \in Nodes
  PROVE  ~ (Before(m, k) /\ Before(k, m))
<1>1. Depth[m] \in Nat /\ Depth[k] \in Nat /\ Rank[m] \in Nat /\ Rank[k] \in Nat
  BY TreeAssumption, OrderAssumption
<1> QED BY <1>1 DEF Before

\* Entries alike are in the same order.
LEMMA AlikeOrder ==
  ASSUME ShapeInv, NEW d, NEW e, NEW m \in ListedKids(d), NEW m2 \in ListedKids(d),
         NEW k \in ListedKids(e), NEW k2 \in ListedKids(e), Alike(m, k), Alike(m2, k2), Before(m, m2)
  PROVE  Before(k, k2)
<1>1. /\ m \in Nodes \ {Root} /\ m2 \in Nodes \ {Root} /\ k \in Nodes \ {Root} /\ k2 \in Nodes \ {Root}
      /\ Parent[m] = d /\ Parent[m2] = d /\ Parent[k] = e /\ Parent[k2] = e
  BY DEF ListedKids, Children, IsIn
<1>2. /\ Depth[m] = Depth[m2] /\ Depth[k] = Depth[k2]
      /\ Depth[m] \in Nat /\ Depth[k] \in Nat
  BY <1>1, TreeAssumption
<1>3. (m \in Dirs <=> k \in Dirs) /\ (m2 \in Dirs <=> k2 \in Dirs)
  BY <1>1, SameKind DEF Alike
<1>4. Rank[m] < Rank[m2] <=> Rank[k] < Rank[k2]
  BY <1>1, NameAssumption DEF Alike
<1> QED BY <1>2, <1>3, <1>4 DEF Before

\* Positions in the list are ordered as the entries are.
LEMMA SortedOrder ==
  ASSUME list \in Seq(Nodes), IsSorted(list, Before), NEW i \in 1 .. Len(list), NEW j \in 1 .. Len(list)
  PROVE  i < j <=> Before(list[i], list[j])
<1>0. Len(list) \in Nat /\ list[i] \in Nodes /\ list[j] \in Nodes
  BY LenProperties, ElementOfSeq
<1>1. i < j => Before(list[i], list[j])
  BY DEF IsSorted
<1>2. j < i => Before(list[j], list[i])
  BY DEF IsSorted
<1>3. i = j \/ i < j \/ j < i
  BY <1>0
<1> QED BY <1>0, <1>1, <1>2, <1>3, BeforeStrict

\* Where the entries of d are.
At(d) == {p \in 1 .. Len(list) : IsIn(list[p], d)}

Pairs(d, e) == {x \in At(d) \X At(e) : Alike(list[x[1]], list[x[2]])}

\* The positions of the entries are those of the list that hold one.
LEMMA AtKids ==
  ASSUME ShapeInv, NEW d
  PROVE  /\ \A p \in At(d) : p \in 1 .. Len(list) /\ list[p] \in ListedKids(d) /\ list[p] \in Nodes
         /\ \A m \in ListedKids(d) : \E p \in At(d) : list[p] = m
<1>1. list \in Seq(Nodes) /\ DOMAIN list = 1 .. Len(list) /\ \A p \in 1 .. Len(list) : list[p] \in Nodes
  BY LenProperties, ElementOfSeq DEF ShapeInv, TypeOK
<1> QED BY <1>1 DEF At, ListedKids, Children, Listed, Range

\* Entries alike of two directories of the same contents are in step.
LEMMA PairsInStep ==
  ASSUME ShapeInv, NEW d \in Dirs, NEW e \in Dirs, Contents[d] = Contents[e]
  PROVE  InStep(At(d), At(e), Pairs(d, e))
<1>0. list \in Seq(Nodes) /\ IsSorted(list, Before)
  BY DEF ShapeInv, TypeOK, ListSorted
<1>1. Pairs(d, e) \subseteq At(d) \X At(e)
  BY DEF Pairs
<1>2. \A i \in At(d), j \in At(e) : <<i, j>> \in Pairs(d, e) <=> Alike(list[i], list[j])
  BY DEF Pairs
<1>3. \A i \in At(d) : \E j \in At(e) : <<i, j>> \in Pairs(d, e)
  <2> SUFFICES ASSUME NEW i \in At(d) PROVE \E j \in At(e) : <<i, j>> \in Pairs(d, e)
    OBVIOUS
  <2>1. list[i] \in ListedKids(d)
    BY AtKids
  <2>2. PICK k \in ListedKids(e) : Alike(list[i], k)
    BY <2>1, AlikeKids
  <2>3. PICK j \in At(e) : list[j] = k
    BY AtKids
  <2> QED BY <1>2, <2>2, <2>3
<1>4. \A j \in At(e) : \E i \in At(d) : <<i, j>> \in Pairs(d, e)
  <2> SUFFICES ASSUME NEW j \in At(e) PROVE \E i \in At(d) : <<i, j>> \in Pairs(d, e)
    OBVIOUS
  <2>1. list[j] \in ListedKids(e)
    BY AtKids
  <2>2. PICK k \in ListedKids(d) : Alike(list[j], k)
    BY <2>1, AlikeKids
  <2>3. PICK i \in At(d) : list[i] = k
    BY AtKids
  <2>4. Alike(list[i], list[j])
    BY <2>2, <2>3 DEF Alike
  <2> QED BY <1>2, <2>4
<1>5. ASSUME NEW i \in At(d), NEW i2 \in At(d), NEW j \in At(e), NEW j2 \in At(e),
             <<i, j>> \in Pairs(d, e), <<i2, j2>> \in Pairs(d, e)
      PROVE  i < i2 <=> j < j2
  <2>1. /\ i \in 1 .. Len(list) /\ i2 \in 1 .. Len(list) /\ j \in 1 .. Len(list) /\ j2 \in 1 .. Len(list)
        /\ list[i] \in ListedKids(d) /\ list[i2] \in ListedKids(d) /\ list[j] \in ListedKids(e) /\ list[j2] \in ListedKids(e)
    BY AtKids
  <2>2. /\ Alike(list[i], list[j]) /\ Alike(list[i2], list[j2])
        /\ Alike(list[j], list[i]) /\ Alike(list[j2], list[i2])
    BY <1>2, <1>5 DEF Alike
  <2>3. (i < i2 <=> Before(list[i], list[i2])) /\ (j < j2 <=> Before(list[j], list[j2]))
    BY <1>0, <2>1, SortedOrder
  <2>4. Before(list[i], list[i2]) => Before(list[j], list[j2])
    BY <2>1, <2>2, AlikeOrder
  <2>5. Before(list[j], list[j2]) => Before(list[i], list[i2])
    BY <2>1, <2>2, AlikeOrder
  <2> QED BY <2>3, <2>4, <2>5
<1> QED BY <1>1, <1>3, <1>4, <1>5 DEF InStep

\* What alike entries add is the same.
HashedAlike(d, e) ==
  \A m \in ListedKids(d) \cap Dirs, k \in ListedKids(e) \cap Dirs : Contents[m] = Contents[k] => hash[m] = hash[k]

\* Entries alike add the same to the names and to the hash.
LEMMA SameAdded ==
  ASSUME ScanInv, NEW d \in Dirs, NEW e \in Dirs, NoGarbage(d), NoGarbage(e), HashedAlike(d, e),
         NEW m \in ListedKids(d), NEW k \in ListedKids(e), Alike(m, k), NEW s
  PROVE  /\ AddName(s, hash, m) = AddName(s, hash, k)
         /\ AddFile(s, disc, m) = AddFile(s, disc, k)
<1>0. ShapeInv /\ d \in Nodes /\ e \in Nodes
  BY TreeAssumption DEF ScanInv
<1>1. m \in Nodes /\ k \in Nodes /\ m \in Range(list) /\ k \in Range(list)
  BY DEF ListedKids, Children, Listed
<1>2. /\ m \in Dirs <=> k \in Dirs
      /\ m \notin Dirs => (disc[m] = Failing <=> disc[k] = Failing)
      /\ m \notin Dirs /\ disc[m] # Failing => Content[m] = Content[k]
  BY <1>0, <1>1, SameKind DEF Alike
<1>3. Letters(Name[m]) = Letters(Name[k])
  BY DEF Alike
<1>4. m \in Dirs => hash[m] = hash[k]
  BY <1>2 DEF HashedAlike, Alike
<1>5. AddName(s, hash, m) = AddName(s, hash, k)
  BY <1>2, <1>3, <1>4 DEF AddName
<1>6. ASSUME m \notin Dirs, disc[m] # Failing
      PROVE  Data(disc, m) = Data(disc, k)
  <2>1. NoGarbage(m) /\ NoGarbage(k)
    BY <1>0, NoGarbageBelow
  <2>2. disc[m] # Closed /\ disc[k] # Closed
    BY <1>0, <1>1, <1>2, <1>6, <2>1, NoGarbageBelow
  <2>3. disc[m] # Gone /\ disc[k] # Gone
    BY <1>1 DEF ScanInv, VisitedInv
  <2>4. disc[m] \in {Fine, Closed, Failing, Gone} /\ disc[k] \in {Fine, Closed, Failing, Gone}
    BY <1>0, <1>1, DiscAssumption DEF ShapeInv, TypeOK
  <2>5. disc[m] = Fine /\ disc[k] = Fine
    BY <1>2, <1>6, <2>2, <2>3, <2>4
  <2> QED BY <1>2, <1>6, <2>5 DEF Data
<1>7. AddFile(s, disc, m) = AddFile(s, disc, k)
  BY <1>2, <1>6 DEF AddFile
<1> QED BY <1>5, <1>7

\* So the directories have the same whole hash.
LEMMA DirsAlike ==
  ASSUME ScanInv, NEW d \in Dirs, NEW e \in Dirs, NoGarbage(d), NoGarbage(e), HashedAlike(d, e),
         Contents[d] = Contents[e]
  PROVE  WholeHash(hash, list, disc, d) = WholeHash(hash, list, disc, e)
<1> DEFINE n == Len(list)
           A == At(d)
           B == At(e)
           R == Pairs(d, e)
           nd == Noted(hash, list, d)
           ne == Noted(hash, list, e)
           md == Mixed(hash, list, disc, d)
           me == Mixed(hash, list, disc, e)
<1>0. ShapeInv /\ list \in Seq(Nodes) /\ n \in Nat
  BY LenProperties DEF ScanInv, ShapeInv, TypeOK
<1>1. A \in SUBSET (1 .. n) /\ B \in SUBSET (1 .. n)
  BY DEF At
<1>2. InStep(A, B, R)
  BY <1>0, PairsInStep
<1>3. /\ NotedUpTo(nd, hash, list, d, n) /\ NotedUpTo(ne, hash, list, e, n)
      /\ MixedUpTo(md, Tiger(nd[n]), list, disc, d, n)
      /\ MixedUpTo(me, Tiger(ne[n]), list, disc, e, n)
  BY <1>0, NotedIs, MixedIs
<1>4. WholeHash(hash, list, disc, d) = md[n] /\ WholeHash(hash, list, disc, e) = me[n]
  BY DEF WholeHash
<1>5. /\ \A p \in 1 .. n : IsIn(list[p], d) <=> p \in A
      /\ \A p \in 1 .. n : IsIn(list[p], e) <=> p \in B
  BY DEF At
<1>6. ASSUME NEW x \in R
      PROVE  /\ x[1] \in 1 .. n /\ x[2] \in 1 .. n /\ x[1] \in A /\ x[2] \in B
             /\ list[x[1]] \in ListedKids(d) /\ list[x[2]] \in ListedKids(e)
             /\ Alike(list[x[1]], list[x[2]])
  BY <1>0, <1>6, AtKids DEF Pairs
<1> HIDE DEF A, B, R, nd, ne, md, me, n
<1>7. /\ OnlyAt(nd, A, n) /\ OnlyAt(ne, B, n) /\ OnlyAt(md, A, n) /\ OnlyAt(me, B, n)
  BY <1>3, <1>5 DEF OnlyAt, NotedUpTo, MixedUpTo
<1>8. SameSteps(nd, ne, R)
  <2> SUFFICES ASSUME NEW x \in R, nd[x[1] - 1] = ne[x[2] - 1] PROVE nd[x[1]] = ne[x[2]]
    BY DEF SameSteps
  <2> DEFINE i == x[1]
             j == x[2]
  <2>1. /\ i \in 1 .. n /\ j \in 1 .. n /\ IsIn(list[i], d) /\ IsIn(list[j], e)
        /\ list[i] \in ListedKids(d) /\ list[j] \in ListedKids(e) /\ Alike(list[i], list[j])
        /\ nd[i - 1] = ne[j - 1]
    BY <1>5, <1>6
  <2> HIDE DEF i, j
  <2>2. nd[i] = AddName(nd[i - 1], hash, list[i]) /\ ne[j] = AddName(ne[j - 1], hash, list[j])
    BY <1>3, <2>1 DEF NotedUpTo
  <2> DEFINE s == nd[i - 1]
  <2>3. nd[i] = AddName(s, hash, list[i]) /\ ne[j] = AddName(s, hash, list[j])
    BY <2>1, <2>2
  <2> HIDE DEF s
  <2>4. AddName(s, hash, list[i]) = AddName(s, hash, list[j])
    BY <2>1, SameAdded
  <2> QED BY <2>3, <2>4 DEF i, j
<1>9. nd[n] = ne[n]
  <2>1. nd[0] = ne[0]
    BY <1>3 DEF NotedUpTo
  <2> QED BY <1>0, <1>1, <1>2, <1>7, <1>8, <2>1, InStepAgree
<1>10. SameSteps(md, me, R)
  <2> SUFFICES ASSUME NEW x \in R, md[x[1] - 1] = me[x[2] - 1] PROVE md[x[1]] = me[x[2]]
    BY DEF SameSteps
  <2> DEFINE i == x[1]
             j == x[2]
  <2>1. /\ i \in 1 .. n /\ j \in 1 .. n /\ IsIn(list[i], d) /\ IsIn(list[j], e)
        /\ list[i] \in ListedKids(d) /\ list[j] \in ListedKids(e) /\ Alike(list[i], list[j])
        /\ md[i - 1] = me[j - 1]
    BY <1>5, <1>6
  <2> HIDE DEF i, j
  <2>2. md[i] = AddFile(md[i - 1], disc, list[i]) /\ me[j] = AddFile(me[j - 1], disc, list[j])
    BY <1>3, <2>1 DEF MixedUpTo
  <2> DEFINE s == md[i - 1]
  <2>3. md[i] = AddFile(s, disc, list[i]) /\ me[j] = AddFile(s, disc, list[j])
    BY <2>1, <2>2
  <2> HIDE DEF s
  <2>4. AddFile(s, disc, list[i]) = AddFile(s, disc, list[j])
    BY <2>1, SameAdded
  <2> QED BY <2>3, <2>4 DEF i, j
<1>11. md[n] = me[n]
  <2>1. md[0] = me[0]
    BY <1>3, <1>9 DEF MixedUpTo
  <2> QED BY <1>0, <1>1, <1>2, <1>7, <1>10, <2>1, InStepAgree
<1> QED BY <1>4, <1>11

\* Files of the same contents have the same hash.
LEMMA FilesAlike ==
  ASSUME HashingInv, NEW m \in Hashed \ Dirs, NEW k \in Hashed \ Dirs, NoGarbage(m), NoGarbage(k),
         Contents[m] = Contents[k]
  PROVE  hash[m] = hash[k]
<1>0. ShapeInv /\ MarksInv /\ m \in Nodes /\ k \in Nodes /\ m \in Range(list) /\ k \in Range(list)
  <2>1. ShapeInv /\ MarksInv /\ list \in Seq(Nodes)
    BY DEF HashingInv, ScanInv, HashedInv, ShapeInv, TypeOK
  <2>2. \A p \in DOMAIN list : list[p] \in Nodes
    BY <2>1, LenProperties, ElementOfSeq
  <2> QED BY <2>1, <2>2 DEF Hashed, Listed, Range
<1>1. valid[m] /\ valid[k]
  BY DEF Hashed
<1>2. disc[m] # Failing /\ disc[k] # Failing
  BY <1>0, <1>1 DEF MarksInv
<1>3. disc[m] # Closed /\ disc[k] # Closed /\ disc[m] # Gone /\ disc[k] # Gone
  BY <1>0, NoGarbageBelow DEF HashingInv, ScanInv, VisitedInv
<1>4. disc[m] = Fine /\ disc[k] = Fine
  <2>1. disc[m] \in {Fine, Closed, Failing, Gone} /\ disc[k] \in {Fine, Closed, Failing, Gone}
    <3>1. disc \in [Nodes -> {Fine, Closed, Failing, Gone}]
      BY <1>0, DiscAssumption DEF ShapeInv, TypeOK
    <3> QED BY <1>0, <3>1
  <2> QED BY <1>2, <1>3, <2>1
<1>5. Content[m] = Content[k]
  BY <1>0, <1>2, SameKind
<1>6. /\ hash[m] = WholeHash(hash, list, disc, m) /\ hash[k] = WholeHash(hash, list, disc, k)
  BY <1>0, <1>1 DEF HashingInv, HashesInv
<1> QED BY <1>4, <1>5, <1>6 DEF WholeHash, Data

\* From the deepest entries upwards.
LEMMA ContentsGiveHashes == HashingInv => SameContentsSameHash
<1> SUFFICES ASSUME HashingInv PROVE SameContentsSameHash
  OBVIOUS
<1>0. ScanInv /\ ShapeInv /\ MarksInv /\ list \in Seq(Nodes)
  BY DEF HashingInv, ScanInv, ShapeInv, TypeOK, HashedInv
<1>1. PICK M : Deepest(M)
  BY <1>0, DeepestExistsInList
<1>2. M \in Nat /\ \A n \in Hashed : n \in Nodes /\ valid[n] /\ n \in Listed /\ Depth[n] <= M /\ Depth[n] \in Nat
  BY <1>1, TreeAssumption DEF Deepest, Hashed
<1> DEFINE S == {k \in Nat : \A d, e \in Hashed :
                   Depth[d] + k > M /\ NoGarbage(d) /\ NoGarbage(e) /\ Contents[d] = Contents[e]
                     => hash[d] = hash[e]}
<1>3. 0 \in S
  BY <1>2
<1>4. ASSUME NEW k \in Nat, k \in S
      PROVE  k + 1 \in S
  <2> SUFFICES ASSUME NEW d \in Hashed, NEW e \in Hashed, Depth[d] + (k + 1) > M,
                      NoGarbage(d), NoGarbage(e), Contents[d] = Contents[e]
               PROVE  hash[d] = hash[e]
    OBVIOUS
  <2>1. d \in Nodes /\ e \in Nodes /\ valid[d] /\ valid[e] /\ Depth[d] \in Nat
    BY <1>2
  <2>2. d \in Dirs <=> e \in Dirs
    BY <1>0, <2>1, SameKind
  <2>3. CASE d \notin Dirs
    BY <2>2, <2>3, FilesAlike
  <2>4. CASE d \in Dirs
    <3>1. e \in Dirs
      BY <2>2, <2>4
    <3>2. HashedAlike(d, e)
      <4> SUFFICES ASSUME NEW m \in ListedKids(d) \cap Dirs, NEW n \in ListedKids(e) \cap Dirs,
                          Contents[m] = Contents[n]
                   PROVE  hash[m] = hash[n]
        BY DEF HashedAlike
      <4>1. m \in Hashed /\ n \in Hashed
        <5>1. d \in Done /\ e \in Done
          BY <2>1 DEF Done
        <5>2. m \in Done /\ n \in Done
          BY <1>0, <2>4, <3>1, <5>1 DEF MarksInv, ListedKids, Listed
        <5>3. ~ unreadable[m] /\ ~ unreadable[n]
          BY <1>0, <5>2 DEF MarksInv, Done
        <5> QED BY <5>2, <5>3 DEF Done, Hashed, ListedKids
      <4>2. Depth[m] + k > M
        <5>1. Depth[m] = Depth[d] + 1
          BY <1>1, <2>1, KidsDeeper
        <5> QED BY <1>2, <2>1, <5>1
      <4>3. NoGarbage(m) /\ NoGarbage(n)
        BY <1>0, <2>1, NoGarbageBelow
      <4> QED BY <1>4, <4>1, <4>2, <4>3
    <3>3. WholeHash(hash, list, disc, d) = WholeHash(hash, list, disc, e)
      BY <1>0, <2>4, <3>1, <3>2, DirsAlike
    <3> QED BY <2>1, <3>3 DEF HashingInv, HashesInv
  <2> QED BY <2>3, <2>4
<1> HIDE DEF S
<1>5. M + 1 \in S
  <2>1. M + 1 \in Nat
    BY <1>2
  <2> QED BY <1>3, <1>4, <2>1, Upwards
<1> QED BY <1>2, <1>5 DEF S, SameContentsSameHash

(* Two directories with the same contents get the same hash, whatever the  *)
(* order entries were met in, wherever they are on the disc: "the same     *)
(* item" (README.md:64) is found by its hash (hashing.cpp:60).             *)
THEOREM SameContentsTheorem == Spec => []SameContentsSameHash
BY HashingInvariant, ContentsGiveHashes, PTL

-----------------------------------------------------------------------------
(* What a hash says about what was hashed, where names are equally long.   *)

\* Names are equally long.
EvenNames == \A m, n \in Nodes \ {Root} : Len(Name[m]) = Len(Name[n])

\* What blobs are made of: hashes and letters.
BlobItems == {x \in {hash[n] : n \in Nodes} : \E y : x = Tiger(y)}
               \cup {[letter |-> x] : x \in UNION {Range(Name[n]) : n \in Nodes \ {Root}}}

\* What files are made of.
DataItems == {[letter |-> x] : x \in UNION {Range(Content[n]) : n \in Nodes \ Dirs}}
               \cup {[garbage |-> n] : n \in Nodes}

\* A directory's hash, or none of a file that is no directory.
HashedIfDir(n) == n \in Dirs => \E x : hash[n] = Tiger(x)

\* A blob is empty or ends in the last letter of a name.
EndsInLetter(s) == s = <<>> \/ \E x : s[Len(s)] = [letter |-> x]

\* A letter is no hash, and a hash padded to a block is neither.
LEMMA LettersApart ==
  ASSUME NEW x, NEW y
  PROVE  [letter |-> x] # Tiger(y)
<1>1. DOMAIN [letter |-> x] = {"letter"} /\ DOMAIN [of |-> y] = {"of"}
  OBVIOUS
<1>2. "letter" # "of"
  OBVIOUS
<1> QED BY <1>1, <1>2 DEF Tiger

LEMMA BlocksApart ==
  ASSUME NEW s
  PROVE  Block(s) \notin BlobItems
<1>1. DOMAIN [padded |-> s] = {"padded"} /\ \A x : DOMAIN [letter |-> x] = {"letter"} /\ DOMAIN [of |-> x] = {"of"}
  OBVIOUS
<1>2. "padded" # "letter" /\ "padded" # "of"
  OBVIOUS
<1>3. \A x : Block(s) # Tiger(x)
  BY <1>1, <1>2 DEF Block, Tiger
<1>4. \A x : Block(s) # [letter |-> x]
  BY <1>1, <1>2 DEF Block
<1> QED BY <1>3, <1>4 DEF BlobItems

\* Equal hashes are hashes of the same.
LEMMA TigerTells ==
  ASSUME NEW x, NEW y, Tiger(x) = Tiger(y)
  PROVE  x = y
<1>1. [of |-> x].of = x /\ [of |-> y].of = y
  OBVIOUS
<1> QED BY <1>1 DEF Tiger

\* The letters of a text.
LEMMA TextLetters ==
  ASSUME NEW X, NEW w \in Seq(X), NEW Y, \A x \in X : [letter |-> x] \in Y
  PROVE  /\ Letters(w) \in Seq(Y) /\ Len(Letters(w)) = Len(w)
         /\ \A i \in 1 .. Len(w) : Letters(w)[i] = [letter |-> w[i]]
<1>1. Len(w) \in Nat /\ DOMAIN w = 1 .. Len(w) /\ \A i \in 1 .. Len(w) : w[i] \in X
  BY LenProperties, ElementOfSeq
<1>2. Letters(w) = [i \in 1 .. Len(w) |-> [letter |-> w[i]]]
  BY <1>1 DEF Letters
<1>3. Letters(w) \in [1 .. Len(w) -> Y]
  BY <1>1, <1>2
<1>4. Letters(w) \in Seq(Y)
  BY <1>1, <1>3, SeqDef
<1>5. Len(Letters(w)) = Len(w)
  <2> DEFINE k == Len(Letters(w))
             l == Len(w)
  <2>1. k \in Nat /\ l \in Nat /\ 1 .. k = 1 .. l
    <3>1. DOMAIN Letters(w) = 1 .. l
      BY <1>3
    <3> QED BY <1>1, <1>4, <3>1, LenProperties
  <2> HIDE DEF k, l
  <2>2. k <= l
    <3>1. CASE k = 0
      BY <2>1, <3>1
    <3>2. CASE k # 0
      <4>1. k \in 1 .. k
        BY <2>1, <3>2
      <4> QED BY <2>1, <4>1
    <3> QED BY <3>1, <3>2
  <2>3. l <= k
    <3>1. CASE l = 0
      BY <2>1, <3>1
    <3>2. CASE l # 0
      <4>1. l \in 1 .. l
        BY <2>1, <3>2
      <4> QED BY <2>1, <4>1
    <3> QED BY <3>1, <3>2
  <2>4. k = l
    BY <2>1, <2>2, <2>3
  <2> QED BY <2>4 DEF k, l
<1> QED BY <1>2, <1>4, <1>5

\* The letters of a name, which is not empty.
LEMMA LettersFacts ==
  ASSUME NEW n \in Nodes \ {Root}
  PROVE  /\ Len(Name[n]) \in Nat \ {0} /\ DOMAIN Name[n] = 1 .. Len(Name[n])
         /\ Letters(Name[n]) \in Seq(BlobItems) /\ Len(Letters(Name[n])) = Len(Name[n])
         /\ \A i \in 1 .. Len(Name[n]) : Letters(Name[n])[i] = [letter |-> Name[n][i]]
<1> DEFINE w == Name[n]
           X == Range(w)
           Y == BlobItems
<1>1. w \in Seq(X) /\ w # <<>>
  BY NameAssumption
<1>2. Len(w) \in Nat \ {0} /\ DOMAIN w = 1 .. Len(w)
  BY <1>1, LenProperties, EmptySeq
<1>3. \A x \in X : [letter |-> x] \in Y
  BY DEF BlobItems
<1> HIDE DEF X, Y, w
<1>4. /\ Letters(w) \in Seq(Y) /\ Len(Letters(w)) = Len(w)
      /\ \A i \in 1 .. Len(w) : Letters(w)[i] = [letter |-> w[i]]
  BY <1>1, <1>3, TextLetters
<1> QED BY <1>2, <1>4 DEF w, Y

\* They tell the text.
LEMMA LettersTell ==
  ASSUME NEW v, NEW w, v \in Seq(Range(v)), w \in Seq(Range(w)), Letters(v) = Letters(w)
  PROVE  v = w
<1> DEFINE X == Range(v) \cup Range(w)
           Y == {[letter |-> x] : x \in X}
<1>1. v \in Seq(X) /\ w \in Seq(X) /\ \A x \in X : [letter |-> x] \in Y
  BY SeqMonotonic
<1> HIDE DEF X, Y
<1>2. /\ Len(Letters(v)) = Len(v) /\ \A i \in 1 .. Len(v) : Letters(v)[i] = [letter |-> v[i]]
      /\ Len(Letters(w)) = Len(w) /\ \A i \in 1 .. Len(w) : Letters(w)[i] = [letter |-> w[i]]
  BY <1>1, TextLetters
<1>3. Len(v) = Len(w)
  BY <1>2
<1>4. ASSUME NEW i \in 1 .. Len(v)
      PROVE  v[i] = w[i]
  <2>1. [letter |-> v[i]] = [letter |-> w[i]]
    BY <1>2, <1>3
  <2>2. [letter |-> v[i]].letter = v[i] /\ [letter |-> w[i]].letter = w[i]
    OBVIOUS
  <2> QED BY <2>1, <2>2
<1> QED BY <1>1, <1>3, <1>4, SeqEqual

\* What is in a file is a sequence.
LEMMA DataSeq ==
  ASSUME NEW n \in Nodes \ Dirs
  PROVE  Data(disc, n) \in Seq(DataItems)
<1> DEFINE w == Content[n]
           X == Range(w)
           Y == DataItems
<1>1. w \in Seq(X)
  BY ContentAssumption
<1>2. /\ \A x \in X : [letter |-> x] \in Y
      /\ <<[garbage |-> n]>> \in Seq(Y)
  <2>1. [garbage |-> n] \in Y
    BY DEF DataItems
  <2>2. <<[garbage |-> n]>> \in Seq(Y)
    <3> HIDE DEF Y
    <3> QED BY <2>1
  <2> QED BY <2>2 DEF DataItems
<1> HIDE DEF X, Y, w
<1>3. Letters(w) \in Seq(Y)
  BY <1>1, <1>2, TextLetters
<1> QED BY <1>2, <1>3 DEF Data, w, Y

\* A hash that is followed by a file's contents can be told from them.
LEMMA BlockTells ==
  ASSUME NEW X, NEW a \in Seq(X), NEW b \in Seq(X), NEW s, NEW t,
         <<Block(s)>> \o a = <<Block(t)>> \o b
  PROVE  s = t /\ a = b
<1> DEFINE u == Block(s)
           v == Block(t)
           Y == X \cup {u, v}
<1>1. a \in Seq(Y) /\ b \in Seq(Y) /\ u \in Y /\ v \in Y
  BY SeqMonotonic
<1>2. <<u>> \o a = <<v>> \o b
  OBVIOUS
<1> HIDE DEF u, v, Y
<1>3. /\ <<u>> \in Seq(Y) /\ Len(<<u>>) = 1 /\ <<u>>[1] = u
      /\ <<v>> \in Seq(Y) /\ Len(<<v>>) = 1 /\ <<v>>[1] = v
  BY <1>1
<1>4. Len(a) \in Nat /\ Len(b) \in Nat
  BY <1>1, LenProperties
<1>5. /\ Len(<<u>> \o a) = 1 + Len(a) /\ Len(<<v>> \o b) = 1 + Len(b)
      /\ \A i \in 1 .. 1 + Len(a) : (<<u>> \o a)[i] = IF i <= 1 THEN <<u>>[i] ELSE a[i - 1]
      /\ \A i \in 1 .. 1 + Len(b) : (<<v>> \o b)[i] = IF i <= 1 THEN <<v>>[i] ELSE b[i - 1]
  BY <1>1, <1>3, ConcatProperties
<1>6. Len(a) = Len(b)
  BY <1>2, <1>4, <1>5
<1>7. u = v
  <2>1. 1 \in 1 .. 1 + Len(a) /\ 1 \in 1 .. 1 + Len(b) /\ 1 <= 1
    BY <1>4
  <2> QED BY <1>2, <1>3, <1>5, <2>1
<1>8. ASSUME NEW i \in 1 .. Len(a)
      PROVE  a[i] = b[i]
  <2> DEFINE j == i + 1
  <2>1. j \in 1 .. 1 + Len(a) /\ j \in 1 .. 1 + Len(b) /\ ~ j <= 1 /\ j - 1 = i
    BY <1>4, <1>6
  <2> HIDE DEF j
  <2> QED BY <1>2, <1>5, <2>1
<1>9. a = b
  BY <1>1, <1>6, <1>8, SeqEqual
<1>10. [padded |-> s].padded = s /\ [padded |-> t].padded = t
  OBVIOUS
<1>11. s = t
  BY <1>7, <1>10 DEF Block, u, v
<1> QED BY <1>9, <1>11

\* Of two texts that are equal, ends of one length are.
LEMMA ConcatTells ==
  ASSUME NEW X, NEW s \in Seq(X), NEW t \in Seq(X), NEW a \in Seq(X), NEW b \in Seq(X),
         Len(a) = Len(b), s \o a = t \o b
  PROVE  s = t /\ a = b
<1>1. Len(s) \in Nat /\ Len(t) \in Nat /\ Len(a) \in Nat
  BY LenProperties
<1>2. /\ Len(s \o a) = Len(s) + Len(a) /\ Len(t \o b) = Len(t) + Len(b)
      /\ \A i \in 1 .. Len(s) + Len(a) : (s \o a)[i] = IF i <= Len(s) THEN s[i] ELSE a[i - Len(s)]
      /\ \A i \in 1 .. Len(t) + Len(b) : (t \o b)[i] = IF i <= Len(t) THEN t[i] ELSE b[i - Len(t)]
  BY ConcatProperties
<1>3. Len(s) = Len(t)
  BY <1>1, <1>2
<1>4. \A i \in 1 .. Len(s) : s[i] = t[i]
  BY <1>1, <1>2, <1>3
<1>5. s = t
  BY <1>3, <1>4, SeqEqual
<1>6. a = b
  BY <1>5, ConcatSimplifications
<1> QED BY <1>5, <1>6

\* A name is added to the end, behind a hash or not.
LEMMA AddNameFacts ==
  ASSUME NEW s \in Seq(BlobItems), NEW n \in Nodes \ {Root}, HashedIfDir(n)
  PROVE  AddName(s, hash, n) \in Seq(BlobItems) \ {<<>>} /\ EndsInLetter(AddName(s, hash, n))
<1> DEFINE t == IF n \in Dirs THEN s \o <<hash[n]>> ELSE s
<1>1. n \in Dirs => <<hash[n]>> \in Seq(BlobItems)
  BY DEF BlobItems, HashedIfDir
<1>2. t \in Seq(BlobItems)
  BY <1>1, ConcatProperties
<1>3. AddName(s, hash, n) = t \o Letters(Name[n])
  BY DEF AddName
<1> HIDE DEF t
<1> DEFINE k == Len(Name[n])
<1>4. /\ Letters(Name[n]) \in Seq(BlobItems) /\ k \in Nat \ {0} /\ Len(Letters(Name[n])) = k
      /\ Letters(Name[n])[k] = [letter |-> Name[n][k]]
  BY LettersFacts
<1>5. Len(t) \in Nat
  BY <1>2, LenProperties
<1> HIDE DEF k
<1>6. /\ t \o Letters(Name[n]) \in Seq(BlobItems) /\ Len(t \o Letters(Name[n])) = Len(t) + k
      /\ \A i \in 1 .. Len(t) + k : (t \o Letters(Name[n]))[i] = IF i <= Len(t) THEN t[i] ELSE Letters(Name[n])[i - Len(t)]
  BY <1>2, <1>4, ConcatProperties
<1>7. (t \o Letters(Name[n]))[Len(t) + k] = [letter |-> Name[n][k]]
  <2>1. Len(t) + k \in 1 .. Len(t) + k /\ ~ Len(t) + k <= Len(t) /\ (Len(t) + k) - Len(t) = k
    BY <1>4, <1>5
  <2> QED BY <1>4, <1>6, <2>1
<1>8. t \o Letters(Name[n]) # <<>>
  BY <1>4, <1>5, <1>6, EmptySeq
<1> QED BY <1>3, <1>6, <1>7, <1>8 DEF EndsInLetter

\* What was added last can be told from what it was added to.
LEMMA NamesTell ==
  ASSUME EvenNames, NEW m \in Nodes \ {Root}, NEW k \in Nodes \ {Root},
         NEW s \in Seq(BlobItems), NEW t \in Seq(BlobItems), EndsInLetter(s), EndsInLetter(t),
         HashedIfDir(m), HashedIfDir(k),
         AddName(s, hash, m) = AddName(t, hash, k)
  PROVE  /\ s = t /\ Name[m] = Name[k] /\ (m \in Dirs <=> k \in Dirs)
         /\ m \in Dirs => hash[m] = hash[k]
<1> DEFINE s2 == IF m \in Dirs THEN s \o <<hash[m]>> ELSE s
           t2 == IF k \in Dirs THEN t \o <<hash[k]>> ELSE t
<1>1. /\ m \in Dirs => <<hash[m]>> \in Seq(BlobItems) /\ Len(<<hash[m]>>) = 1
      /\ k \in Dirs => <<hash[k]>> \in Seq(BlobItems) /\ Len(<<hash[k]>>) = 1
  BY DEF BlobItems, HashedIfDir
<1>2. s2 \in Seq(BlobItems) /\ t2 \in Seq(BlobItems)
  BY <1>1, ConcatProperties
<1>3. s2 \o Letters(Name[m]) = t2 \o Letters(Name[k])
  BY DEF AddName
<1> HIDE DEF s2, t2
<1>4. /\ Letters(Name[m]) \in Seq(BlobItems) /\ Letters(Name[k]) \in Seq(BlobItems)
      /\ Len(Letters(Name[m])) = Len(Letters(Name[k]))
  BY LettersFacts DEF EvenNames
<1>5. s2 = t2 /\ Letters(Name[m]) = Letters(Name[k])
  <2> DEFINE u == Letters(Name[m])
             v == Letters(Name[k])
             Y == BlobItems
             Joined(w, x, y, z) == w \o y = x \o z
  <2>1. /\ s2 \in Seq(Y) /\ t2 \in Seq(Y) /\ u \in Seq(Y) /\ v \in Seq(Y)
        /\ Len(u) = Len(v) /\ Joined(s2, t2, u, v)
    BY <1>2, <1>3, <1>4
  <2>2. \A w, x, y, z : Joined(w, x, y, z) /\ w \in Seq(Y) /\ x \in Seq(Y) /\ y \in Seq(Y)
                         /\ z \in Seq(Y) /\ Len(y) = Len(z) => w = x /\ y = z
    BY ConcatTells
  <2> HIDE DEF u, v, Y, Joined
  <2>3. s2 = t2 /\ u = v
    BY <2>1, <2>2
  <2> QED BY <2>3 DEF u, v
<1>6. Name[m] = Name[k]
  BY <1>5, LettersTell, NameAssumption
<1>7. CASE m \in Dirs /\ k \in Dirs
  <2>1. s \o <<hash[m]>> = t \o <<hash[k]>>
    BY <1>5, <1>7 DEF s2, t2
  <2>2. s = t /\ <<hash[m]>> = <<hash[k]>>
    BY <1>1, <1>7, <2>1, ConcatTells
  <2> QED BY <1>6, <1>7, <2>2
<1>8. CASE m \notin Dirs /\ k \notin Dirs
  BY <1>5, <1>6, <1>8 DEF s2, t2
<1>9. ASSUME NEW a \in Seq(BlobItems), NEW b \in Seq(BlobItems), NEW n \in Nodes,
             EndsInLetter(b), \E x : hash[n] = Tiger(x), a \o <<hash[n]>> = b
      PROVE  FALSE
  <2>1. <<hash[n]>> \in Seq(BlobItems) /\ Len(<<hash[n]>>) = 1 /\ <<hash[n]>>[1] = hash[n]
    BY <1>9 DEF BlobItems
  <2>2. Len(a) \in Nat
    BY LenProperties
  <2>3. /\ Len(b) = Len(a) + 1
        /\ \A i \in 1 .. Len(a) + 1 : b[i] = IF i <= Len(a) THEN a[i] ELSE <<hash[n]>>[i - Len(a)]
    BY <1>9, <2>1, ConcatProperties
  <2>4. b[Len(b)] = hash[n] /\ b # <<>>
    <3>1. Len(a) + 1 \in 1 .. Len(a) + 1 /\ ~ Len(a) + 1 <= Len(a) /\ (Len(a) + 1) - Len(a) = 1
      BY <2>2
    <3>2. b # <<>>
      BY <2>2, <2>3, EmptySeq
    <3> QED BY <2>1, <2>3, <3>1, <3>2
  <2> QED BY <1>9, <2>4, LettersApart DEF EndsInLetter
<1>10. CASE m \in Dirs /\ k \notin Dirs
  BY <1>5, <1>9, <1>10 DEF s2, t2, HashedIfDir
<1>11. CASE m \notin Dirs /\ k \in Dirs
  BY <1>5, <1>9, <1>11 DEF s2, t2, HashedIfDir
<1> QED BY <1>7, <1>8, <1>10, <1>11

\* The directories in d have been hashed.
DirsHashed(d) == \A m \in ListedKids(d) : HashedIfDir(m)

\* The names noted of a directory, as far as position p.
LEMMA NotedFacts ==
  ASSUME ShapeInv, NEW d, DirsHashed(d)
  PROVE  \A p \in 0 .. Len(list) :
           Noted(hash, list, d)[p] \in Seq(BlobItems) /\ EndsInLetter(Noted(hash, list, d)[p])
<1> DEFINE g == Noted(hash, list, d)
           S == {k \in Nat : k <= Len(list) => g[k] \in Seq(BlobItems) /\ EndsInLetter(g[k])}
<1>0. Len(list) \in Nat /\ \A p \in 1 .. Len(list) : list[p] \in Nodes
  BY LenProperties, ElementOfSeq DEF ShapeInv, TypeOK
<1>1. NotedUpTo(g, hash, list, d, Len(list))
  BY <1>0, NotedIs
<1> HIDE DEF g
<1>2. 0 \in S
  <2>1. <<>> \in Seq(BlobItems)
    BY EmptySeq
  <2> QED BY <1>1, <2>1 DEF NotedUpTo, EndsInLetter
<1>3. ASSUME NEW k \in Nat, k \in S
      PROVE  k + 1 \in S
  <2> SUFFICES ASSUME k + 1 <= Len(list) PROVE g[k + 1] \in Seq(BlobItems) /\ EndsInLetter(g[k + 1])
    OBVIOUS
  <2>1. k + 1 \in 1 .. Len(list) /\ (k + 1) - 1 = k /\ k <= Len(list)
    BY <1>0
  <2>2. g[k] \in Seq(BlobItems) /\ EndsInLetter(g[k])
    BY <1>3, <2>1
  <2> DEFINE q == k + 1
  <2>3. q \in 1 .. Len(list) /\ q - 1 = k
    BY <2>1
  <2> HIDE DEF q
  <2>4. g[q] = IF IsIn(list[q], d) THEN AddName(g[k], hash, list[q]) ELSE g[k]
    BY <1>1, <2>3 DEF NotedUpTo
  <2>5. IsIn(list[q], d) => list[q] \in Nodes \ {Root} /\ HashedIfDir(list[q])
    <3>1. IsIn(list[q], d) => list[q] \in ListedKids(d)
      BY <2>3, AtKids DEF At
    <3> QED BY <1>0, <2>3, <3>1 DEF IsIn, DirsHashed
  <2>6. g[q] \in Seq(BlobItems) /\ EndsInLetter(g[q])
    BY <2>2, <2>4, <2>5, AddNameFacts
  <2> QED BY <2>6 DEF q
<1> HIDE DEF S
<1>4. \A k \in Nat : k \in S
  BY <1>2, <1>3, Upwards
<1>5. ASSUME NEW p \in 0 .. Len(list) PROVE p \in Nat /\ p <= Len(list)
  BY <1>0
<1> QED BY <1>4, <1>5 DEF S, g

\* A directory's hash is one of its names, or of a hash and a file's contents.
IsHash(x) == \E y : x = Tiger(y)

LEMMA MixedForms ==
  ASSUME ShapeInv, NEW d
  PROVE  \A p \in 0 .. Len(list) : IsHash(Mixed(hash, list, disc, d)[p])
<1> DEFINE g == Mixed(hash, list, disc, d)
           first == Tiger(Noted(hash, list, d)[Len(list)])
           S == {k \in Nat : k <= Len(list) => IsHash(g[k])}
<1>0. Len(list) \in Nat
  BY LenProperties DEF ShapeInv, TypeOK
<1>1. MixedUpTo(g, first, list, disc, d, Len(list))
  BY <1>0, MixedIs
<1> HIDE DEF g, first
<1>2. 0 \in S
  BY <1>1 DEF MixedUpTo, IsHash, first
<1>3. ASSUME NEW k \in Nat, k \in S
      PROVE  k + 1 \in S
  <2> SUFFICES ASSUME k + 1 <= Len(list) PROVE IsHash(g[k + 1])
    OBVIOUS
  <2> DEFINE q == k + 1
  <2>1. q \in 1 .. Len(list) /\ q - 1 = k /\ k <= Len(list)
    BY <1>0
  <2>2. IsHash(g[k])
    BY <1>3, <2>1
  <2> HIDE DEF q
  <2>3. g[q] = IF IsIn(list[q], d) THEN AddFile(g[k], disc, list[q]) ELSE g[k]
    BY <1>1, <2>1 DEF MixedUpTo
  <2>4. IsHash(g[q])
    BY <2>2, <2>3 DEF AddFile, IsHash
  <2> QED BY <2>4 DEF q
<1> HIDE DEF S
<1>4. \A k \in Nat : k \in S
  BY <1>2, <1>3, Upwards
<1>5. ASSUME NEW p \in 0 .. Len(list) PROVE p \in Nat /\ p <= Len(list)
  BY <1>0
<1>6. \A p \in 0 .. Len(list) : IsHash(g[p])
  BY <1>4, <1>5 DEF S
<1> QED BY <1>6 DEF g

\* The hash of names is not one of a hash and contents.
LEMMA NamesApart ==
  ASSUME ShapeInv, NEW d, DirsHashed(d), NEW s, NEW X, NEW a \in Seq(X)
  PROVE  Tiger(Noted(hash, list, d)[Len(list)]) # Tiger(<<Block(s)>> \o a)
<1> DEFINE b == Noted(hash, list, d)[Len(list)]
           u == Block(s)
           Y == X \cup {u}
<1>0. Len(list) \in 0 .. Len(list)
  <2>1. Len(list) \in Nat
    BY LenProperties DEF ShapeInv, TypeOK
  <2> QED BY <2>1
<1>1. b \in Seq(BlobItems)
  BY <1>0, NotedFacts
<1>2. u \notin BlobItems
  BY BlocksApart
<1>3. a \in Seq(Y) /\ u \in Y
  BY SeqMonotonic
<1> HIDE DEF b, u, Y
<1>4. ASSUME b = <<u>> \o a
      PROVE  FALSE
  <2>1. <<u>> \in Seq(Y) /\ Len(<<u>>) = 1 /\ <<u>>[1] = u
    BY <1>3
  <2>2. Len(a) \in Nat
    BY <1>3, LenProperties
  <2>3. /\ Len(b) = 1 + Len(a)
        /\ \A i \in 1 .. 1 + Len(a) : b[i] = IF i <= 1 THEN <<u>>[i] ELSE a[i - 1]
    BY <1>3, <1>4, <2>1, ConcatProperties
  <2>4. 1 \in 1 .. 1 + Len(a) /\ 1 <= 1
    BY <2>2
  <2>5. b[1] = u /\ 1 \in 1 .. Len(b)
    BY <2>1, <2>3, <2>4
  <2>6. b[1] \in BlobItems
    BY <1>1, <2>5, ElementOfSeq
  <2> QED BY <1>2, <2>5, <2>6
<1>5. ASSUME Tiger(b) = Tiger(<<u>> \o a)
      PROVE  FALSE
  BY <1>4, <1>5, TigerTells
<1> QED BY <1>5 DEF b, u

\* Files in d can all be read.
FilesRead(d) == \A m \in ListedKids(d) \ Dirs : disc[m] # Failing

\* Position p adds a file's contents to the hash of d, or nothing.
MixesFile(g, d, p) ==
  IF p \in At(d) /\ list[p] \notin Dirs THEN g[p] = Tiger(<<Block(g[p - 1])>> \o Data(disc, list[p]))
  ELSE g[p] = g[p - 1]

\* What happens to a hash at each position.
LEMMA MixedSteps ==
  ASSUME ShapeInv, NEW d, FilesRead(d)
  PROVE  /\ Mixed(hash, list, disc, d)[0] = Tiger(Noted(hash, list, d)[Len(list)])
         /\ \A p \in 1 .. Len(list) : MixesFile(Mixed(hash, list, disc, d), d, p)
<1> DEFINE g == Mixed(hash, list, disc, d)
<1>0. Len(list) \in Nat
  BY LenProperties DEF ShapeInv, TypeOK
<1>1. MixedUpTo(g, Tiger(Noted(hash, list, d)[Len(list)]), list, disc, d, Len(list))
  BY <1>0, MixedIs
<1> HIDE DEF g
<1>2. ASSUME NEW p \in 1 .. Len(list)
      PROVE  MixesFile(g, d, p)
  <2>1. g[p] = IF IsIn(list[p], d) THEN AddFile(g[p - 1], disc, list[p]) ELSE g[p - 1]
    BY <1>1 DEF MixedUpTo
  <2>2. p \in At(d) <=> IsIn(list[p], d)
    BY DEF At
  <2>3. p \in At(d) => list[p] \in ListedKids(d)
    BY AtKids
  <2>4. p \in At(d) /\ list[p] \notin Dirs => disc[list[p]] # Failing
    BY <2>3 DEF FilesRead
  <2> QED BY <2>1, <2>2, <2>4 DEF MixesFile, AddFile
<1> QED BY <1>1, <1>2 DEF MixedUpTo, g

\* What an entry that is a file adds is a sequence.
LEMMA DataAt ==
  ASSUME ShapeInv, NEW d, NEW p \in At(d), list[p] \notin Dirs
  PROVE  Data(disc, list[p]) \in Seq(DataItems)
<1>1. list[p] \in Nodes \ Dirs
  BY AtKids DEF ListedKids, Children
<1> QED BY <1>1, DataSeq

\* Hashes that are equal began with the same names.
LEMMA SameNames ==
  ASSUME ShapeInv, NEW d, NEW e, FilesRead(d), FilesRead(e), DirsHashed(d), DirsHashed(e),
         Mixed(hash, list, disc, d)[Len(list)] = Mixed(hash, list, disc, e)[Len(list)]
  PROVE  Noted(hash, list, d)[Len(list)] = Noted(hash, list, e)[Len(list)]
<1> DEFINE n == Len(list)
           md == Mixed(hash, list, disc, d)
           me == Mixed(hash, list, disc, e)
           S == {k \in Nat : \A p, q \in 0 .. n : p + q <= k /\ md[p] = me[q] => md[0] = me[0]}
<1>0. n \in Nat
  BY LenProperties DEF ShapeInv, TypeOK
<1>1. /\ md[0] = Tiger(Noted(hash, list, d)[n]) /\ me[0] = Tiger(Noted(hash, list, e)[n])
      /\ \A p \in 1 .. n : MixesFile(md, d, p) /\ MixesFile(me, e, p)
  BY MixedSteps
<1>7. /\ \A p \in At(d) : list[p] \notin Dirs => Data(disc, list[p]) \in Seq(DataItems)
      /\ \A p \in At(e) : list[p] \notin Dirs => Data(disc, list[p]) \in Seq(DataItems)
  BY DataAt
<1>2. md[n] = me[n]
  OBVIOUS
<1> HIDE DEF n, md, me
<1>3. 0 \in S
  <2> SUFFICES ASSUME NEW p \in 0 .. n, NEW q \in 0 .. n, p + q <= 0, md[p] = me[q]
               PROVE  md[0] = me[0]
    OBVIOUS
  <2>1. p = 0 /\ q = 0
    BY <1>0
  <2> QED BY <2>1
<1>4. ASSUME NEW k \in Nat, k \in S
      PROVE  k + 1 \in S
  <2> SUFFICES ASSUME NEW p \in 0 .. n, NEW q \in 0 .. n, p + q <= k + 1, md[p] = me[q]
               PROVE  md[0] = me[0]
    OBVIOUS
  <2> DEFINE Adds(x, i) == i \in At(x) /\ list[i] \notin Dirs
  <2>0. /\ p > 0 => p \in 1 .. n /\ p - 1 \in 0 .. n
        /\ q > 0 => q \in 1 .. n /\ q - 1 \in 0 .. n
    BY <1>0
  <2>1. CASE p > 0 /\ ~ Adds(d, p)
    <3>1. md[p] = md[p - 1]
      BY <1>1, <2>0, <2>1 DEF MixesFile
    <3>2. (p - 1) + q <= k
      BY <1>0
    <3> QED BY <1>4, <2>0, <2>1, <3>1, <3>2
  <2>2. CASE q > 0 /\ ~ Adds(e, q)
    <3>1. me[q] = me[q - 1]
      BY <1>1, <2>0, <2>2 DEF MixesFile
    <3>2. p + (q - 1) <= k
      BY <1>0
    <3> QED BY <1>4, <2>0, <2>2, <3>1, <3>2
  <2>3. CASE p > 0 /\ q > 0 /\ Adds(d, p) /\ Adds(e, q)
    <3>1. /\ md[p] = Tiger(<<Block(md[p - 1])>> \o Data(disc, list[p]))
          /\ me[q] = Tiger(<<Block(me[q - 1])>> \o Data(disc, list[q]))
      BY <1>1, <2>0, <2>3 DEF MixesFile
    <3>2. <<Block(md[p - 1])>> \o Data(disc, list[p]) = <<Block(me[q - 1])>> \o Data(disc, list[q])
      BY <3>1, TigerTells
    <3>3. md[p - 1] = me[q - 1]
      BY <1>7, <2>3, <3>2, BlockTells
    <3>4. (p - 1) + (q - 1) <= k
      BY <1>0
    <3> QED BY <1>4, <2>0, <2>3, <3>3, <3>4
  <2>4. CASE p = 0 /\ q > 0 /\ Adds(e, q)
    <3>1. me[q] = Tiger(<<Block(me[q - 1])>> \o Data(disc, list[q]))
      BY <1>1, <2>0, <2>4 DEF MixesFile
    <3> QED BY <1>1, <1>7, <2>4, <3>1, NamesApart DEF n
  <2>5. CASE q = 0 /\ p > 0 /\ Adds(d, p)
    <3>1. md[p] = Tiger(<<Block(md[p - 1])>> \o Data(disc, list[p]))
      BY <1>1, <2>0, <2>5 DEF MixesFile
    <3> QED BY <1>1, <1>7, <2>5, <3>1, NamesApart DEF n
  <2>6. CASE p = 0 /\ q = 0
    BY <2>6
  <2>7. (p = 0 \/ p > 0) /\ (q = 0 \/ q > 0)
    BY <1>0
  <2> HIDE DEF Adds
  <2> QED BY <2>1, <2>2, <2>3, <2>4, <2>5, <2>6, <2>7
<1> HIDE DEF S
<1>5. n + n \in S
  <2>1. n + n \in Nat
    BY <1>0
  <2> QED BY <1>3, <1>4, <2>1, Upwards
<1>6. md[0] = me[0]
  <2>1. n \in 0 .. n /\ n + n <= n + n
    BY <1>0
  <2> QED BY <1>2, <1>5, <2>1 DEF S
<1> QED BY <1>1, <1>6, TigerTells DEF n

\* Entries that add the same.
AddAlike(m, k) ==
  /\ Name[m] = Name[k] /\ (m \in Dirs <=> k \in Dirs)
  /\ IF m \in Dirs THEN hash[m] = hash[k] ELSE Data(disc, m) = Data(disc, k)

\* Where blob and hash are equal, every entry of d has added what one of e has.
LEMMA SameEntries ==
  ASSUME ShapeInv, EvenNames, NEW d, NEW e, FilesRead(d), FilesRead(e), DirsHashed(d), DirsHashed(e),
         Mixed(hash, list, disc, d)[Len(list)] = Mixed(hash, list, disc, e)[Len(list)]
  PROVE  \A i \in At(d) : \E j \in At(e) : AddAlike(list[i], list[j])
<1> DEFINE n == Len(list)
           md == Mixed(hash, list, disc, d)
           me == Mixed(hash, list, disc, e)
           nd == Noted(hash, list, d)
           ne == Noted(hash, list, e)
           Told(p) == \A i \in At(d) : i <= p => \E j \in At(e) : AddAlike(list[i], list[j])
           S == {k \in Nat : \A p, q \in 0 .. n :
                   p + q <= k /\ md[p] = me[q] /\ nd[p] = ne[q] => Told(p)}
<1>0. n \in Nat /\ \A p \in 1 .. n : list[p] \in Nodes
  BY LenProperties, ElementOfSeq DEF ShapeInv, TypeOK
<1>1. \A p \in 1 .. n : MixesFile(md, d, p) /\ MixesFile(me, e, p)
  BY MixedSteps
<1>2. md[n] = me[n] /\ nd[n] = ne[n]
  BY SameNames
<1>3. NotedUpTo(nd, hash, list, d, n) /\ NotedUpTo(ne, hash, list, e, n)
  BY <1>0, NotedIs
<1>4. \A p \in 0 .. n : /\ nd[p] \in Seq(BlobItems) /\ EndsInLetter(nd[p])
                        /\ ne[p] \in Seq(BlobItems) /\ EndsInLetter(ne[p])
  BY NotedFacts
<1>5. At(d) \subseteq 1 .. n /\ At(e) \subseteq 1 .. n
  BY DEF At
<1> HIDE DEF n, md, me, nd, ne
<1>6. /\ \A p \in 1 .. n : nd[p] = IF p \in At(d) THEN AddName(nd[p - 1], hash, list[p]) ELSE nd[p - 1]
      /\ \A p \in 1 .. n : ne[p] = IF p \in At(e) THEN AddName(ne[p - 1], hash, list[p]) ELSE ne[p - 1]
      /\ nd[0] = <<>> /\ ne[0] = <<>>
  BY <1>3 DEF NotedUpTo, At, n
<1>7. /\ \A p \in At(d) : list[p] \in Nodes \ {Root} /\ HashedIfDir(list[p])
      /\ \A p \in At(e) : list[p] \in Nodes \ {Root} /\ HashedIfDir(list[p])
  <2>1. ASSUME NEW c, DirsHashed(c), NEW p \in At(c)
        PROVE  list[p] \in Nodes \ {Root} /\ HashedIfDir(list[p])
    <3>1. list[p] \in ListedKids(c)
      BY AtKids
    <3> QED BY <2>1, <3>1 DEF DirsHashed, ListedKids, Children, IsIn
  <2> QED BY <2>1
<1>8. 0 \in S
  <2> SUFFICES ASSUME NEW p \in 0 .. n, NEW q \in 0 .. n, p + q <= 0
               PROVE  Told(p)
    OBVIOUS
  <2>1. \A i \in At(d) : ~ i <= p
    BY <1>0, <1>5
  <2> QED BY <2>1
<1>9. ASSUME NEW k \in Nat, k \in S
      PROVE  k + 1 \in S
  <2> SUFFICES ASSUME NEW p \in 0 .. n, NEW q \in 0 .. n, p + q <= k + 1, md[p] = me[q], nd[p] = ne[q]
               PROVE  Told(p)
    OBVIOUS
  <2>0. /\ p > 0 => p \in 1 .. n /\ p - 1 \in 0 .. n
        /\ q > 0 => q \in 1 .. n /\ q - 1 \in 0 .. n
    BY <1>0
  <2>1. CASE p > 0 /\ p \notin At(d)
    <3>1. md[p] = md[p - 1] /\ nd[p] = nd[p - 1]
      BY <1>1, <1>6, <2>0, <2>1 DEF MixesFile
    <3>2. (p - 1) + q <= k
      BY <1>0
    <3>3. Told(p - 1)
      BY <1>9, <2>0, <2>1, <3>1, <3>2
    <3>4. \A i \in At(d) : i <= p => i <= p - 1
      BY <1>0, <1>5, <2>1
    <3> QED BY <3>3, <3>4
  <2>2. CASE q > 0 /\ q \notin At(e)
    <3>1. me[q] = me[q - 1] /\ ne[q] = ne[q - 1]
      BY <1>1, <1>6, <2>0, <2>2 DEF MixesFile
    <3>2. p + (q - 1) <= k
      BY <1>0
    <3> QED BY <1>9, <2>0, <2>2, <3>1, <3>2
  <2>3. CASE p = 0
    <3>1. \A i \in At(d) : ~ i <= p
      BY <1>0, <1>5, <2>3
    <3> QED BY <3>1
  <2>4. CASE p > 0 /\ p \in At(d) /\ q = 0
    <3>1. nd[p] = AddName(nd[p - 1], hash, list[p]) /\ nd[p - 1] \in Seq(BlobItems)
      BY <1>4, <1>6, <2>0, <2>4
    <3>2. nd[p] # <<>>
      BY <1>7, <2>4, <3>1, AddNameFacts
    <3> QED BY <1>6, <2>4, <3>2
  <2>5. CASE p > 0 /\ q > 0 /\ p \in At(d) /\ q \in At(e)
    <3>1. /\ nd[p] = AddName(nd[p - 1], hash, list[p]) /\ ne[q] = AddName(ne[q - 1], hash, list[q])
          /\ nd[p - 1] \in Seq(BlobItems) /\ EndsInLetter(nd[p - 1])
          /\ ne[q - 1] \in Seq(BlobItems) /\ EndsInLetter(ne[q - 1])
      BY <1>4, <1>6, <2>0, <2>5
    <3>2. /\ nd[p - 1] = ne[q - 1]
          /\ Name[list[p]] = Name[list[q]] /\ (list[p] \in Dirs <=> list[q] \in Dirs)
          /\ list[p] \in Dirs => hash[list[p]] = hash[list[q]]
      <4> DEFINE m == list[p]
                 l == list[q]
                 s == nd[p - 1]
                 t == ne[q - 1]
      <4>1. /\ m \in Nodes \ {Root} /\ l \in Nodes \ {Root}
            /\ HashedIfDir(m) /\ HashedIfDir(l)
            /\ AddName(s, hash, m) = AddName(t, hash, l)
            /\ s \in Seq(BlobItems) /\ EndsInLetter(s) /\ t \in Seq(BlobItems) /\ EndsInLetter(t)
        BY <1>7, <2>5, <3>1
      <4> HIDE DEF m, l, s, t
      <4>2. /\ s = t /\ Name[m] = Name[l] /\ (m \in Dirs <=> l \in Dirs)
            /\ m \in Dirs => hash[m] = hash[l]
        BY <4>1, NamesTell
      <4> QED BY <4>2 DEF m, l, s, t
    <3>3. md[p - 1] = me[q - 1] /\ (list[p] \notin Dirs => Data(disc, list[p]) = Data(disc, list[q]))
      <4>1. CASE list[p] \in Dirs
        <5>1. md[p] = md[p - 1] /\ me[q] = me[q - 1]
          BY <1>1, <2>0, <2>5, <3>2, <4>1 DEF MixesFile
        <5> QED BY <4>1, <5>1
      <4>2. CASE list[p] \notin Dirs
        <5>1. /\ md[p] = Tiger(<<Block(md[p - 1])>> \o Data(disc, list[p]))
              /\ me[q] = Tiger(<<Block(me[q - 1])>> \o Data(disc, list[q]))
          BY <1>1, <2>0, <2>5, <3>2, <4>2 DEF MixesFile
        <5>2. <<Block(md[p - 1])>> \o Data(disc, list[p]) = <<Block(me[q - 1])>> \o Data(disc, list[q])
          BY <5>1, TigerTells
        <5>3. Data(disc, list[p]) \in Seq(DataItems) /\ Data(disc, list[q]) \in Seq(DataItems)
          BY <2>5, <3>2, <4>2, DataAt
        <5> DEFINE a == Data(disc, list[p])
                   b == Data(disc, list[q])
                   u == md[p - 1]
                   v == me[q - 1]
        <5> HIDE DEF a, b, u, v
        <5>4. /\ a \in Seq(DataItems) /\ b \in Seq(DataItems)
              /\ <<Block(u)>> \o a = <<Block(v)>> \o b
          BY <5>2, <5>3 DEF a, b, u, v
        <5>5. u = v /\ a = b
          BY <5>4, BlockTells
        <5> QED BY <5>5 DEF a, b, u, v
      <4> QED BY <4>1, <4>2
    <3>4. AddAlike(list[p], list[q])
      BY <3>2, <3>3 DEF AddAlike
    <3>5. (p - 1) + (q - 1) <= k
      BY <1>0
    <3>6. Told(p - 1)
      BY <1>9, <2>0, <2>5, <3>2, <3>3, <3>5
    <3>7. \A i \in At(d) : i <= p => i <= p - 1 \/ i = p
      BY <1>0, <1>5
    <3> QED BY <2>5, <3>4, <3>6, <3>7
  <2>6. (p = 0 \/ p > 0) /\ (q = 0 \/ q > 0)
    BY <1>0
  <2> HIDE DEF Told
  <2> QED BY <2>1, <2>2, <2>3, <2>4, <2>5, <2>6
<1> HIDE DEF S
<1>10. n + n \in S
  <2>1. n + n \in Nat
    BY <1>0
  <2> QED BY <1>8, <1>9, <2>1, Upwards
<1>11. Told(n)
  <2>1. n \in 0 .. n /\ n + n <= n + n
    BY <1>0
  <2> QED BY <1>2, <1>10, <2>1 DEF S
<1>12. \A i \in At(d) : i <= n
  BY <1>0, <1>5
<1> QED BY <1>11, <1>12

-----------------------------------------------------------------------------
(* Where all could be read, the hash tells the contents.                   *)

\* What could all be read is fine, and its entries could all be read.
LEMMA AllReadBelow ==
  ASSUME ScanInv, NEW n \in Listed, AllRead(n)
  PROVE  /\ n \in Nodes /\ (n \notin Dirs => disc[n] = Fine)
         /\ \A m \in ListedKids(n) : m \in Listed /\ AllRead(m)
<1>0. ShapeInv /\ n \in Nodes /\ disc \in [Nodes -> {Fine, Closed, Failing, Gone}]
  <2>1. ShapeInv /\ disc \in Discs /\ list \in Seq(Nodes)
    BY DEF ScanInv, ShapeInv, TypeOK
  <2>2. \A p \in DOMAIN list : list[p] \in Nodes
    BY <2>1, LenProperties, ElementOfSeq
  <2> QED BY <2>1, <2>2, DiscAssumption DEF Listed, Range
<1>1. Below[n] = {n} \cup UNION {Below[m] : m \in ListedKids(n)}
  BY <1>0, BelowIs DEF BelowOf
<1>2. n \notin Dirs => disc[n] # Closed /\ disc[n] # Failing
  BY <1>1 DEF AllRead, NoGarbage
<1>3. disc[n] # Gone
  BY DEF ScanInv, VisitedInv, Listed
<1>4. disc[n] \in {Fine, Closed, Failing, Gone}
  BY <1>0
<1>5. \A m \in ListedKids(n) : m \in Listed /\ AllRead(m)
  BY <1>1 DEF AllRead, NoGarbage, ListedKids
<1> QED BY <1>0, <1>2, <1>3, <1>4, <1>5

\* A file that was read to its end contains what it was found to.
LEMMA FileContents ==
  ASSUME ScanInv, NEW m \in Listed \ Dirs, NEW k \in Listed \ Dirs, AllRead(m), AllRead(k),
         Data(disc, m) = Data(disc, k)
  PROVE  Contents[m] = Contents[k]
<1>1. m \in Nodes /\ k \in Nodes /\ disc[m] = Fine /\ disc[k] = Fine
  BY AllReadBelow
<1>2. Content[m] = Content[k]
  <2>1. Letters(Content[m]) = Letters(Content[k])
    BY <1>1 DEF Data
  <2> QED BY <1>1, <2>1, ContentAssumption, LettersTell
<1>3. disc[m] # Failing /\ disc[k] # Failing
  BY <1>1 DEF Fine, Failing
<1>4. ContentsOf(Contents, m) = ContentsOf(Contents, k)
  BY <1>2, <1>3 DEF ContentsOf
<1> QED BY <1>1, <1>4, ContentsIs DEF ScanInv

\* A directory that is hashed has the hash of what is in it, and so have the
\* directories in it.
LEMMA HashedDir ==
  ASSUME HashingInv, NEW d \in Hashed \cap Dirs
  PROVE  /\ hash[d] = Mixed(hash, list, disc, d)[Len(list)]
         /\ ListedKids(d) \cap Dirs \subseteq Hashed
         /\ DirsHashed(d)
<1>0. ShapeInv /\ MarksInv /\ Len(list) \in 0 .. Len(list)
  <2>1. ShapeInv /\ MarksInv /\ list \in Seq(Nodes)
    BY DEF HashingInv, ScanInv, ShapeInv, TypeOK, HashedInv
  <2>2. Len(list) \in Nat
    BY <2>1, LenProperties
  <2> QED BY <2>1, <2>2
<1>1. ASSUME NEW e \in Hashed \cap Dirs
      PROVE  hash[e] = Mixed(hash, list, disc, e)[Len(list)] /\ IsHash(hash[e])
  <2>1. e \in Nodes /\ valid[e]
    BY TreeAssumption DEF Hashed
  <2>2. hash[e] = Mixed(hash, list, disc, e)[Len(list)]
    BY <2>1 DEF HashingInv, HashesInv, WholeHash
  <2>3. IsHash(Mixed(hash, list, disc, e)[Len(list)])
    BY <1>0, MixedForms
  <2> QED BY <2>2, <2>3
<1>2. ASSUME NEW m \in ListedKids(d) \cap Dirs
      PROVE  m \in Hashed
  <2>1. d \in Done
    BY TreeAssumption DEF Done, Hashed
  <2>2. m \in Done
    BY <1>0, <2>1 DEF MarksInv, ListedKids, Listed
  <2>3. ~ unreadable[m]
    BY <1>0, <2>2 DEF MarksInv, Done
  <2> QED BY <2>2, <2>3 DEF Done, Hashed, ListedKids
<1>3. DirsHashed(d)
  <2> SUFFICES ASSUME NEW m \in ListedKids(d) \cap Dirs PROVE IsHash(hash[m])
    BY DEF DirsHashed, HashedIfDir, IsHash
  <2> QED BY <1>1, <1>2
<1> QED BY <1>1, <1>2, <1>3

\* Directories of d whose hash one of e has contain the same.
HashesTell(d, e) ==
  \A m \in ListedKids(d) \cap Dirs, k \in ListedKids(e) \cap Dirs : hash[m] = hash[k] => Contents[m] = Contents[k]

\* Then what is in d, by name and contents, is in e.
LEMMA KidsTold ==
  ASSUME HashingInv, EvenNames, NEW d \in Hashed \cap Dirs, NEW e \in Hashed \cap Dirs,
         AllRead(d), AllRead(e), hash[d] = hash[e], HashesTell(d, e), NEW m \in ListedKids(d)
  PROVE  \E k \in ListedKids(e) : Name[m] = Name[k] /\ Contents[m] = Contents[k]
<1>0. ScanInv /\ ShapeInv /\ d \in Listed /\ e \in Listed
  BY DEF HashingInv, ScanInv, Hashed
<1>1. /\ \A k \in ListedKids(d) : k \in Listed /\ AllRead(k)
      /\ \A k \in ListedKids(e) : k \in Listed /\ AllRead(k)
  BY <1>0, AllReadBelow
<1>2. FilesRead(d) /\ FilesRead(e)
  <2>1. \A k \in Listed : AllRead(k) /\ k \notin Dirs => disc[k] # Failing
    BY <1>0, AllReadBelow DEF Fine, Failing
  <2> QED BY <1>1, <2>1 DEF FilesRead
<1>3. Mixed(hash, list, disc, d)[Len(list)] = Mixed(hash, list, disc, e)[Len(list)]
  BY HashedDir
<1>4. DirsHashed(d) /\ DirsHashed(e)
  BY HashedDir
<1>5. \A i \in At(d) : \E j \in At(e) : AddAlike(list[i], list[j])
  BY <1>0, <1>2, <1>3, <1>4, SameEntries
<1>6. PICK i \in At(d) : list[i] = m
  BY <1>0, AtKids
<1>7. PICK j \in At(e) : AddAlike(list[i], list[j])
  BY <1>5
<1> DEFINE k == list[j]
<1>8. k \in ListedKids(e) /\ AddAlike(m, k)
  BY <1>0, <1>6, <1>7, AtKids
<1> HIDE DEF k
<1>9. CASE m \in Dirs
  <2>1. k \in Dirs /\ hash[m] = hash[k] /\ Name[m] = Name[k]
    BY <1>8, <1>9 DEF AddAlike
  <2> QED BY <1>8, <1>9, <2>1 DEF HashesTell
<1>10. CASE m \notin Dirs
  <2>1. k \notin Dirs /\ Data(disc, m) = Data(disc, k) /\ Name[m] = Name[k]
    BY <1>8, <1>10 DEF AddAlike
  <2>2. Contents[m] = Contents[k]
    BY <1>0, <1>1, <1>8, <1>10, <2>1, FileContents
  <2> QED BY <1>8, <2>1, <2>2
<1> QED BY <1>9, <1>10

\* From the deepest entries upwards.
LEMMA HashesGiveContents == HashingInv => SameHashSameContentsOfEvenNames
<1> SUFFICES ASSUME HashingInv, EvenNames,
                    NEW d0 \in Hashed, NEW e0 \in Hashed, d0 \in Dirs <=> e0 \in Dirs,
                    AllRead(d0), AllRead(e0), hash[d0] = hash[e0]
             PROVE  Contents[d0] = Contents[e0]
  BY DEF SameHashSameContentsOfEvenNames, EvenNames
<1>0. ScanInv /\ ShapeInv /\ list \in Seq(Nodes)
  BY DEF HashingInv, ScanInv, ShapeInv, TypeOK
<1>1. PICK M : Deepest(M)
  BY <1>0, DeepestExistsInList
<1>2. M \in Nat /\ \A n \in Hashed : n \in Nodes /\ valid[n] /\ n \in Listed /\ Depth[n] <= M /\ Depth[n] \in Nat
  BY <1>1, TreeAssumption DEF Deepest, Hashed
<1> DEFINE S == {k \in Nat : \A d, e \in Hashed :
                   /\ Depth[d] + k > M /\ (d \in Dirs <=> e \in Dirs)
                   /\ AllRead(d) /\ AllRead(e) /\ hash[d] = hash[e]
                   => Contents[d] = Contents[e]}
<1>3. 0 \in S
  BY <1>2
<1>4. ASSUME NEW k \in Nat, k \in S
      PROVE  k + 1 \in S
  <2> SUFFICES ASSUME NEW d \in Hashed, NEW e \in Hashed, Depth[d] + (k + 1) > M,
                      d \in Dirs <=> e \in Dirs, AllRead(d), AllRead(e), hash[d] = hash[e]
               PROVE  Contents[d] = Contents[e]
    OBVIOUS
  <2>0. \A m, n \in Hashed : /\ Depth[m] + k > M /\ (m \in Dirs <=> n \in Dirs)
                            /\ AllRead(m) /\ AllRead(n) /\ hash[m] = hash[n]
                            => Contents[m] = Contents[n]
    BY <1>4
  <2>1. d \in Nodes /\ e \in Nodes /\ valid[d] /\ valid[e] /\ Depth[d] \in Nat /\ d \in Listed /\ e \in Listed
    BY <1>2
  <2> HIDE DEF S
  <2>2. d \in Dirs <=> e \in Dirs
    OBVIOUS
  <2>3. CASE d \notin Dirs
    <3>1. hash[d] = Tiger(Data(disc, d)) /\ hash[e] = Tiger(Data(disc, e))
      BY <2>1, <2>2, <2>3 DEF HashingInv, HashesInv, WholeHash
    <3>3. Data(disc, d) = Data(disc, e)
      BY <3>1, TigerTells
    <3> QED BY <1>0, <2>1, <2>2, <2>3, <3>3, FileContents
  <2>4. CASE d \in Dirs
    <3>1. d \in Hashed \cap Dirs /\ e \in Hashed \cap Dirs
      BY <2>2, <2>4
    <3>2. /\ \A m \in ListedKids(d) : AllRead(m)
          /\ \A m \in ListedKids(e) : AllRead(m)
      BY <1>0, <2>1, AllReadBelow
    <3>3. \A m \in ListedKids(d) : Depth[m] + k > M
      <4> SUFFICES ASSUME NEW m \in ListedKids(d) PROVE Depth[m] + k > M
        OBVIOUS
      <4>1. Depth[m] = Depth[d] + 1
        BY <1>1, <2>1, KidsDeeper
      <4> QED BY <1>2, <2>1, <4>1
    <3>4. ListedKids(d) \cap Dirs \subseteq Hashed /\ ListedKids(e) \cap Dirs \subseteq Hashed
      BY <3>1, HashedDir
    <3>5. HashesTell(d, e) /\ HashesTell(e, d)
      BY <2>0, <3>2, <3>3, <3>4 DEF HashesTell
    <3> DEFINE D == {<<Name[n], Contents[n]>> : n \in ListedKids(d)}
               E == {<<Name[n], Contents[n]>> : n \in ListedKids(e)}
    <3>6. D = E
      <4>1. \A m \in ListedKids(d) : \E n \in ListedKids(e) : Name[m] = Name[n] /\ Contents[m] = Contents[n]
        BY <3>1, <3>5, KidsTold
      <4>2. \A m \in ListedKids(e) : \E n \in ListedKids(d) : Name[m] = Name[n] /\ Contents[m] = Contents[n]
        BY <3>1, <3>5, KidsTold
      <4>3. D \subseteq E
        BY <4>1
      <4>4. E \subseteq D
        BY <4>2
      <4> QED BY <4>3, <4>4
    <3>7. Contents[d] = [dir |-> D] /\ Contents[e] = [dir |-> E]
      BY <1>0, <2>1, <3>1, ContentsIs DEF ContentsOf
    <3> HIDE DEF D, E
    <3> QED BY <3>6, <3>7
  <2> QED BY <2>3, <2>4
<1> HIDE DEF S
<1>5. M + 1 \in S
  <2>1. M + 1 \in Nat
    BY <1>2
  <2> QED BY <1>3, <1>4, <2>1, Upwards
<1> QED BY <1>2, <1>5 DEF S

(* Where names are equally long and everything could be read, two files or *)
(* two directories with one hash are the same item: add_to_db does not     *)
(* write what it finds the hash of (scan/main.cpp:125).  Names follow each *)
(* other in the blob without a separator (hashing.cpp:82): of equal        *)
(* lengths, they can be told from the end of it, where a name is preceded  *)
(* by a hash or not.  Which is the blob's hash can be told from the files  *)
(* mixed into it: a blob does not begin with a padded hash.                *)
THEOREM SameHashTheorem == Spec => []SameHashSameContentsOfEvenNames
BY HashingInvariant, HashesGiveContents, PTL
=============================================================================
