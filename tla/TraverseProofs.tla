--------------------------- MODULE TraverseProofs ---------------------------
(***************************************************************************)
(* Proofs about the walk, for every graph, every seed file and every       *)
(* interleaving of the rows: the pipeline's answers are those of the       *)
(* direct walk nt_verify compares them with.                               *)
(***************************************************************************)
EXTENDS Traverse, SequenceTheorems, WellFoundedInduction, TLAPS

-----------------------------------------------------------------------------
(* Induction.  The library's induction theorems take the predicate as an     *)
(* operator; with the predicate as a set they follow from WFMin.             *)

\* A set of naturals with a member has a least one.
LEMMA LeastOf ==
  ASSUME NEW T \in SUBSET Nat, T # {}
  PROVE  \E m \in T : \A n \in T : m <= n
<1>1. PICK m \in T : \A n \in T : <<n, m>> \notin OpToRel(<, Nat)
  BY NatLessThanWellFounded, WFMin
<1>2. ASSUME NEW n \in T
      PROVE  m <= n
  <2>1. ~(n < m)
    BY <1>1 DEF OpToRel
  <2>2. QED
    BY <2>1
<1>3. QED
  BY <1>2

\* Set form of induction over the naturals.
LEMMA InductionInSet ==
  ASSUME NEW S, 0 \in S, \A n \in Nat : n \in S => n + 1 \in S
  PROVE  \A n \in Nat : n \in S
<1> SUFFICES ASSUME Nat \ S # {} PROVE FALSE
  OBVIOUS
<1>1. PICK m \in Nat \ S : \A n \in Nat \ S : m <= n
  BY LeastOf
<1>2. m \in Nat /\ m # 0
  BY <1>1
<1>3. m - 1 \in Nat /\ ~(m <= m - 1) /\ (m - 1) + 1 = m
  BY <1>2
<1>4. m - 1 \in S
  BY <1>1, <1>3
<1>5. QED
  BY <1>1, <1>3, <1>4

-----------------------------------------------------------------------------
(* The entry a name selects.                                                 *)

Hits(n, f) == {j \in 1 .. Len(Labels[n]) : IsNamed(n, j, f)}

\* A label's child is a node.
LEMMA LabelChild ==
  ASSUME NEW n \in Node, NEW j \in 1 .. Len(Labels[n])
  PROVE  Labels[n][j].child \in Node /\ Labels[n][j].fid \in Fid
<1> DEFINE Label == [dirEntry : BOOLEAN, fid : Fid, child : Node]
<1>1. Labels[n] \in Seq(Label)
  BY LabelAssumption
<1>2. Labels[n][j] \in Label
  <2> HIDE DEF Label
  <2>1. QED
    BY <1>1
<1>3. QED
  BY <1>2

LEMMA NoNodeIsNoNode == NoNode \notin Node /\ NoNode \notin Directory
BY GraphAssumption DEF NoNode, Node, Directory

\* DirectStep is the child of the first entry with the name, or nothing.
LEMMA DirectStepIs ==
  ASSUME NEW n \in Node, NEW f
  PROVE  /\ Hits(n, f) = {} => DirectStep(n, f) = NoNode
         /\ \A j \in Hits(n, f) :
              (\A h \in Hits(n, f) : j <= h) => DirectStep(n, f) = Labels[n][j].child
<1>1. CASE Hits(n, f) = {}
  BY <1>1 DEF DirectStep, Hits
<1>2. ASSUME NEW j \in Hits(n, f), \A h \in Hits(n, f) : j <= h
      PROVE  DirectStep(n, f) = Labels[n][j].child
  <2>1. Len(Labels[n]) \in Nat
    BY LabelAssumption
  <2>2. \A h \in Hits(n, f) : h \in Nat
    BY <2>1 DEF Hits
  <2>3. \A h \in Hits(n, f) : (\A g \in Hits(n, f) : h <= g) => h = j
    BY <1>2, <2>2
  <2>4. (CHOOSE h \in Hits(n, f) : \A g \in Hits(n, f) : h <= g) = j
    BY <1>2, <2>3
  <2>5. QED
    BY <2>4 DEF DirectStep, Hits
<1>3. QED
  BY <1>1, <1>2

\* It is a node below n or nothing.
LEMMA DirectStepTarget ==
  ASSUME NEW n \in Node, NEW f, DirectStep(n, f) # NoNode
  PROVE  /\ DirectStep(n, f) \in Node
         /\ \E j \in 1 .. Len(Labels[n]) :
              IsNamed(n, j, f) /\ DirectStep(n, f) = Labels[n][j].child
<1>1. Hits(n, f) # {}
  BY DirectStepIs
<1>2. Hits(n, f) \in SUBSET Nat
  BY LabelAssumption DEF Hits
<1>3. PICK j \in Hits(n, f) : \A h \in Hits(n, f) : j <= h
  BY <1>1, <1>2, LeastOf
<1>4. DirectStep(n, f) = Labels[n][j].child
  BY <1>3, DirectStepIs
<1>5. j \in 1 .. Len(Labels[n]) /\ IsNamed(n, j, f)
  BY DEF Hits
<1>6. QED
  BY <1>4, <1>5, LabelChild

-----------------------------------------------------------------------------
(* The directories below a set.                                              *)

LEMMA BelowHolds ==
  ASSUME NEW R \in SUBSET Directory
  PROVE  R \subseteq DirsBelow(R) /\ DirsBelow(R) \subseteq Directory
BY DEF DirsBelow

LEMMA BelowClosed ==
  ASSUME NEW R, NEW n \in DirsBelow(R), NEW j \in 1 .. Len(Succ[n]), IsDir(Succ[n][j])
  PROVE  Succ[n][j] \in DirsBelow(R)
<1>1. n \in Node /\ Succ[n] \in Seq(Node)
  BY GraphAssumption DEF DirsBelow, Directory
<1>2. Succ[n][j] \in Directory
  BY <1>1 DEF Directory
<1>3. ASSUME NEW S \in SUBSET Directory, R \subseteq S, ClosedUnderSubdirs(S)
      PROVE  Succ[n][j] \in S
  BY <1>3 DEF ClosedUnderSubdirs, DirsBelow
<1>4. QED
  BY <1>2, <1>3 DEF DirsBelow

\* A step from a directory to a directory stays below the same roots.
LEMMA StepStaysBelow ==
  ASSUME NEW R, NEW n \in DirsBelow(R), NEW f, DirectStep(n, f) \in Directory
  PROVE  DirectStep(n, f) \in DirsBelow(R)
<1>1. n \in Directory /\ n \in Node
  BY DEF DirsBelow, Directory
<1>2. DirectStep(n, f) # NoNode
  BY NoNodeIsNoNode
<1>3. PICK j \in 1 .. Len(Labels[n]) : DirectStep(n, f) = Labels[n][j].child
  BY <1>1, <1>2, DirectStepTarget
<1>4. PICK h \in 1 .. Len(Succ[n]) : Labels[n][j].child = Succ[n][h]
  BY <1>1, LabelAssumption
<1>5. IsDir(Succ[n][h])
  BY <1>3, <1>4 DEF Directory
<1>6. QED
  BY <1>3, <1>4, <1>5, BelowClosed

-----------------------------------------------------------------------------
(* The trail of a path.                                                      *)

\* One component of the trail, from the node reached before it.
TrailStep(n, f) == IF n \in Directory THEN DirectStep(n, f) ELSE NoNode

\* The recursion that defines DirectTrail has a solution, which DirectTrail
\* therefore is.
LEMMA TrailUnfolds ==
  ASSUME NEW rt, NEW p, Len(p) \in Nat
  PROVE  /\ DirectTrail(rt, p)[0] = rt
         /\ \A m \in 1 .. Len(p) :
              DirectTrail(rt, p)[m] = TrailStep(DirectTrail(rt, p)[m - 1], p[m])
<1> DEFINE Solves(t, l) ==
      t = [m \in 0 .. l |-> IF m = 0 THEN rt ELSE TrailStep(t[m - 1], p[m])]
    Solved == {l \in Nat : \E t : Solves(t, l)}
<1>1. 0 \in Solved
  <2>1. Solves([m \in 0 .. 0 |-> rt], 0)
    OBVIOUS
  <2>2. QED
    BY <2>1
<1>2. ASSUME NEW l \in Nat, l \in Solved
      PROVE  l + 1 \in Solved
  <2>1. PICK t : Solves(t, l)
    BY <1>2
  <2> DEFINE u == [m \in 0 .. l + 1 |-> IF m \in 0 .. l THEN t[m]
                                        ELSE TrailStep(t[l], p[l + 1])]
  <2>2. \A m \in 0 .. l : t[m] = IF m = 0 THEN rt ELSE TrailStep(t[m - 1], p[m])
    BY <2>1
  <2>3. ASSUME NEW m \in 0 .. l + 1
        PROVE  u[m] = IF m = 0 THEN rt ELSE TrailStep(u[m - 1], p[m])
    <3>1. CASE m = 0
      BY <2>2, <3>1
    <3>2. CASE m \in 1 .. l
      <4>1. m - 1 \in 0 .. l /\ m \in 0 .. l /\ m # 0
        BY <3>2
      <4>2. u[m] = t[m] /\ u[m - 1] = t[m - 1]
        BY <4>1
      <4>3. QED
        BY <2>2, <4>1, <4>2
    <3>3. CASE m = l + 1
      <4>1. m - 1 = l /\ m - 1 \in 0 .. l /\ ~(m \in 0 .. l) /\ m # 0
        BY <3>3
      <4>2. u[m] = TrailStep(t[l], p[l + 1]) /\ u[m - 1] = t[l]
        BY <4>1
      <4>3. QED
        BY <3>3, <4>1, <4>2
    <3>4. QED
      BY <3>1, <3>2, <3>3
  <2>4. Solves(u, l + 1)
    BY <2>3
  <2> HIDE DEF u, Solves
  <2>5. \E v : Solves(v, l + 1)
    BY <2>4
  <2>6. QED
    BY <2>5
<1>3. \A l \in Nat : l \in Solved
  <2>1. \A l \in Nat : l \in Solved => l + 1 \in Solved
    BY <1>2
  <2> HIDE DEF Solved
  <2>2. QED
    BY <1>1, <2>1, InductionInSet
<1>4. PICK t : Solves(t, Len(p))
  BY <1>3
<1>5. DirectTrail(rt, p) = CHOOSE a : Solves(a, Len(p))
  BY DEF DirectTrail, TrailStep
<1>6. Solves(DirectTrail(rt, p), Len(p))
  BY <1>4, <1>5
<1>7. QED
  BY <1>6

\* Past a node that is no directory there is nothing.
LEMMA TrailEnds ==
  ASSUME NEW rt, NEW p, Len(p) \in Nat,
         NEW m \in 0 .. Len(p), DirectTrail(rt, p)[m] \notin Directory
  PROVE  \A l \in 0 .. Len(p) : m < l => DirectTrail(rt, p)[l] = NoNode
<1> DEFINE t == DirectTrail(rt, p)
    Ended == {l \in Nat : m < l /\ l <= Len(p) => t[l] = NoNode}
<1>1. \A l \in 1 .. Len(p) : t[l] = TrailStep(t[l - 1], p[l])
  BY TrailUnfolds
<1> HIDE DEF t
<1>2. 0 \in Ended
  OBVIOUS
<1>3. ASSUME NEW l \in Nat, l \in Ended
      PROVE  l + 1 \in Ended
  <2> SUFFICES ASSUME m < l + 1, l + 1 <= Len(p)
               PROVE  t[l + 1] = NoNode
    OBVIOUS
  <2>1. l + 1 \in 1 .. Len(p) /\ (l + 1) - 1 = l
    OBVIOUS
  <2>2. t[l] \notin Directory
    <3>1. CASE m = l
      BY <3>1 DEF t
    <3>2. CASE m # l
      BY <1>3, <3>2, NoNodeIsNoNode
    <3>3. QED
      BY <3>1, <3>2
  <2>3. QED
    BY <1>1, <2>1, <2>2 DEF TrailStep
<1>4. \A l \in Nat : l \in Ended
  <2> HIDE DEF Ended
  <2>1. QED
    BY <1>2, <1>3, InductionInSet
<1>5. QED
  BY <1>4 DEF t

-----------------------------------------------------------------------------
(* The inductive invariant.                                                  *)

FunctionInv ==
  /\ i \in [Rows -> Int]
  /\ cur \in [Rows -> Int]
  /\ leaf \in [Rows -> Int]
  /\ status \in [Rows -> Statuses \cup {"none"}]

\* A row stands where the direct walk stands after the same components, and
\* has come through directories below the roots only.
WalkInv ==
  \A r \in Rows :
    IF root[r] = RootMissing THEN cur[r] = RootMissing
    ELSE /\ path[r] # <<>> => i[r] \in 1 .. Len(path[r])
         /\ path[r] = <<>> => i[r] = 1
         /\ cur[r] \in reached
         /\ cur[r] = Trail(r)[i[r] - 1]
         /\ \A m \in 0 .. i[r] - 1 : Trail(r)[m] \in Directory

\* What OkIffDirect and StatusFaithful say of one row that has its answer.
Verdict(r, st, lf) ==
  /\ IF st = "Ok"
       THEN root[r] # RootMissing /\ lf = DirectResolve(root[r], path[r])
       ELSE root[r] = RootMissing \/ DirectResolve(root[r], path[r]) = NoNode
  /\ root[r] # RootMissing =>
       /\ st = "DirTarget" <=>
            path[r] # <<>> /\ Trail(r)[Len(path[r])] \in Directory
       /\ st = "Submodule" <=>
            \E m \in 1 .. Len(path[r]) :
               Trail(r)[m] \in {n \in Node : NodeType[n] = "revision"}

VerdictInv == \A r \in Rows : pc[r] = "done" => Verdict(r, status[r], leaf[r])

IInv == TypeOK /\ FunctionInv /\ WalkInv /\ VerdictInv

-----------------------------------------------------------------------------
(* The inputs.                                                               *)

LEMMA InputsTyped ==
  ASSUME Inputs, NEW r \in Rows
  PROVE  /\ root[r] \in Directory \cup {RootMissing}
         /\ path[r] \in Seq(Fid \cup {FidMissing})
         /\ Len(path[r]) \in Nat
         /\ path[r] = <<>> <=> Len(path[r]) = 0
         /\ \A m \in 1 .. Len(path[r]) : path[r][m] \in Fid \cup {FidMissing}
<1>1. r \in 1 .. Len(root) /\ r \in 1 .. Len(path)
  BY DEF Inputs, Rows
<1>2. root[r] \in Directory \cup {RootMissing}
  BY <1>1 DEF Inputs
<1>3. path[r] \in Seq(Fid \cup {FidMissing})
  BY <1>1 DEF Inputs
<1>4. QED
  BY <1>2, <1>3, EmptySeq

\* Roots are below themselves, and everything below them is a directory.
LEMMA RootsReached ==
  ASSUME Inputs
  PROVE  /\ reached \subseteq Directory
         /\ \A r \in Rows : root[r] # RootMissing => root[r] \in reached
<1>1. DistinctRoots(root) \in SUBSET Directory
  BY InputsTyped DEF DistinctRoots, Rows
<1>2. \A r \in Rows : root[r] # RootMissing => root[r] \in DistinctRoots(root)
  BY DEF DistinctRoots, Rows
<1>3. QED
  BY <1>1, <1>2, BelowHolds DEF Inputs

LEMMA DirectoryIsNode ==
  /\ Directory \subseteq Node
  /\ \A n \in Node : n \in Nat
  /\ RootMissing \notin Node /\ FidMissing \notin Fid
BY GraphAssumption, LabelAssumption DEF Directory, Node, RootMissing, FidMissing

\* The map answers as the direct walk does, for a reached directory and a name
\* of some row.
LEMMA MapAnswers ==
  ASSUME Inputs, NEW r \in Rows, NEW m \in 1 .. Len(path[r]),
         path[r][m] # FidMissing, NEW d \in reached
  PROVE  table[<<d, path[r][m]>>] =
           IF DirectStep(d, path[r][m]) = NoNode THEN Map!NoEntry
           ELSE [child |-> DirectStep(d, path[r][m]),
                 ty |-> NodeType[DirectStep(d, path[r][m])]]
<1> PICK f \in Fid : f = path[r][m]
  BY InputsTyped
<1>1. f \in requested
  <2>1. m \in DOMAIN path[r]
    BY InputsTyped
  <2>2. f \in NamesIn(path[r])
    BY <2>1 DEF NamesIn
  <2>3. QED
    BY <2>2 DEF Inputs
<1>2. d \in Node
  BY RootsReached, DirectoryIsNode
<1>3. Map!DirectStep(d, f) = DirectStep(d, f)
  BY DEF Map!DirectStep, DirectStep, Map!IsNamed, IsNamed, Map!NoNode, NoNode
<1>4. table[<<d, f>>] = Map!Exact(d, f)
  BY <1>2 DEF Inputs, Map!ExactTable, Map!Node, Node
<1>5. QED
  BY <1>1, <1>3, <1>4 DEF Map!Exact, Map!NoNode, NoNode

-----------------------------------------------------------------------------
(* One component of a row.                                                   *)

\* The row's lookup gives the next node of the direct walk.
LEMMA Component ==
  ASSUME IInv, NEW r \in Rows, AtComponent(r)
  PROVE  /\ Len(path[r]) \in Nat /\ i[r] \in 1 .. Len(path[r])
         /\ cur[r] \in Directory /\ cur[r] \in reached
         /\ Trail(r)[i[r]] \in Node \cup {NoNode}
         /\ Found(r) <=> Trail(r)[i[r]] # NoNode
         /\ Found(r) => Hit(r) = [child |-> Trail(r)[i[r]],
                                  ty |-> NodeType[Trail(r)[i[r]]]]
<1>1. Inputs
  BY DEF IInv, TypeOK
<1>2. Len(path[r]) \in Nat /\ i[r] \in 1 .. Len(path[r])
  BY <1>1, InputsTyped DEF IInv, WalkInv, AtComponent
<1>3. /\ cur[r] \in reached /\ cur[r] \in Directory /\ cur[r] \in Node
      /\ cur[r] = Trail(r)[i[r] - 1]
  BY <1>1, RootsReached, DirectoryIsNode DEF IInv, WalkInv, AtComponent
<1>4. Trail(r)[i[r]] = DirectStep(cur[r], path[r][i[r]])
  BY <1>2, <1>3, TrailUnfolds DEF Trail, TrailStep
<1>5. Trail(r)[i[r]] \in Node \cup {NoNode}
  BY <1>3, <1>4, DirectStepTarget
<1>6. CASE path[r][i[r]] = FidMissing
  <2>1. Hits(cur[r], FidMissing) = {}
    <3>1. \A j \in 1 .. Len(Labels[cur[r]]) : Labels[cur[r]][j].fid \in Fid
      BY <1>3, LabelChild
    <3>2. QED
      BY <3>1, DirectoryIsNode DEF Hits, IsNamed
  <2>2. Trail(r)[i[r]] = NoNode
    BY <1>3, <1>4, <1>6, <2>1, DirectStepIs
  <2>3. QED
    BY <1>2, <1>3, <1>5, <1>6, <2>2 DEF Found
<1>7. CASE path[r][i[r]] # FidMissing
  <2>1. Hit(r) = IF Trail(r)[i[r]] = NoNode THEN Map!NoEntry
                 ELSE [child |-> Trail(r)[i[r]], ty |-> NodeType[Trail(r)[i[r]]]]
    BY <1>1, <1>2, <1>3, <1>4, <1>7, MapAnswers DEF Hit
  <2>2. Trail(r)[i[r]] # NoNode => Hit(r) # Map!NoEntry
    <3>1. Map!NoEntry.child = NoNode
      BY DEF Map!NoEntry, Map!NoNode, NoNode
    <3>2. Trail(r)[i[r]] # NoNode => Hit(r).child = Trail(r)[i[r]]
      BY <2>1
    <3>3. QED
      BY <3>1, <3>2
  <2>3. QED
    BY <1>2, <1>3, <1>5, <1>7, <2>1, <2>2 DEF Found
<1>8. QED
  BY <1>6, <1>7

\* Before the component only directories were passed.
LEMMA BeforeComponent ==
  ASSUME IInv, NEW r \in Rows, AtComponent(r), NEW m \in 1 .. Len(path[r]), m < i[r]
  PROVE  Trail(r)[m] \in Directory
<1>1. Len(path[r]) \in Nat /\ i[r] \in Int
  BY Component
<1>2. m \in 0 .. i[r] - 1
  BY <1>1
<1>3. QED
  BY <1>2 DEF IInv, WalkInv, AtComponent

\* If the component's node is no directory, the direct walk finds nothing after
\* it.
LEMMA AfterComponent ==
  ASSUME IInv, NEW r \in Rows, AtComponent(r), Trail(r)[i[r]] \notin Directory,
         NEW m \in 1 .. Len(path[r]), i[r] < m
  PROVE  Trail(r)[m] = NoNode
<1>1. Len(path[r]) \in Nat /\ i[r] \in 0 .. Len(path[r]) /\ m \in 0 .. Len(path[r])
  BY Component
<1>2. QED
  BY <1>1, TrailEnds DEF Trail

-----------------------------------------------------------------------------
(* The verdict of each way a row can end.                                    *)

\* Nodes of the three types a status tells apart.
LEMMA TypesOfNodes ==
  ASSUME NEW n \in Node
  PROVE  /\ n \in Directory <=> NodeType[n] = "directory"
         /\ NodeType[n] \in NodeTypes
         /\ n # NoNode
BY GraphAssumption, NoNodeIsNoNode DEF Directory, IsDir

LEMMA NoRootVerdict ==
  ASSUME NEW r \in Rows, root[r] = RootMissing
  PROVE  Verdict(r, "NoRoot", 0)
BY DEF Verdict

LEMMA EmptyPathVerdict ==
  ASSUME IInv, NEW r \in Rows, path[r] = <<>>
  PROVE  Verdict(r, "NotFound", 0)
<1>1. Len(path[r]) = 0
  BY InputsTyped DEF IInv, TypeOK
<1>2. QED
  BY <1>1 DEF Verdict, DirectResolve

\* The direct walk ends before the last component, or at a node that is not a
\* content: nothing is resolved.
LEMMA UnresolvedVerdict ==
  ASSUME IInv, NEW r \in Rows, AtComponent(r), NEW st \in Statuses, st # "Ok",
         NEW c, c = Trail(r)[i[r]],
         i[r] = Len(path[r]) => c = NoNode \/ NodeType[c] # "content",
         i[r] < Len(path[r]) => c \notin Directory,
         st = "DirTarget" <=> c \in Directory,
         st = "Submodule" <=> c \in Node /\ NodeType[c] = "revision"
  PROVE  Verdict(r, st, 0)
<1> DEFINE L == Len(path[r])
<1>1. L \in Nat /\ i[r] \in 1 .. L /\ c \in Node \cup {NoNode}
  BY Component
<1>2. c \notin Directory => \A m \in 1 .. L : i[r] < m => Trail(r)[m] = NoNode
  BY AfterComponent
<1>3. \A m \in 1 .. L : m < i[r] => Trail(r)[m] \in Directory
  BY BeforeComponent
<1>4. Trail(r)[L] = NoNode \/ NodeType[Trail(r)[L]] # "content"
  BY <1>1, <1>2
<1>5. DirectResolve(root[r], path[r]) = NoNode
  BY <1>4 DEF DirectResolve, Trail
<1>6. st = "DirTarget" <=> path[r] # <<>> /\ Trail(r)[L] \in Directory
  <2>1. CASE i[r] = L
    BY <2>1 DEF AtComponent
  <2>2. CASE i[r] < L
    BY <1>1, <1>2, <2>2, NoNodeIsNoNode
  <2>3. QED
    BY <1>1, <2>1, <2>2
<1>7. st = "Submodule" <=>
        \E m \in 1 .. L : Trail(r)[m] \in {n \in Node : NodeType[n] = "revision"}
  <2>1. ASSUME NEW m \in 1 .. L, Trail(r)[m] \in {n \in Node : NodeType[n] = "revision"}
        PROVE  m = i[r]
    <3>1. Trail(r)[m] # NoNode /\ Trail(r)[m] \notin Directory
      BY <2>1, TypesOfNodes
    <3>2. CASE m < i[r]
      BY <1>3, <3>1, <3>2
    <3>3. CASE i[r] < m
      <4>1. c \in Directory
        BY <1>2, <3>1, <3>3
      <4>2. i[r] < L
        BY <1>1, <3>3
      <4>3. QED
        BY <4>1, <4>2
    <3>4. QED
      BY <1>1, <3>2, <3>3
  <2>2. QED
    BY <1>1, <2>1
<1>8. QED
  BY <1>5, <1>6, <1>7 DEF Verdict

LEMMA AbsentVerdict ==
  ASSUME IInv, NEW r \in Rows, AtComponent(r), ~Found(r)
  PROVE  Verdict(r, "NotFound", 0)
<1>1. Trail(r)[i[r]] = NoNode
  BY Component
<1>2. NoNode \notin Node /\ NoNode \notin Directory
  BY NoNodeIsNoNode
<1>3. QED
  BY <1>1, <1>2, UnresolvedVerdict DEF Statuses

LEMMA BlockedVerdict ==
  ASSUME IInv, NEW r \in Rows, AtComponent(r), Found(r), ~IsLast(r),
         Hit(r).ty # "directory"
  PROVE  Verdict(r, IF Hit(r).ty = "revision" THEN "Submodule" ELSE "NotFound", 0)
<1> PICK c \in Node : c = Trail(r)[i[r]]
  BY Component
<1>1. Hit(r).ty = NodeType[c]
  BY Component
<1>2. c \notin Directory
  BY <1>1, TypesOfNodes
<1>3. i[r] # Len(path[r])
  BY DEF IsLast
<1>4. CASE NodeType[c] = "revision"
  BY <1>1, <1>2, <1>3, <1>4, UnresolvedVerdict DEF Statuses
<1>5. CASE NodeType[c] # "revision"
  BY <1>1, <1>2, <1>3, <1>5, UnresolvedVerdict DEF Statuses
<1>6. QED
  BY <1>4, <1>5

LEMMA FinalVerdict ==
  ASSUME IInv, NEW r \in Rows, AtComponent(r), Found(r), IsLast(r)
  PROVE  Verdict(r, StatusOfLast(Hit(r).ty), LeafOfLast(Hit(r)))
<1> PICK c \in Node : c = Trail(r)[i[r]]
  BY Component
<1>1. Hit(r).ty = NodeType[c] /\ Hit(r).child = c
  BY Component
<1>2. i[r] = Len(path[r]) /\ Len(path[r]) \in Nat
  BY Component DEF IsLast
<1>3. c # NoNode /\ (c \in Directory <=> NodeType[c] = "directory")
  BY TypesOfNodes
<1>4. CASE NodeType[c] = "content"
  <2>1. StatusOfLast(Hit(r).ty) = "Ok" /\ LeafOfLast(Hit(r)) = c
    BY <1>1, <1>4 DEF StatusOfLast, LeafOfLast
  <2>2. DirectResolve(root[r], path[r]) = c /\ root[r] # RootMissing
    BY <1>2, <1>3, <1>4 DEF DirectResolve, Trail, AtComponent
  <2>3. \A m \in 1 .. Len(path[r]) :
          Trail(r)[m] \notin {n \in Node : NodeType[n] = "revision"}
    <3> SUFFICES ASSUME NEW m \in 1 .. Len(path[r])
                 PROVE  Trail(r)[m] \notin {n \in Node : NodeType[n] = "revision"}
      OBVIOUS
    <3>1. CASE m = i[r]
      BY <1>4, <3>1
    <3>2. CASE m # i[r]
      <4>1. Trail(r)[m] \in Directory
        BY <1>2, <3>2, BeforeComponent
      <4>2. QED
        BY <4>1, TypesOfNodes
    <3>3. QED
      BY <3>1, <3>2
  <2>4. Trail(r)[Len(path[r])] \notin Directory
    BY <1>2, <1>3, <1>4
  <2>5. QED
    BY <2>1, <2>2, <2>3, <2>4 DEF Verdict
<1>5. CASE NodeType[c] # "content"
  <2>1. /\ StatusOfLast(Hit(r).ty) \in Statuses \ {"Ok"}
        /\ LeafOfLast(Hit(r)) = 0
        /\ StatusOfLast(Hit(r).ty) = "DirTarget" <=> NodeType[c] = "directory"
        /\ StatusOfLast(Hit(r).ty) = "Submodule" <=> NodeType[c] = "revision"
    BY <1>1, <1>5 DEF StatusOfLast, LeafOfLast, Statuses
  <2>2. QED
    BY <1>2, <1>3, <1>5, <2>1, UnresolvedVerdict
<1>6. QED
  BY <1>4, <1>5

-----------------------------------------------------------------------------
(* One lemma per kind of step.                                               *)

\* What the inputs alone determine does not change.
LEMMA SameInputs ==
  ASSUME UNCHANGED inputs
  PROVE  /\ UNCHANGED <<root, path, reached, requested, table, Rows>>
         /\ \A r : Trail(r)' = Trail(r)
         /\ \A r, st, lf : Verdict(r, st, lf)' <=> Verdict(r, st, lf)
         /\ Inputs => Inputs'
<1>1. UNCHANGED <<root, path, reached, requested, table>>
  BY DEF inputs
<1>2. \A r : Trail(r)' = Trail(r)
  BY <1>1 DEF Trail
<1>3. \A r, st, lf : Verdict(r, st, lf)' <=> Verdict(r, st, lf)
  BY <1>1, <1>2 DEF Verdict
<1>4. Inputs => Inputs'
  BY <1>1 DEF Inputs, Rows, Map!ExactTable, Map!Exact
<1>5. QED
  BY <1>1, <1>2, <1>3, <1>4 DEF Rows

\* A row that gives its answer gives the right one, and moves nothing else.
LEMMA GiveStep ==
  ASSUME IInv, NEW v \in Rows, pc[v] = "walk",
         NEW st \in Statuses, NEW lf \in Node \cup {0}, st # "Ok" => lf = 0,
         Verdict(v, st, lf), Give(v, lf, st)
  PROVE  IInv'
<1> USE DEF IInv
<1>1. /\ leaf' = [leaf EXCEPT ![v] = lf] /\ status' = [status EXCEPT ![v] = st]
      /\ pc' = [pc EXCEPT ![v] = "done"] /\ UNCHANGED inputs /\ UNCHANGED <<i, cur>>
  BY DEF Give
<1>2. /\ leaf'[v] = lf /\ status'[v] = st /\ pc'[v] = "done"
      /\ \A r \in Rows : r # v => leaf'[r] = leaf[r] /\ status'[r] = status[r]
                                   /\ pc'[r] = pc[r]
  BY <1>1 DEF FunctionInv, TypeOK
<1>3. /\ UNCHANGED <<root, path, reached, requested, table, Rows>>
      /\ \A r : Trail(r)' = Trail(r)
      /\ \A r, s, n : Verdict(r, s, n)' <=> Verdict(r, s, n)
      /\ Inputs'
  BY <1>1, SameInputs DEF TypeOK
<1>4. TypeOK'
  BY <1>1, <1>2, <1>3 DEF TypeOK
<1>5. FunctionInv'
  BY <1>1, <1>3, DirectoryIsNode DEF FunctionInv
<1>6. WalkInv'
  BY <1>1, <1>3 DEF WalkInv
<1>7. VerdictInv'
  <2> SUFFICES ASSUME NEW r \in Rows, pc'[r] = "done"
               PROVE  Verdict(r, status'[r], leaf'[r])
    BY <1>3 DEF VerdictInv
  <2>1. CASE r = v
    BY <1>2, <2>1
  <2>2. CASE r # v
    BY <1>2, <2>2 DEF VerdictInv
  <2>3. QED
    BY <2>1, <2>2
<1>8. QED
  BY <1>4, <1>5, <1>6, <1>7

\* A row that descends follows the direct walk into a reached directory.
LEMMA DescendStep ==
  ASSUME IInv, NEW v \in Rows, Descend(v)
  PROVE  IInv'
<1> USE DEF IInv
<1>1. /\ AtComponent(v) /\ Found(v) /\ ~IsLast(v) /\ Hit(v).ty = "directory"
      /\ cur' = [cur EXCEPT ![v] = Hit(v).child] /\ i' = [i EXCEPT ![v] = i[v] + 1]
      /\ UNCHANGED inputs /\ UNCHANGED <<pc, leaf, status>>
  BY DEF Descend
<1>2. /\ Len(path[v]) \in Nat /\ i[v] \in 1 .. Len(path[v])
      /\ cur[v] \in Directory /\ cur[v] \in reached
      /\ Trail(v)[i[v]] \in Node
      /\ Hit(v).child = Trail(v)[i[v]] /\ NodeType[Trail(v)[i[v]]] = "directory"
  BY <1>1, Component
<1> PICK c \in Directory : c = Trail(v)[i[v]]
  BY <1>2, TypesOfNodes
<1>3. c \in reached
  <2>1. cur[v] = Trail(v)[i[v] - 1]
    BY <1>1 DEF WalkInv, AtComponent
  <2>2. c = DirectStep(cur[v], path[v][i[v]])
    BY <1>2, <2>1, TrailUnfolds DEF Trail, TrailStep
  <2>3. QED
    BY <1>2, <2>2, StepStaysBelow DEF TypeOK, Inputs
<1>4. i[v] # Len(path[v]) /\ i[v] + 1 \in 1 .. Len(path[v])
  BY <1>1, <1>2 DEF IsLast
<1>5. /\ cur'[v] = c /\ i'[v] = i[v] + 1
      /\ \A r \in Rows : r # v => cur'[r] = cur[r] /\ i'[r] = i[r]
  BY <1>1, <1>2 DEF FunctionInv
<1>6. /\ UNCHANGED <<root, path, reached, requested, table, Rows>>
      /\ \A r : Trail(r)' = Trail(r)
      /\ \A r, s, n : Verdict(r, s, n)' <=> Verdict(r, s, n)
      /\ Inputs'
  BY <1>1, SameInputs DEF TypeOK
<1>7. TypeOK'
  BY <1>1, <1>4, <1>5, <1>6 DEF TypeOK
<1>8. FunctionInv'
  BY <1>1, <1>2, <1>6, DirectoryIsNode DEF FunctionInv
<1>9. VerdictInv'
  BY <1>1, <1>6 DEF VerdictInv
<1>10. WalkInv'
  <2> SUFFICES ASSUME NEW r \in Rows, root[r] # RootMissing
               PROVE  /\ path[r] # <<>> => i'[r] \in 1 .. Len(path[r])
                      /\ path[r] = <<>> => i'[r] = 1
                      /\ cur'[r] \in reached
                      /\ cur'[r] = Trail(r)[i'[r] - 1]
                      /\ \A m \in 0 .. i'[r] - 1 : Trail(r)[m] \in Directory
    <3>1. \A r \in Rows : root[r] = RootMissing => cur'[r] = RootMissing
      BY <1>1, <1>5 DEF WalkInv, AtComponent
    <3>2. QED
      BY <1>6, <3>1 DEF WalkInv
  <2>1. CASE r # v
    BY <1>5, <2>1 DEF WalkInv
  <2>2. CASE r = v
    <3>1. i'[v] - 1 = i[v]
      BY <1>2, <1>5
    <3>2. \A m \in 0 .. i[v] : Trail(v)[m] \in Directory
      <4>1. \A m \in 0 .. i[v] - 1 : Trail(v)[m] \in Directory
        BY <1>1 DEF WalkInv, AtComponent
      <4>2. QED
        BY <1>2, <4>1
    <3>3. QED
      BY <1>1, <1>3, <1>4, <1>5, <2>2, <3>1, <3>2 DEF AtComponent
  <2>3. QED
    BY <2>1, <2>2
<1>11. QED
  BY <1>7, <1>8, <1>9, <1>10

LEMMA InitIInv == Init => IInv
<1> SUFFICES ASSUME Init PROVE IInv
  OBVIOUS
<1>1. Inputs
  BY DEF Init
<1>2. \A r \in Rows : /\ pc[r] = "walk" /\ i[r] = 1 /\ cur[r] = root[r]
                       /\ leaf[r] = 0 /\ status[r] = "none"
  <2>1. root = [r \in Rows |-> root[r]]
    BY <1>1 DEF Inputs, Rows
  <2>2. QED
    BY <2>1 DEF Init, Start
<1>3. TypeOK
  BY <1>1, <1>2, InputsTyped DEF Init, Start, TypeOK
<1>4. FunctionInv
  <2>1. cur \in [Rows -> Int]
    <3>1. \A r \in Rows : root[r] \in Int
      BY <1>1, InputsTyped, DirectoryIsNode DEF RootMissing
    <3>2. root = [r \in Rows |-> root[r]]
      BY <1>1 DEF Inputs, Rows
    <3>3. QED
      BY <3>1, <3>2 DEF Init, Start
  <2>2. QED
    BY <2>1 DEF Init, Start, FunctionInv
<1>5. WalkInv
  <2> SUFFICES ASSUME NEW r \in Rows, root[r] # RootMissing
               PROVE  /\ path[r] # <<>> => 1 \in 1 .. Len(path[r])
                      /\ root[r] \in reached
                      /\ root[r] = Trail(r)[0]
                      /\ Trail(r)[0] \in Directory
    BY <1>2 DEF WalkInv
  <2>1. path[r] # <<>> => 1 \in 1 .. Len(path[r])
    BY <1>1, InputsTyped
  <2>2. root[r] = Trail(r)[0]
    BY <1>1, InputsTyped, TrailUnfolds DEF Trail
  <2>3. root[r] \in reached /\ root[r] \in Directory
    BY <1>1, RootsReached
  <2>4. QED
    BY <2>1, <2>2, <2>3
<1>6. VerdictInv
  BY <1>2 DEF VerdictInv
<1>7. QED
  BY <1>3, <1>4, <1>5, <1>6 DEF IInv

LEMMA NextIInv ==
  ASSUME IInv, [Next]_vars
  PROVE  IInv'
<1>1. ASSUME NEW r \in Rows, NoRoot(r) PROVE IInv'
  BY <1>1, NoRootVerdict, GiveStep DEF NoRoot, Statuses
<1>2. ASSUME NEW r \in Rows, EmptyPath(r) PROVE IInv'
  BY <1>2, EmptyPathVerdict, GiveStep DEF EmptyPath, Statuses
<1>3. ASSUME NEW r \in Rows, ComponentAbsent(r) PROVE IInv'
  BY <1>3, AbsentVerdict, GiveStep DEF ComponentAbsent, AtComponent, Statuses
<1>4. ASSUME NEW r \in Rows, FinalComponent(r) PROVE IInv'
  <2> DEFINE st == StatusOfLast(Hit(r).ty)
             lf == LeafOfLast(Hit(r))
  <2>1. /\ AtComponent(r) /\ Found(r) /\ IsLast(r) /\ pc[r] = "walk" /\ Give(r, lf, st)
    BY <1>4 DEF FinalComponent, AtComponent
  <2>2. Verdict(r, st, lf)
    BY <2>1, FinalVerdict
  <2>3. Hit(r).child \in Node
    BY <2>1, Component
  <2>4. st \in Statuses /\ lf \in Node \cup {0} /\ (st # "Ok" => lf = 0)
    BY <2>3 DEF StatusOfLast, LeafOfLast, Statuses
  <2> HIDE DEF st, lf
  <2>5. QED
    BY <2>1, <2>2, <2>4, GiveStep
<1>5. ASSUME NEW r \in Rows, Descend(r) PROVE IInv'
  BY <1>5, DescendStep
<1>6. ASSUME NEW r \in Rows, Blocked(r) PROVE IInv'
  <2> DEFINE st == IF Hit(r).ty = "revision" THEN "Submodule" ELSE "NotFound"
  <2>1. /\ AtComponent(r) /\ Found(r) /\ ~IsLast(r) /\ Hit(r).ty # "directory"
        /\ pc[r] = "walk" /\ Give(r, 0, st)
    BY <1>6 DEF Blocked, AtComponent
  <2>2. Verdict(r, st, 0)
    BY <2>1, BlockedVerdict
  <2>3. st \in Statuses /\ st # "Ok"
    BY DEF Statuses
  <2> HIDE DEF st
  <2>4. QED
    BY <2>1, <2>2, <2>3, GiveStep
<1>7. CASE UNCHANGED vars
  <2>1. UNCHANGED inputs /\ UNCHANGED <<pc, i, cur, leaf, status>>
    BY <1>7 DEF vars, inputs
  <2>2. QED
    BY <2>1, SameInputs DEF IInv, TypeOK, FunctionInv, WalkInv, VerdictInv
<1>8. QED
  BY <1>1, <1>2, <1>3, <1>4, <1>5, <1>6, <1>7 DEF Next, WalkRow, Joined

LEMMA Invariance == Spec => []IInv
BY InitIInv, NextIInv, PTL DEF Spec

-----------------------------------------------------------------------------

\* Every row keeps a position on its path, and its slots what lib.rs says of
\* them: `leaf is 0 unless status==Ok`.
THEOREM TypeCorrect == Spec => []TypeOK
<1>1. IInv => TypeOK
  BY DEF IInv
<1>2. QED
  BY <1>1, Invariance, PTL

\* reach marked every directory a walk looks a name up in: a miss in the map
\* is never a directory that was not hydrated.
THEOREM WalkStaysHydrated == Spec => []WalksHydrated
<1>1. IInv => WalksHydrated
  BY DEF IInv, WalksHydrated, WalkInv
<1>2. QED
  BY <1>1, Invariance, PTL

\* Every answer is the direct walk's, for every graph and every set of rows:
\* what nt_verify samples holds of every row.
THEOREM AnswersAreDirect == Spec => []OkIffDirect
<1>1. IInv => OkIffDirect
  BY DEF IInv, OkIffDirect, VerdictInv, Verdict
<1>2. QED
  BY <1>1, Invariance, PTL

\* DirTarget and Submodule mean what their names say.
THEOREM StatusesAreFaithful == Spec => []StatusFaithful
<1>1. IInv => StatusFaithful
  BY DEF IInv, StatusFaithful, VerdictInv, Verdict
<1>2. QED
  BY <1>1, Invariance, PTL
=============================================================================
