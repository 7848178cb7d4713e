--------------------------- MODULE HydrateProofs ----------------------------
(***************************************************************************)
(* Proofs about hydrate's scan and merge, for every graph, every reached   *)
(* and requested set, every cut into any number of bands, either scan mode *)
(* and every interleaving of the decoders.                                 *)
(***************************************************************************)
EXTENDS Hydrate, FiniteSetTheorems, FunctionTheorems, SequenceTheorems,
        WellFoundedInduction, TLAPS

-----------------------------------------------------------------------------
(* Induction.  The library's induction theorems take the predicate as an     *)
(* operator; with the predicate as a set they follow from WFMin.             *)

\* A set of naturals with a member has a least one.
LEMMA LeastOf ==
  ASSUME NEW T \in SUBSET Nat, T # {}
  PROVE  \E m \in T : \A n \in T : m <= n
<1>1. PICK m \in T : \A n \in T : <<n, m>> \notin OpToRel(<, Nat)
  BY NatLessThanWellFounded, WFMin
<1>2. ASSUME NEW n \in T
      PROVE  m <= n
  <2>1. ~(n < m)
    BY <1>1 DEF OpToRel
  <2>2. QED
    BY <2>1
<1>3. QED
  BY <1>2

\* Set form of induction over the naturals.
LEMMA InductionInSet ==
  ASSUME NEW S, 0 \in S, \A n \in Nat : n \in S => n + 1 \in S
  PROVE  \A n \in Nat : n \in S
<1> SUFFICES ASSUME Nat \ S # {} PROVE FALSE
  OBVIOUS
<1>1. PICK m \in Nat \ S : \A n \in Nat \ S : m <= n
  BY LeastOf
<1>2. m \in Nat /\ m # 0
  BY <1>1
<1>3. m - 1 \in Nat /\ ~(m <= m - 1) /\ (m - 1) + 1 = m
  BY <1>2
<1>4. m - 1 \in S
  BY <1>1, <1>3
<1>5. QED
  BY <1>1, <1>3, <1>4

-----------------------------------------------------------------------------
(* The entry a name selects.                                                 *)

Hits(n, f) == {j \in 1 .. Len(Labels[n]) : IsNamed(n, j, f)}

\* A label's child is a node.
LEMMA LabelChild ==
  ASSUME NEW n \in Node, NEW j \in 1 .. Len(Labels[n])
  PROVE  Labels[n][j].child \in Node /\ Labels[n][j].fid \in Fid
<1> DEFINE Label == [dirEntry : BOOLEAN, fid : Fid, child : Node]
<1>1. Labels[n] \in Seq(Label)
  BY LabelAssumption
<1>2. Labels[n][j] \in Label
  <2> HIDE DEF Label
  <2>1. QED
    BY <1>1
<1>3. QED
  BY <1>2

LEMMA NoNodeIsNoNode == NoNode \notin Node /\ NoNode \notin Directory
BY GraphAssumption DEF NoNode, Node, Directory

\* DirectStep is the child of the first entry with the name, or nothing.
LEMMA DirectStepIs ==
  ASSUME NEW n \in Node, NEW f
  PROVE  /\ Hits(n, f) = {} => DirectStep(n, f) = NoNode
         /\ \A j \in Hits(n, f) :
              (\A h \in Hits(n, f) : j <= h) => DirectStep(n, f) = Labels[n][j].child
<1>1. CASE Hits(n, f) = {}
  BY <1>1 DEF DirectStep, Hits
<1>2. ASSUME NEW j \in Hits(n, f), \A h \in Hits(n, f) : j <= h
      PROVE  DirectStep(n, f) = Labels[n][j].child
  <2>1. Len(Labels[n]) \in Nat
    BY LabelAssumption
  <2>2. \A h \in Hits(n, f) : h \in Nat
    BY <2>1 DEF Hits
  <2>3. \A h \in Hits(n, f) : (\A g \in Hits(n, f) : h <= g) => h = j
    BY <1>2, <2>2
  <2>4. (CHOOSE h \in Hits(n, f) : \A g \in Hits(n, f) : h <= g) = j
    BY <1>2, <2>3
  <2>5. QED
    BY <2>4 DEF DirectStep, Hits
<1>3. QED
  BY <1>1, <1>2

-----------------------------------------------------------------------------
(* The members of a finite set in an order.                                  *)

StrictOrder(I, R) ==
  /\ \A a \in I : <<a, a>> \notin R
  /\ \A a, b, c \in I : <<a, b>> \in R /\ <<b, c>> \in R => <<a, c>> \in R
  /\ \A a, b \in I : a # b => <<a, b>> \in R \/ <<b, a>> \in R

Under(I, R, j) == {h \in I : <<h, j>> \in R}

\* The number of members before j grows with j.
LEMMA UnderGrows ==
  ASSUME NEW I, IsFiniteSet(I), NEW R, StrictOrder(I, R)
  PROVE  /\ \A j \in I : Cardinality(Under(I, R, j)) + 1 \in 1 .. Cardinality(I)
         /\ \A a, b \in I : <<a, b>> \in R =>
              Cardinality(Under(I, R, a)) < Cardinality(Under(I, R, b))
<1>1. Cardinality(I) \in Nat
  BY FS_CardinalityType
<1>2. ASSUME NEW j \in I
      PROVE  /\ IsFiniteSet(Under(I, R, j)) /\ Cardinality(Under(I, R, j)) \in Nat
             /\ Cardinality(Under(I, R, j)) < Cardinality(I)
  <2>1. Under(I, R, j) \in SUBSET I /\ j \notin Under(I, R, j)
    BY DEF Under, StrictOrder
  <2>2. /\ IsFiniteSet(Under(I, R, j)) /\ Cardinality(Under(I, R, j)) <= Cardinality(I)
        /\ Cardinality(I) # Cardinality(Under(I, R, j))
    BY <2>1, FS_Subset
  <2>3. Cardinality(Under(I, R, j)) \in Nat
    BY <2>2, FS_CardinalityType
  <2>4. QED
    BY <1>1, <2>2, <2>3
<1>3. ASSUME NEW a \in I, NEW b \in I, <<a, b>> \in R
      PROVE  Cardinality(Under(I, R, a)) < Cardinality(Under(I, R, b))
  <2>1. Under(I, R, a) \in SUBSET Under(I, R, b)
        /\ a \in Under(I, R, b) /\ a \notin Under(I, R, a)
    BY <1>3 DEF Under, StrictOrder
  <2>2. /\ Cardinality(Under(I, R, a)) <= Cardinality(Under(I, R, b))
        /\ Cardinality(Under(I, R, b)) # Cardinality(Under(I, R, a))
    BY <1>2, <2>1, FS_Subset
  <2>3. QED
    BY <1>2, <2>2
<1>4. \A j \in I : Cardinality(Under(I, R, j)) + 1 \in 1 .. Cardinality(I)
  BY <1>1, <1>2
<1>5. QED
  BY <1>3, <1>4

\* Each place is taken by one member.
LEMMA PlaceTaken ==
  ASSUME NEW I, IsFiniteSet(I), NEW R, StrictOrder(I, R), NEW p \in 1 .. Cardinality(I)
  PROVE  \E j \in I : /\ Cardinality(Under(I, R, j)) = p - 1
                      /\ \A k \in I : Cardinality(Under(I, R, k)) = p - 1 => k = j
<1> DEFINE F == [j \in I |-> Cardinality(Under(I, R, j)) + 1]
           C == 1 .. Cardinality(I)
<1>1. Cardinality(I) \in Nat
  BY FS_CardinalityType
<1>2. \A j \in I : Cardinality(Under(I, R, j)) \in Int
  <2>1. \A j \in I : IsFiniteSet(Under(I, R, j))
    <3>1. \A j \in I : Under(I, R, j) \in SUBSET I
      BY DEF Under
    <3>2. QED
      BY <3>1, FS_Subset
  <2>2. QED
    BY <2>1, FS_CardinalityType
<1>3. \A j, k \in I : Cardinality(Under(I, R, j)) = Cardinality(Under(I, R, k)) => j = k
  <2> SUFFICES ASSUME NEW j \in I, NEW k \in I, j # k,
                      Cardinality(Under(I, R, j)) = Cardinality(Under(I, R, k))
               PROVE  FALSE
    OBVIOUS
  <2>1. <<j, k>> \in R \/ <<k, j>> \in R
    BY DEF StrictOrder
  <2>2. \/ Cardinality(Under(I, R, j)) < Cardinality(Under(I, R, k))
        \/ Cardinality(Under(I, R, k)) < Cardinality(Under(I, R, j))
    BY <2>1, UnderGrows
  <2>3. QED
    BY <1>2, <2>2
<1>4. F \in [I -> C]
  BY UnderGrows
<1>5. \A j, k \in I : F[j] = F[k] => j = k
  <2>1. \A j, k \in I : F[j] = F[k] =>
          Cardinality(Under(I, R, j)) = Cardinality(Under(I, R, k))
    BY <1>2
  <2>2. QED
    BY <1>3, <2>1
<1>6. IsFiniteSet(C) /\ Cardinality(C) = Cardinality(I)
  BY <1>1, FS_Interval
<1>7. p \in C
  OBVIOUS
<1> HIDE DEF F, C
<1>8. F \in Injection(I, C)
  BY <1>4, <1>5, Fun_IsInj
<1>9. F \in Surjection(I, C)
  BY <1>6, <1>8, FS_Injection
<1>10. PICK j \in I : F[j] = p
  BY <1>7, <1>9 DEF Surjection
<1>11. Cardinality(Under(I, R, j)) = p - 1
  BY <1>1, <1>2, <1>10 DEF F
<1>12. QED
  BY <1>3, <1>11

\* InOrder lists each member once, in the order.
Lists(at, I, R) ==
  /\ at \in [1 .. Cardinality(I) -> I]
  /\ \A j \in I : \E p \in 1 .. Cardinality(I) : at[p] = j
  /\ \A p, q \in 1 .. Cardinality(I) : p < q => <<at[p], at[q]>> \in R

LEMMA InOrderLists ==
  ASSUME NEW I, IsFiniteSet(I), NEW R, StrictOrder(I, R)
  PROVE  Lists(InOrder(I, R), I, R)
<1>1. Cardinality(I) \in Nat
  BY FS_CardinalityType
<1>2. PICK at : at = InOrder(I, R)
  OBVIOUS
<1>3. at = [p \in 1 .. Cardinality(I) |->
              CHOOSE j \in I : Cardinality(Under(I, R, j)) = p - 1]
  BY <1>2 DEF InOrder, Under
<1>4. \A p \in 1 .. Cardinality(I) :
        at[p] \in I /\ Cardinality(Under(I, R, at[p])) = p - 1
  BY <1>3, PlaceTaken
<1>5. at \in [1 .. Cardinality(I) -> I]
  BY <1>3, <1>4
<1>6. ASSUME NEW j \in I
      PROVE  \E p \in 1 .. Cardinality(I) : at[p] = j
  <2>1. PICK p : p = Cardinality(Under(I, R, j)) + 1
    OBVIOUS
  <2>2. Cardinality(Under(I, R, j)) \in Nat
    <3>1. Under(I, R, j) \in SUBSET I
      BY DEF Under
    <3>2. QED
      BY <3>1, FS_Subset, FS_CardinalityType
  <2>3. p \in 1 .. Cardinality(I) /\ Cardinality(Under(I, R, j)) = p - 1
    BY <2>1, <2>2, UnderGrows
  <2>4. at[p] = j
    BY <1>4, <2>3, PlaceTaken
  <2>5. QED
    BY <2>3, <2>4
<1>7. ASSUME NEW p \in 1 .. Cardinality(I), NEW q \in 1 .. Cardinality(I), p < q
      PROVE  <<at[p], at[q]>> \in R
  <2>1. PICK a, b : a = at[p] /\ b = at[q]
    OBVIOUS
  <2>2. a \in I /\ b \in I /\ Cardinality(Under(I, R, a)) = p - 1
        /\ Cardinality(Under(I, R, b)) = q - 1
    BY <1>4, <2>1
  <2>3. p - 1 < q - 1 /\ p - 1 # q - 1 /\ ~(q - 1 < p - 1)
    BY <1>1, <1>7
  <2>4. a # b /\ <<b, a>> \notin R
    BY <2>2, <2>3, UnderGrows
  <2>5. QED
    BY <2>1, <2>2, <2>4 DEF StrictOrder
<1>8. QED
  BY <1>2, <1>5, <1>6, <1>7 DEF Lists

Less(I) == {a \in I \X I : a[1] < a[2]}

LEMMA LessOrders ==
  ASSUME NEW I \in SUBSET Int
  PROVE  StrictOrder(I, Less(I)) /\ \A a, b \in I : <<a, b>> \in Less(I) <=> a < b
<1>1. \A a, b \in I : <<a, b>> \in Less(I) <=> a < b
  BY DEF Less
<1>2. \A a \in I : a \in Int
  OBVIOUS
<1>3. \A a, b, c \in I : a < b /\ b < c => a < c
  BY <1>2
<1>4. \A a, b \in I : ~(a < a) /\ (a # b => a < b \/ b < a)
  BY <1>2
<1>5. QED
  BY <1>1, <1>3, <1>4 DEF StrictOrder

\* t lists the elements of s at the positions in I, each once, by way of at.
Takes(t, s, k, at, I) ==
  /\ at \in [1 .. k -> I]
  /\ t = [p \in 1 .. k |-> s[at[p]]]
  /\ \A j \in I : \E p \in 1 .. k : at[p] = j

Ascends(at, k) == \A p, q \in 1 .. k : p < q => at[p] < at[q]

\* AtPositions takes the elements at the positions of I from left to right.
LEMMA PositionsTaken ==
  ASSUME NEW s, NEW I \in SUBSET Nat, IsFiniteSet(I)
  PROVE  \E k \in Nat : \E at : Takes(AtPositions(s, I), s, k, at, I) /\ Ascends(at, k)
<1>1. PICK at : at = InOrder(I, Less(I))
  OBVIOUS
<1>2. PICK k : k = Cardinality(I)
  OBVIOUS
<1>3. k \in Nat
  BY <1>2, FS_CardinalityType
<1>4. I \in SUBSET Int
  OBVIOUS
<1>5. Lists(at, I, Less(I))
  BY <1>1, <1>4, LessOrders, InOrderLists
<1>6. AtPositions(s, I) = [p \in 1 .. k |-> s[at[p]]]
  BY <1>1, <1>2 DEF AtPositions, Less
<1>7. Takes(AtPositions(s, I), s, k, at, I)
  BY <1>2, <1>5, <1>6 DEF Lists, Takes
<1>8. Ascends(at, k)
  <2>1. ASSUME NEW p \in 1 .. k, NEW q \in 1 .. k, p < q
        PROVE  at[p] < at[q]
    <3>1. at[p] \in I /\ at[q] \in I /\ <<at[p], at[q]>> \in Less(I)
      BY <1>2, <1>5, <2>1 DEF Lists
    <3>2. \A a, b \in I : <<a, b>> \in Less(I) => a < b
      BY <1>4, LessOrders
    <3>3. QED
      BY <3>1, <3>2
  <2>2. QED
    BY <2>1 DEF Ascends
<1>9. QED
  BY <1>3, <1>7, <1>8

-----------------------------------------------------------------------------
(* The row of a directory.                                                   *)

LEMMA LabelsTyped ==
  ASSUME NEW n \in Node
  PROVE  /\ Len(Labels[n]) \in Nat /\ DOMAIN Labels[n] = 1 .. Len(Labels[n])
         /\ \A j \in 1 .. Len(Labels[n]) :
              /\ Labels[n][j].fid \in Fid /\ Labels[n][j].fid \in Nat
              /\ Labels[n][j].child \in Node
<1>1. Labels[n] \in Seq([dirEntry : BOOLEAN, fid : Fid, child : Node])
  BY LabelAssumption
<1>2. Fid \in SUBSET Nat
  BY LabelAssumption
<1>3. Len(Labels[n]) \in Nat /\ DOMAIN Labels[n] = 1 .. Len(Labels[n])
  BY <1>1
<1>4. ASSUME NEW j \in 1 .. Len(Labels[n])
      PROVE  /\ Labels[n][j].fid \in Fid /\ Labels[n][j].fid \in Nat
             /\ Labels[n][j].child \in Node
  BY <1>2, LabelChild
<1>5. QED
  BY <1>3, <1>4

IsWanted(n, j) ==
  Labels[n][j].dirEntry /\ n \in reached /\ Labels[n][j].fid \in requested

WantedAt(n) == {j \in 1 .. Len(Labels[n]) : IsWanted(n, j)}

LEMMA WantedIs ==
  ASSUME NEW n \in Node
  PROVE  \E k \in Nat : \E at :
           Takes(Wanted(n), Labels[n], k, at, WantedAt(n)) /\ Ascends(at, k)
<1>1. WantedAt(n) \in SUBSET (1 .. Len(Labels[n])) /\ Len(Labels[n]) \in Nat
  BY LabelsTyped DEF WantedAt
<1>2. IsFiniteSet(1 .. Len(Labels[n]))
  BY <1>1, FS_Interval
<1>3. IsFiniteSet(WantedAt(n)) /\ WantedAt(n) \in SUBSET Nat
  BY <1>1, <1>2, FS_Subset
<1>4. Wanted(n) = AtPositions(Labels[n], WantedAt(n))
  BY LabelsTyped DEF Wanted, WantedAt, IsWanted
<1>5. QED
  BY <1>3, <1>4, PositionsTaken

Precedes(s, h, j) == s[h].fid < s[j].fid \/ (s[h].fid = s[j].fid /\ h < j)

\* A stable sort: positions go by name, and by place for equal names.
LEMMA SortIs ==
  ASSUME NEW s, NEW k \in Nat, DOMAIN s = 1 .. k, \A j \in 1 .. k : s[j].fid \in Nat
  PROVE  \E at : /\ Takes(SortByFid(s), s, k, at, 1 .. k)
                 /\ \A p, q \in 1 .. k : p < q => Precedes(s, at[p], at[q])
<1>1. PICK I : I = 1 .. k
  OBVIOUS
<1>2. IsFiniteSet(I) /\ Cardinality(I) = k
  BY <1>1, FS_Interval
<1>3. \A a, b \in I : <<a, b>> \in Before(s) <=> Precedes(s, a, b)
  BY <1>1 DEF Before, Precedes
<1>4. StrictOrder(I, Before(s))
  <2>1. ASSUME NEW a \in I, NEW b \in I, NEW c \in I,
               Precedes(s, a, b), Precedes(s, b, c)
        PROVE  Precedes(s, a, c)
    <3>1. /\ a \in Int /\ b \in Int /\ c \in Int
          /\ s[a].fid \in Nat /\ s[b].fid \in Nat /\ s[c].fid \in Nat
      BY <1>1
    <3>2. QED
      BY <2>1, <3>1 DEF Precedes
  <2>2. ASSUME NEW a \in I, NEW b \in I
        PROVE  ~Precedes(s, a, a) /\ (a # b => Precedes(s, a, b) \/ Precedes(s, b, a))
    <3>1. a \in Int /\ b \in Int /\ s[a].fid \in Nat /\ s[b].fid \in Nat
      BY <1>1
    <3>2. QED
      BY <3>1 DEF Precedes
  <2>3. QED
    BY <1>3, <2>1, <2>2 DEF StrictOrder
<1>5. PICK at : at = InOrder(I, Before(s))
  OBVIOUS
<1>6. Lists(at, I, Before(s))
  BY <1>2, <1>4, <1>5, InOrderLists
<1>7. SortByFid(s) = [p \in 1 .. k |-> s[at[p]]]
  BY <1>1, <1>5 DEF SortByFid
<1>8. at \in [1 .. k -> 1 .. k] /\ \A j \in 1 .. k : \E p \in 1 .. k : at[p] = j
  BY <1>1, <1>2, <1>6 DEF Lists
<1>9. \A p, q \in 1 .. k : p < q => Precedes(s, at[p], at[q])
  BY <1>1, <1>2, <1>3, <1>6, <1>8 DEF Lists
<1>10. Takes(SortByFid(s), s, k, at, 1 .. k)
  BY <1>7, <1>8 DEF Takes
<1>11. QED
  BY <1>9, <1>10

StartsRun(s, j) == j = 1 \/ s[j - 1].fid # s[j].fid

RunStarts(s, k) == {j \in 1 .. k : StartsRun(s, j)}

\* Of each run of equal names the first is kept.
LEMMA DedupIs ==
  ASSUME NEW s, NEW k \in Nat, DOMAIN s = 1 .. k
  PROVE  \E m \in Nat : \E at :
           Takes(DedupByFid(s), s, m, at, RunStarts(s, k)) /\ Ascends(at, m)
<1>1. RunStarts(s, k) \in SUBSET (1 .. k)
  BY DEF RunStarts
<1>2. IsFiniteSet(1 .. k)
  BY FS_Interval
<1>3. IsFiniteSet(RunStarts(s, k)) /\ RunStarts(s, k) \in SUBSET Nat
  BY <1>1, <1>2, FS_Subset
<1>4. \A j \in 1 .. k : j - 1 \notin 1 .. k <=> j = 1
  OBVIOUS
<1>5. RunStarts(s, k) =
        {j \in DOMAIN s : j - 1 \notin DOMAIN s \/ s[j - 1].fid # s[j].fid}
  BY <1>4 DEF RunStarts, StartsRun
<1>6. DedupByFid(s) = AtPositions(s, RunStarts(s, k))
  BY <1>5 DEF DedupByFid
<1>7. QED
  BY <1>3, <1>6, PositionsTaken

\* The sorted entries of n, by name and for equal names in label order.
Sorts(t, n, k, at) ==
  /\ Takes(t, Labels[n], k, at, WantedAt(n))
  /\ \A p, q \in 1 .. k : p < q => Precedes(Labels[n], at[p], at[q])

LEMMA WantedSorted ==
  ASSUME NEW n \in Node
  PROVE  \E k \in Nat : \E at : Sorts(SortByFid(Wanted(n)), n, k, at)
<1>0. PICK k \in Nat :
        \E wh : Takes(Wanted(n), Labels[n], k, wh, WantedAt(n)) /\ Ascends(wh, k)
  BY WantedIs
<1>1. PICK wh : Takes(Wanted(n), Labels[n], k, wh, WantedAt(n)) /\ Ascends(wh, k)
  BY <1>0
<1>2. WantedAt(n) \in SUBSET (1 .. Len(Labels[n])) /\ Len(Labels[n]) \in Nat
  BY LabelsTyped DEF WantedAt
<1>3. PICK w : w = Wanted(n)
  OBVIOUS
<1>4. /\ w = [p \in 1 .. k |-> Labels[n][wh[p]]] /\ wh \in [1 .. k -> WantedAt(n)]
      /\ \A j \in WantedAt(n) : \E p \in 1 .. k : wh[p] = j
  BY <1>1, <1>3 DEF Takes
<1>5. DOMAIN w = 1 .. k /\ \A p \in 1 .. k : w[p] = Labels[n][wh[p]] /\ w[p].fid \in Nat
  <2>1. DOMAIN w = 1 .. k /\ \A p \in 1 .. k : w[p] = Labels[n][wh[p]]
    BY <1>4
  <2>2. \A p \in 1 .. k : wh[p] \in 1 .. Len(Labels[n])
    BY <1>2, <1>4
  <2>3. QED
    BY <2>1, <2>2, LabelsTyped
<1>6. PICK so : /\ Takes(SortByFid(w), w, k, so, 1 .. k)
                /\ \A p, q \in 1 .. k : p < q => Precedes(w, so[p], so[q])
  BY <1>5, SortIs
<1>7. /\ so \in [1 .. k -> 1 .. k] /\ SortByFid(w) = [p \in 1 .. k |-> w[so[p]]]
      /\ \A j \in 1 .. k : \E p \in 1 .. k : so[p] = j
  BY <1>6 DEF Takes
<1>8. PICK at : at = [p \in 1 .. k |-> wh[so[p]]]
  OBVIOUS
<1>9. SortByFid(w) = [p \in 1 .. k |-> Labels[n][at[p]]]
  <2>1. \A p \in 1 .. k : w[so[p]] = Labels[n][at[p]]
    BY <1>5, <1>7, <1>8
  <2>2. QED
    BY <1>7, <2>1
<1>10. at \in [1 .. k -> WantedAt(n)]
  BY <1>4, <1>7, <1>8
<1>11. ASSUME NEW j \in WantedAt(n)
       PROVE  \E p \in 1 .. k : at[p] = j
  <2>1. PICK q \in 1 .. k : wh[q] = j
    BY <1>4
  <2>2. PICK p \in 1 .. k : so[p] = q
    BY <1>7
  <2>3. at[p] = j
    BY <1>8, <2>1, <2>2
  <2>4. QED
    BY <2>3
<1>12. ASSUME NEW p \in 1 .. k, NEW q \in 1 .. k, p < q
       PROVE  Precedes(Labels[n], at[p], at[q])
  <2>1. so[p] \in 1 .. k /\ so[q] \in 1 .. k /\ Precedes(w, so[p], so[q])
    BY <1>6, <1>7, <1>12
  <2>2. at[p] = wh[so[p]] /\ at[q] = wh[so[q]]
    BY <1>8
  <2>3. w[so[p]] = Labels[n][at[p]] /\ w[so[q]] = Labels[n][at[q]]
    BY <1>5, <2>1, <2>2
  <2>4. so[p] < so[q] => at[p] < at[q]
    BY <1>1, <2>1, <2>2 DEF Ascends
  <2>5. QED
    BY <2>1, <2>3, <2>4 DEF Precedes
<1>13. Takes(SortByFid(w), Labels[n], k, at, WantedAt(n))
  BY <1>9, <1>10, <1>11 DEF Takes
<1>14. QED
  BY <1>3, <1>12, <1>13 DEF Sorts

\* What scanning a directory leaves of it: each requested name once, ascending,
\* with the entry the direct walk would take.
EntryOf(n, f) ==
  [fid |-> f, child |-> DirectStep(n, f), ty |-> NodeType[DirectStep(n, f)]]

RowExact(n) ==
  /\ Row(n) \in Seq([fid : Fid, child : Node, ty : {NodeType[c] : c \in Node}])
  /\ \A p \in 1 .. Len(Row(n)) :
       /\ Row(n)[p] = EntryOf(n, Row(n)[p].fid)
       /\ Row(n)[p].fid \in Nat /\ Row(n)[p].fid \in requested
       /\ DirectStep(n, Row(n)[p].fid) # NoNode /\ n \in reached
  /\ \A p, q \in 1 .. Len(Row(n)) : p < q => Row(n)[p].fid < Row(n)[q].fid
  /\ n \in reached =>
       \A f \in requested : Hits(n, f) # {} =>
         \E p \in 1 .. Len(Row(n)) : Row(n)[p].fid = f

LEMMA RowIs ==
  ASSUME NEW n \in Node
  PROVE  RowExact(n)
<1> DEFINE lab(j) == Labels[n][j]
<1>0. PICK k \in Nat : \E at : Sorts(SortByFid(Wanted(n)), n, k, at)
  BY WantedSorted
<1>1. PICK at : Sorts(SortByFid(Wanted(n)), n, k, at)
  BY <1>0
<1>2. PICK s : s = SortByFid(Wanted(n))
  OBVIOUS
<1>3. /\ at \in [1 .. k -> WantedAt(n)] /\ s = [p \in 1 .. k |-> lab(at[p])]
      /\ \A j \in WantedAt(n) : \E p \in 1 .. k : at[p] = j
      /\ \A p, q \in 1 .. k : p < q => Precedes(Labels[n], at[p], at[q])
  BY <1>1, <1>2 DEF Sorts, Takes
<1>4. DOMAIN s = 1 .. k /\ \A p \in 1 .. k : s[p] = lab(at[p])
  BY <1>3
<1>5. \A j \in WantedAt(n) :
        /\ j \in 1 .. Len(Labels[n]) /\ j \in Nat /\ lab(j).fid \in Fid
        /\ lab(j).fid \in Nat /\ lab(j).child \in Node
        /\ lab(j).fid \in requested /\ n \in reached /\ j \in Hits(n, lab(j).fid)
  BY LabelsTyped DEF WantedAt, IsWanted, Hits, IsNamed
<1>6. \A p \in 1 .. k : s[p].fid \in Nat /\ at[p] \in Nat /\ at[p] \in WantedAt(n)
  BY <1>3, <1>4, <1>5
<1>7. \A p, q \in 1 .. k : p < q =>
        s[p].fid < s[q].fid \/ (s[p].fid = s[q].fid /\ at[p] < at[q])
  BY <1>3, <1>4 DEF Precedes
<1>8. ASSUME NEW p \in 1 .. k, NEW q \in 1 .. k, p < q, StartsRun(s, q)
      PROVE  s[p].fid < s[q].fid
  <2>1. q - 1 \in 1 .. k /\ (p < q - 1 \/ p = q - 1) /\ q - 1 < q /\ q # 1
    BY <1>8
  <2>2. s[q - 1].fid # s[q].fid
    BY <1>8, <2>1 DEF StartsRun
  <2>3. s[q - 1].fid < s[q].fid
    BY <1>7, <2>1, <2>2
  <2>4. s[p].fid <= s[q - 1].fid
    BY <1>6, <1>7, <2>1
  <2>5. s[p].fid \in Nat /\ s[q - 1].fid \in Nat /\ s[q].fid \in Nat
    BY <1>6, <2>1
  <2>6. QED
    BY <2>3, <2>4, <2>5
<1>9. ASSUME NEW p \in 1 .. k, StartsRun(s, p)
      PROVE  DirectStep(n, s[p].fid) = s[p].child
  <2>1. at[p] \in Hits(n, s[p].fid)
    BY <1>4, <1>5, <1>6
  <2>2. ASSUME NEW h \in Hits(n, s[p].fid)
        PROVE  at[p] <= h
    <3>1. h \in WantedAt(n) /\ lab(h).fid = s[p].fid
      <4>1. n \in reached /\ s[p].fid \in requested
        BY <1>4, <1>5, <1>6
      <4>2. QED
        BY <2>2, <4>1 DEF Hits, IsNamed, WantedAt, IsWanted
    <3>2. PICK q \in 1 .. k : at[q] = h
      BY <1>3, <3>1
    <3>3. s[q].fid = s[p].fid
      BY <1>4, <3>1, <3>2
    <3>4. s[q].fid \in Nat /\ s[p].fid \in Nat
      BY <1>6
    <3>5. ~(q < p)
      BY <1>8, <1>9, <3>3, <3>4
    <3>6. p = q \/ p < q
      BY <3>5
    <3>7. p < q => at[p] < at[q]
      BY <1>7, <3>3, <3>4
    <3>8. at[p] \in Nat /\ at[q] \in Nat
      BY <1>6
    <3>9. QED
      BY <3>2, <3>6, <3>7, <3>8
  <2>3. DirectStep(n, s[p].fid) = Labels[n][at[p]].child
    BY <2>1, <2>2, DirectStepIs
  <2>4. QED
    BY <1>4, <2>3
<1>9a. PICK m \in Nat :
         \E pl : Takes(DedupByFid(s), s, m, pl, RunStarts(s, k)) /\ Ascends(pl, m)
  BY <1>4, DedupIs
<1>10. PICK pl : Takes(DedupByFid(s), s, m, pl, RunStarts(s, k)) /\ Ascends(pl, m)
  BY <1>9a
<1>11. PICK d : d = DedupByFid(s)
  OBVIOUS
<1>12. /\ DOMAIN d = 1 .. m
       /\ \A p \in 1 .. m : d[p] = s[pl[p]] /\ pl[p] \in 1 .. k /\ StartsRun(s, pl[p])
       /\ \A j \in RunStarts(s, k) : \E p \in 1 .. m : pl[p] = j
       /\ \A p, q \in 1 .. m : p < q => pl[p] < pl[q]
  BY <1>10, <1>11 DEF Takes, Ascends, RunStarts
<1>13. PICK row : row = Row(n)
  OBVIOUS
<1>14. row = [j \in 1 .. m |-> [fid |-> d[j].fid, child |-> d[j].child,
                                ty |-> NodeType[d[j].child]]]
  BY <1>2, <1>11, <1>12, <1>13 DEF Row
<1>15. ASSUME NEW p \in 1 .. m
       PROVE  /\ row[p].fid = s[pl[p]].fid
              /\ row[p] = EntryOf(n, row[p].fid)
              /\ row[p].fid \in Nat /\ row[p].fid \in Fid /\ row[p].fid \in requested
              /\ DirectStep(n, row[p].fid) # NoNode /\ n \in reached
              /\ row[p] \in [fid : Fid, child : Node, ty : {NodeType[c] : c \in Node}]
  <2>1. PICK j \in 1 .. k : j = pl[p] /\ d[p] = s[j] /\ StartsRun(s, j)
    BY <1>12
  <2>2. row[p] = [fid |-> s[j].fid, child |-> s[j].child, ty |-> NodeType[s[j].child]]
    BY <1>14, <2>1
  <2>3. DirectStep(n, s[j].fid) = s[j].child
    BY <1>9, <2>1
  <2>4. /\ s[j].fid \in Fid /\ s[j].fid \in Nat /\ s[j].child \in Node
        /\ s[j].fid \in requested /\ n \in reached
    BY <1>4, <1>5, <1>6
  <2>5. s[j].child # NoNode
    BY <2>4, NoNodeIsNoNode
  <2>6. row[p].fid = s[j].fid
    BY <2>2
  <2>7. row[p] = EntryOf(n, row[p].fid)
    BY <2>2, <2>3, <2>6 DEF EntryOf
  <2>8. row[p] \in [fid : Fid, child : Node, ty : {NodeType[c] : c \in Node}]
    BY <2>2, <2>4
  <2>9. QED
    BY <2>1, <2>3, <2>4, <2>5, <2>6, <2>7, <2>8
<1>16. ASSUME NEW p \in 1 .. m, NEW q \in 1 .. m, p < q
       PROVE  row[p].fid < row[q].fid
  <2>1. /\ pl[p] \in 1 .. k /\ pl[q] \in 1 .. k /\ pl[p] < pl[q] /\ StartsRun(s, pl[q])
        /\ row[p].fid = s[pl[p]].fid /\ row[q].fid = s[pl[q]].fid
    BY <1>12, <1>15, <1>16
  <2>2. QED
    BY <1>8, <2>1
<1>17. ASSUME n \in reached, NEW f \in requested, Hits(n, f) # {}
       PROVE  \E p \in 1 .. m : row[p].fid = f
  <2>1. PICK h : h \in Hits(n, f)
    BY <1>17
  <2>2. h \in WantedAt(n) /\ lab(h).fid = f
    BY <1>17, <2>1 DEF Hits, IsNamed, WantedAt, IsWanted
  <2>3. PICK q \in 1 .. k : at[q] = h
    BY <1>3, <2>2
  <2>4. PICK T : T = {j \in 1 .. k : s[j].fid = f}
    OBVIOUS
  <2>5. q \in T
    BY <1>4, <2>2, <2>3, <2>4
  <2>6. T \in SUBSET Nat
    BY <2>4
  <2>7. PICK j \in T : \A i \in T : j <= i
    BY <2>5, <2>6, LeastOf
  <2>8. j \in 1 .. k /\ s[j].fid = f
    BY <2>4, <2>7
  <2>9. StartsRun(s, j)
    <3>1. SUFFICES ASSUME j # 1, s[j - 1].fid = s[j].fid
                   PROVE  FALSE
      BY DEF StartsRun
    <3>2. j - 1 \in 1 .. k /\ ~(j <= j - 1)
      BY <2>8, <3>1
    <3>3. j - 1 \in T
      BY <2>4, <2>8, <3>1, <3>2
    <3>4. QED
      BY <2>7, <3>2, <3>3
  <2>10. PICK p \in 1 .. m : pl[p] = j
    BY <1>12, <2>8, <2>9 DEF RunStarts
  <2>11. row[p].fid = f
    BY <1>15, <2>8, <2>10
  <2>12. QED
    BY <2>11
<1>18. DOMAIN row = 1 .. m /\ Len(row) = m
  BY <1>14
<1>19. row \in Seq([fid : Fid, child : Node, ty : {NodeType[c] : c \in Node}])
  <2>1. PICK E : E = [fid : Fid, child : Node, ty : {NodeType[c] : c \in Node}]
    OBVIOUS
  <2>2. row = [j \in 1 .. m |-> row[j]]
    BY <1>14
  <2>3. row \in [1 .. m -> E]
    BY <1>15, <2>1, <2>2
  <2>4. row \in Seq(E)
    BY <2>3, SeqDef
  <2>5. QED
    BY <2>1, <2>4
<1>20. \A p \in 1 .. Len(row) :
         /\ row[p] = EntryOf(n, row[p].fid)
         /\ row[p].fid \in Nat /\ row[p].fid \in requested
         /\ DirectStep(n, row[p].fid) # NoNode /\ n \in reached
  BY <1>15, <1>18
<1>21. \A p, q \in 1 .. Len(row) : p < q => row[p].fid < row[q].fid
  BY <1>16, <1>18
<1>22. n \in reached =>
         \A f \in requested : Hits(n, f) # {} =>
           \E p \in 1 .. Len(row) : row[p].fid = f
  BY <1>17, <1>18
<1>23. QED
  BY <1>13, <1>19, <1>20, <1>21, <1>22 DEF RowExact

-----------------------------------------------------------------------------
(* Running sums.                                                             *)

\* t holds the sums of g's first i values on top of start.
Sums(t, i, start, g) ==
  t[0] = start /\ \A j \in 1 .. i : t[j] = t[j - 1] + g[j]

SumsUpTo(t, i, start, g) == t \in [0 .. i -> Nat] /\ Sums(t, i, start, g)

LEMMA SumsExist ==
  ASSUME NEW l \in Nat, NEW start \in Nat, NEW g, \A j \in 1 .. l : g[j] \in Nat
  PROVE  \E t : SumsUpTo(t, l, start, g)
<1> DEFINE Reached == {i \in Nat : i <= l => \E t : SumsUpTo(t, i, start, g)}
<1>1. 0 \in Reached
  <2>1. SumsUpTo([m \in 0 .. 0 |-> start], 0, start, g)
    BY DEF SumsUpTo, Sums
  <2>2. QED
    BY <2>1
<1>2. ASSUME NEW i \in Nat, i \in Reached
      PROVE  i + 1 \in Reached
  <2>0. SUFFICES ASSUME i + 1 <= l
                 PROVE  \E t : SumsUpTo(t, i + 1, start, g)
    OBVIOUS
  <2>a. i <= l /\ i + 1 \in 1 .. l
    BY <2>0
  <2>b. PICK t : SumsUpTo(t, i, start, g)
    BY <1>2, <2>a
  <2>1. /\ t \in [0 .. i -> Nat] /\ t[0] = start
        /\ \A j \in 1 .. i : t[j] = t[j - 1] + g[j]
    BY <2>b DEF SumsUpTo, Sums
  <2>2. i \in 0 .. i /\ i + 1 \in 1 .. l /\ g[i + 1] \in Nat /\ t[i] \in Nat
    BY <2>1, <2>a
  <2>3. PICK u : u = [m \in 0 .. i + 1 |-> IF m \in 0 .. i THEN t[m] ELSE t[i] + g[i + 1]]
    OBVIOUS
  <2>4. u \in [0 .. i + 1 -> Nat] /\ u[0] = start
    BY <2>1, <2>2, <2>3
  <2>5. ASSUME NEW j \in 1 .. i + 1
        PROVE  u[j] = u[j - 1] + g[j]
    <3>1. CASE j \in 1 .. i
      <4>1. j - 1 \in 0 .. i /\ j \in 0 .. i
        BY <3>1
      <4>2. u[j] = t[j] /\ u[j - 1] = t[j - 1]
        BY <2>3, <4>1
      <4>3. QED
        BY <2>1, <3>1, <4>2
    <3>2. CASE j = i + 1
      <4>1. j - 1 = i /\ i \in 0 .. i /\ ~(j \in 0 .. i) /\ i \in 0 .. i + 1
        BY <3>2
      <4>2. u[j] = t[i] + g[i + 1] /\ u[j - 1] = t[i]
        BY <2>3, <3>2, <4>1
      <4>3. QED
        BY <3>2, <4>2
    <3>3. QED
      BY <3>1, <3>2
  <2>6. SumsUpTo(u, i + 1, start, g)
    BY <2>4, <2>5 DEF SumsUpTo, Sums
  <2>7. QED
    BY <2>6
<1>3. \A i \in Nat : i \in Reached
  <2>1. \A i \in Nat : i \in Reached => i + 1 \in Reached
    BY <1>2
  <2> HIDE DEF Reached
  <2>2. QED
    BY <1>1, <2>1, InductionInSet
<1>4. l \in Reached /\ l <= l
  BY <1>3
<1>5. QED
  BY <1>4

\* A function that unfolds like such sums has numbers for values.
LEMMA SumsTyped ==
  ASSUME NEW l \in Nat, NEW start \in Nat, NEW g, \A j \in 1 .. l : g[j] \in Nat,
         NEW a, Sums(a, l, start, g)
  PROVE  \A j \in 0 .. l : a[j] \in Nat
<1> DEFINE S == {i \in Nat : i <= l => a[i] \in Nat}
<1>1. 0 \in S
  BY DEF Sums
<1>2. ASSUME NEW i \in Nat, i \in S
      PROVE  i + 1 \in S
  <2>1. i + 1 <= l => i + 1 \in 1 .. l /\ (i + 1) - 1 = i
    OBVIOUS
  <2>2. QED
    BY <1>2, <2>1 DEF Sums
<1>3. \A i \in Nat : i \in S
  <2>1. \A i \in Nat : i \in S => i + 1 \in S
    BY <1>2
  <2> HIDE DEF S
  <2>2. QED
    BY <1>1, <2>1, InductionInSet
<1>4. QED
  BY <1>3

LEMMA PrefixSumsIs ==
  ASSUME NEW start \in Nat, NEW c \in Seq(Nat)
  PROVE  \E t \in [0 .. Len(c) -> Nat] :
           /\ Sums(t, Len(c), start, c)
           /\ PrefixSums(start, c) = [j \in 1 .. Len(c) |-> t[j]]
<1> DEFINE l == Len(c)
           Solves(t) == t = [j \in 0 .. l |-> IF j = 0 THEN start ELSE t[j - 1] + c[j]]
<1>1. l \in Nat /\ \A j \in 1 .. l : c[j] \in Nat
  OBVIOUS
<1>2. PICK t : SumsUpTo(t, l, start, c)
  BY <1>1, SumsExist
<1>3. Solves(t)
  <2>1. \A j \in 0 .. l : j = 0 \/ j \in 1 .. l
    BY <1>1
  <2>2. \A j \in 0 .. l : t[j] = IF j = 0 THEN start ELSE t[j - 1] + c[j]
    BY <1>2, <2>1 DEF SumsUpTo, Sums
  <2>3. QED
    BY <1>2, <2>2 DEF SumsUpTo
<1>4. PICK a : a = CHOOSE b : Solves(b)
  OBVIOUS
<1>5. Solves(a)
  BY <1>3, <1>4
<1>6. Sums(a, l, start, c)
  <2>1. \A j \in 0 .. l : a[j] = IF j = 0 THEN start ELSE a[j - 1] + c[j]
    BY <1>5
  <2>2. 0 \in 0 .. l /\ \A j \in 1 .. l : j \in 0 .. l /\ j # 0
    BY <1>1
  <2>3. QED
    BY <2>1, <2>2 DEF Sums
<1>7. \A j \in 0 .. l : a[j] \in Nat
  BY <1>1, <1>6, SumsTyped
<1>8. a \in [0 .. l -> Nat]
  BY <1>5, <1>7
<1>9. PrefixSums(start, c) = [j \in 1 .. l |-> a[j]]
  BY <1>4 DEF PrefixSums
<1>10. QED
  BY <1>6, <1>8, <1>9 DEF Sums

LEMMA SumOverIs ==
  ASSUME NEW f, \A w \in Workers : f[w] \in Nat
  PROVE  \E t \in [0 .. K -> Nat] :
           /\ t[0] = 0 /\ \A w \in Workers : t[w + 1] = t[w] + f[w]
           /\ SumOver(f) = t[K]
<1> DEFINE Solves(t) == t = [w \in 0 .. K |-> IF w = 0 THEN 0 ELSE t[w - 1] + f[w - 1]]
<1>1. K \in Nat /\ \A j \in 1 .. K : f[j - 1] \in Nat
  BY HydrateAssumption DEF Workers
<1>2. PICK g : g = [j \in 1 .. K |-> f[j - 1]]
  OBVIOUS
<1>3. \A j \in 1 .. K : g[j] \in Nat /\ g[j] = f[j - 1]
  BY <1>1, <1>2
<1>4. PICK t : SumsUpTo(t, K, 0, g)
  BY <1>1, <1>3, SumsExist
<1>5. Solves(t)
  <2>1. \A j \in 0 .. K : j = 0 \/ j \in 1 .. K
    BY <1>1
  <2>2. \A j \in 0 .. K : t[j] = IF j = 0 THEN 0 ELSE t[j - 1] + f[j - 1]
    BY <1>3, <1>4, <2>1 DEF SumsUpTo, Sums
  <2>3. QED
    BY <1>4, <2>2 DEF SumsUpTo
<1>6. PICK a : a = CHOOSE b : Solves(b)
  OBVIOUS
<1>7. Solves(a)
  BY <1>5, <1>6
<1>8. Sums(a, K, 0, g)
  BY <1>1, <1>3, <1>7 DEF Sums
<1>9. \A j \in 0 .. K : a[j] \in Nat
  BY <1>1, <1>3, <1>8, SumsTyped
<1>10. a \in [0 .. K -> Nat]
  BY <1>7, <1>9
<1>11. ASSUME NEW w \in Workers
       PROVE  a[w + 1] = a[w] + f[w]
  <2>1. w + 1 \in 1 .. K /\ (w + 1) - 1 = w
    BY <1>1 DEF Workers
  <2>2. QED
    BY <1>3, <1>8, <2>1 DEF Sums
<1>12. SumOver(f) = a[K]
  BY <1>6 DEF SumOver
<1>13. QED
  BY <1>8, <1>10, <1>11, <1>12 DEF Sums

-----------------------------------------------------------------------------
(* The rows of all nodes, and where they belong in the CSR.                  *)

Entry == [fid : Fid, child : Node, ty : {NodeType[c] : c \in Node}]

Rows == [n \in Node |-> Row(n)]

\* Of the nodes below m: how many have a row, and how many entries they have.
Tally(g) == CHOOSE t : SumsUpTo(t, NumNodes, 0, [j \in 1 .. NumNodes |-> g[j - 1]])

Rank(rows) == Tally([n \in Node |-> IF rows[n] # <<>> THEN 1 ELSE 0])
Offset(rows) == Tally([n \in Node |-> Len(rows[n])])

LEMMA NodesAre ==
  /\ NumNodes \in Nat
  /\ \A n \in Node : /\ n \in Nat /\ n \in 0 .. NumNodes /\ n + 1 \in 0 .. NumNodes
                     /\ n < NumNodes
  /\ \A n \in Nat : n < NumNodes => n \in Node
BY GraphAssumption DEF Node

LEMMA TallyIs ==
  ASSUME NEW g \in [Node -> Nat]
  PROVE  /\ Tally(g) \in [0 .. NumNodes -> Nat] /\ Tally(g)[0] = 0
         /\ \A n \in Node : Tally(g)[n + 1] = Tally(g)[n] + g[n]
<1>1. PICK h : h = [j \in 1 .. NumNodes |-> g[j - 1]]
  OBVIOUS
<1>2. \A j \in 1 .. NumNodes : h[j] = g[j - 1] /\ h[j] \in Nat
  <2>1. \A j \in 1 .. NumNodes : j - 1 \in Node
    BY NodesAre
  <2>2. QED
    BY <1>1, <2>1
<1>3. \E t : SumsUpTo(t, NumNodes, 0, h)
  BY <1>2, NodesAre, SumsExist
<1>4. SumsUpTo(Tally(g), NumNodes, 0, h)
  BY <1>1, <1>3 DEF Tally
<1>5. ASSUME NEW n \in Node
      PROVE  Tally(g)[n + 1] = Tally(g)[n] + g[n]
  <2>1. n + 1 \in 1 .. NumNodes /\ (n + 1) - 1 = n
    BY NodesAre
  <2>2. QED
    BY <1>2, <1>4, <2>1 DEF SumsUpTo, Sums
<1>6. QED
  BY <1>4, <1>5 DEF SumsUpTo, Sums

\* The shape of both tallies.
Tallies(rows, C, T) ==
  /\ C \in [0 .. NumNodes -> Nat] /\ C[0] = 0
  /\ T \in [0 .. NumNodes -> Nat] /\ T[0] = 0
  /\ \A n \in Node :
       /\ C[n + 1] = IF rows[n] # <<>> THEN C[n] + 1 ELSE C[n]
       /\ T[n + 1] = T[n] + Len(rows[n])

LEMMA TalliesAre ==
  ASSUME NEW rows \in [Node -> Seq(Entry)]
  PROVE  Tallies(rows, Rank(rows), Offset(rows))
<1>1. PICK g : g = [n \in Node |-> IF rows[n] # <<>> THEN 1 ELSE 0]
  OBVIOUS
<1>2. PICK h : h = [n \in Node |-> Len(rows[n])]
  OBVIOUS
<1>3. g \in [Node -> Nat] /\ h \in [Node -> Nat]
  BY <1>1, <1>2
<1>4. Rank(rows) = Tally(g) /\ Offset(rows) = Tally(h)
  BY <1>1, <1>2 DEF Rank, Offset
<1>5. ASSUME NEW n \in Node
      PROVE  /\ Rank(rows)[n + 1] = IF rows[n] # <<>> THEN Rank(rows)[n] + 1
                                                       ELSE Rank(rows)[n]
             /\ Offset(rows)[n + 1] = Offset(rows)[n] + Len(rows[n])
  <2>1. Tally(g)[n + 1] = Tally(g)[n] + g[n] /\ Tally(h)[n + 1] = Tally(h)[n] + h[n]
    BY <1>3, TallyIs
  <2>2. Tally(g)[n] \in Nat
    BY <1>3, TallyIs, NodesAre
  <2>3. g[n] = (IF rows[n] # <<>> THEN 1 ELSE 0) /\ h[n] = Len(rows[n])
    BY <1>1, <1>2
  <2>4. QED
    BY <1>4, <2>1, <2>2, <2>3
<1>6. QED
  BY <1>3, <1>4, <1>5, TallyIs DEF Tallies

LEMMA EmptyRow ==
  ASSUME NEW s \in Seq(Entry)
  PROVE  /\ Len(s) \in Nat /\ (s = <<>> <=> Len(s) = 0)
         /\ \A j \in 1 .. Len(s) : s[j] \in Entry
BY EmptySeq

\* Both tallies only grow, and the second grows only with the first.
LEMMA TalliesGrow ==
  ASSUME NEW rows \in [Node -> Seq(Entry)], NEW C, NEW T, Tallies(rows, C, T),
         NEW m \in 0 .. NumNodes, NEW l \in 0 .. NumNodes, m <= l
  PROVE  C[m] <= C[l] /\ T[m] <= T[l] /\ (C[m] = C[l] => T[m] = T[l])
<1> DEFINE P(i) == C[m] <= C[i] /\ T[m] <= T[i] /\ (C[m] = C[i] => T[m] = T[i])
           S == {i \in Nat : m <= i /\ i <= NumNodes => P(i)}
<1>1. \A i \in 0 .. NumNodes : C[i] \in Nat /\ T[i] \in Nat
  BY DEF Tallies
<1>2. 0 \in S
  BY <1>1
<1>3. ASSUME NEW i \in Nat, i \in S
      PROVE  i + 1 \in S
  <2>0. SUFFICES ASSUME m <= i + 1, i + 1 <= NumNodes
                 PROVE  P(i + 1)
    OBVIOUS
  <2>1. i \in Node /\ i \in 0 .. NumNodes /\ i + 1 \in 0 .. NumNodes /\ i <= NumNodes
    BY <2>0, NodesAre
  <2>2. CASE m = i + 1
    <3>1. C[m] \in Nat /\ T[m] \in Nat
      BY <1>1
    <3>2. QED
      BY <2>2, <3>1
  <2>3. CASE m <= i
    <3>1. P(i)
      BY <1>3, <2>1, <2>3
    <3>2. /\ rows[i] \in Seq(Entry) /\ T[i + 1] = T[i] + Len(rows[i])
          /\ C[i + 1] = IF rows[i] # <<>> THEN C[i] + 1 ELSE C[i]
      BY <2>1 DEF Tallies
    <3>3. Len(rows[i]) \in Nat /\ (rows[i] = <<>> <=> Len(rows[i]) = 0)
      BY <3>2, EmptyRow
    <3>4. C[m] \in Nat /\ C[i] \in Nat /\ T[m] \in Nat /\ T[i] \in Nat
      BY <1>1, <2>1
    <3>5. CASE rows[i] = <<>>
      <4>1. C[i + 1] = C[i] /\ T[i + 1] = T[i]
        BY <3>2, <3>3, <3>4, <3>5
      <4>2. QED
        BY <3>1, <4>1
    <3>6. CASE rows[i] # <<>>
      <4>1. C[i + 1] = C[i] + 1 /\ T[i] <= T[i + 1] /\ T[i + 1] \in Nat
        BY <3>2, <3>3, <3>4, <3>6
      <4>2. C[m] <= C[i + 1] /\ C[m] # C[i + 1] /\ T[m] <= T[i + 1]
        BY <3>1, <3>4, <4>1
      <4>3. QED
        BY <4>2
    <3>7. QED
      BY <3>5, <3>6
  <2>4. QED
    BY <2>0, <2>2, <2>3
<1>4. \A i \in Nat : i \in S
  <2>1. \A i \in Nat : i \in S => i + 1 \in S
    BY <1>3
  <2> HIDE DEF S
  <2>2. QED
    BY <1>2, <2>1, InductionInSet
<1>5. QED
  BY <1>4

\* Every rank is that of a node with a row.
LEMMA RankTaken ==
  ASSUME NEW rows \in [Node -> Seq(Entry)], NEW C, NEW T, Tallies(rows, C, T),
         NEW b \in 0 .. NumNodes, NEW r \in Nat, r < C[b]
  PROVE  \E n \in Node : n < b /\ rows[n] # <<>> /\ C[n] = r
<1>1. PICK S : S = {m \in 0 .. b : r < C[m]}
  OBVIOUS
<1>2. b \in S /\ S \in SUBSET Nat
  BY <1>1
<1>3. PICK m \in S : \A i \in S : m <= i
  BY <1>2, LeastOf
<1>4. m \in 0 .. b /\ r < C[m]
  BY <1>1, <1>3
<1>5. C[0] = 0 /\ \A i \in 0 .. NumNodes : C[i] \in Nat
  BY DEF Tallies
<1>6. m # 0
  BY <1>4, <1>5
<1>7. PICK n : n = m - 1
  OBVIOUS
<1>8. n \in 0 .. b /\ n + 1 = m /\ n < b /\ n \in Node /\ n \in 0 .. NumNodes /\ ~(m <= n)
  BY <1>4, <1>6, <1>7, NodesAre
<1>9. ~(r < C[n])
  BY <1>1, <1>3, <1>8
<1>10. C[m] = IF rows[n] # <<>> THEN C[n] + 1 ELSE C[n]
  BY <1>8 DEF Tallies
<1>11. C[n] \in Nat
  BY <1>5, <1>8
<1>12. rows[n] # <<>> /\ C[n] = r
  BY <1>4, <1>9, <1>10, <1>11
<1>13. QED
  BY <1>8, <1>12

\* A node with a row raises the rank of all after it.
LEMMA RankAfter ==
  ASSUME NEW rows \in [Node -> Seq(Entry)], NEW C, NEW T, Tallies(rows, C, T),
         NEW n \in Node, rows[n] # <<>>, NEW m \in 0 .. NumNodes, n < m
  PROVE  C[n] + 1 <= C[m] /\ C[n + 1] = C[n] + 1
<1>1. n + 1 \in 0 .. NumNodes /\ n + 1 <= m
  BY NodesAre
<1>2. C[n + 1] <= C[m]
  BY <1>1, TalliesGrow
<1>3. C[n + 1] = C[n] + 1
  BY DEF Tallies
<1>4. QED
  BY <1>2, <1>3

\* The place of each entry is its own.
LEMMA OffsetAfter ==
  ASSUME NEW rows \in [Node -> Seq(Entry)], NEW C, NEW T, Tallies(rows, C, T),
         NEW n \in Node, NEW m \in 0 .. NumNodes, n < m
  PROVE  T[n] + Len(rows[n]) <= T[m] /\ T[n + 1] = T[n] + Len(rows[n])
<1>1. n + 1 \in 0 .. NumNodes /\ n + 1 <= m
  BY NodesAre
<1>2. T[n + 1] <= T[m]
  BY <1>1, TalliesGrow
<1>3. T[n + 1] = T[n] + Len(rows[n])
  BY DEF Tallies
<1>4. QED
  BY <1>2, <1>3

LEMMA RowsTyped ==
  /\ Rows \in [Node -> Seq(Entry)]
  /\ \A n \in Node : Rows[n] = Row(n)
<1>1. \A n \in Node : Row(n) \in Seq(Entry)
  BY RowIs DEF RowExact, Entry
<1>2. QED
  BY <1>1 DEF Rows

-----------------------------------------------------------------------------
(* What a shard holds of the nodes from lo to hi, and how it grows.          *)

Shard == [dirs : Seq(Node), counts : Seq(Nat), ent : Seq(Entry)]

DirsGathered(rows, C, s, lo, hi) ==
  /\ Len(s.dirs) + C[lo] = C[hi] /\ Len(s.counts) = Len(s.dirs)
  /\ \A a \in 1 .. Len(s.dirs) :
       /\ lo <= s.dirs[a] /\ s.dirs[a] < hi /\ rows[s.dirs[a]] # <<>>
       /\ C[s.dirs[a]] + 1 = C[lo] + a
       /\ s.counts[a] = Len(rows[s.dirs[a]])

EntriesGathered(rows, T, s, lo, hi) ==
  /\ Len(s.ent) + T[lo] = T[hi]
  /\ \A n \in Node : lo <= n /\ n < hi =>
       \A j \in 1 .. Len(rows[n]) : s.ent[T[n] - T[lo] + j] = rows[n][j]

Gathered(rows, C, T, s, lo, hi) ==
  /\ s \in Shard
  /\ DirsGathered(rows, C, s, lo, hi)
  /\ EntriesGathered(rows, T, s, lo, hi)

LEMMA GatherNothing ==
  ASSUME NEW rows \in [Node -> Seq(Entry)], NEW C, NEW T, Tallies(rows, C, T),
         NEW lo \in 0 .. NumNodes
  PROVE  Gathered(rows, C, T, EmptyShard, lo, lo)
<1>1. PICK s : s = EmptyShard
  OBVIOUS
<1>2. s.dirs = <<>> /\ s.counts = <<>> /\ s.ent = <<>> /\ s \in Shard
  BY <1>1, EmptySeq DEF EmptyShard, Shard
<1>3. Len(s.dirs) = 0 /\ Len(s.counts) = 0 /\ Len(s.ent) = 0
  BY <1>2, EmptySeq
<1>4. C[lo] \in Nat /\ T[lo] \in Nat
  BY DEF Tallies
<1>5. DirsGathered(rows, C, s, lo, lo)
  BY <1>3, <1>4 DEF DirsGathered
<1>6. \A n \in Node : ~(lo <= n /\ n < lo)
  BY NodesAre
<1>7. EntriesGathered(rows, T, s, lo, lo)
  BY <1>3, <1>4, <1>6 DEF EntriesGathered
<1>8. QED
  BY <1>1, <1>2, <1>5, <1>7 DEF Gathered

\* A node without a row leaves the shard what it is.
LEMMA GatherPast ==
  ASSUME NEW rows \in [Node -> Seq(Entry)], NEW C, NEW T, Tallies(rows, C, T),
         NEW lo \in 0 .. NumNodes, NEW hi \in Node, lo <= hi, rows[hi] = <<>>,
         NEW s, Gathered(rows, C, T, s, lo, hi)
  PROVE  Gathered(rows, C, T, s, lo, hi + 1)
<1>1. Len(rows[hi]) = 0
  BY EmptyRow
<1>2. C[hi + 1] = C[hi] /\ T[hi + 1] = T[hi] + 0
  BY <1>1 DEF Tallies
<1>3. C[hi + 1] = C[hi] /\ T[hi + 1] = T[hi]
  BY <1>2, NodesAre DEF Tallies
<1>4. \A n \in Node : n < hi => n < hi + 1
  BY NodesAre
<1>5. DirsGathered(rows, C, s, lo, hi + 1)
  <2>1. \A a \in 1 .. Len(s.dirs) : s.dirs[a] \in Node
    BY DEF Gathered, Shard
  <2>2. QED
    BY <1>3, <1>4, <2>1 DEF Gathered, DirsGathered
<1>6. EntriesGathered(rows, T, s, lo, hi + 1)
  <2>1. ASSUME NEW n \in Node, lo <= n, n < hi + 1, NEW j \in 1 .. Len(rows[n])
        PROVE  s.ent[T[n] - T[lo] + j] = rows[n][j]
    <3>1. n # hi
      BY <1>1, <2>1
    <3>2. n < hi
      BY <2>1, <3>1, NodesAre
    <3>3. QED
      BY <2>1, <3>2 DEF Gathered, EntriesGathered
  <2>2. QED
    BY <1>3, <2>1 DEF Gathered, EntriesGathered
<1>7. QED
  BY <1>5, <1>6 DEF Gathered

\* A node with one appends its id, its length, and its entries.
LEMMA GatherRow ==
  ASSUME NEW rows \in [Node -> Seq(Entry)], NEW C, NEW T, Tallies(rows, C, T),
         NEW lo \in 0 .. NumNodes, NEW hi \in Node, lo <= hi, rows[hi] # <<>>,
         NEW s, Gathered(rows, C, T, s, lo, hi)
  PROVE  Gathered(rows, C, T,
                  [dirs   |-> Append(s.dirs, hi),
                   counts |-> Append(s.counts, Len(rows[hi])),
                   ent    |-> s.ent \o rows[hi]], lo, hi + 1)
<1>1. /\ rows[hi] \in Seq(Entry) /\ Len(rows[hi]) \in Nat
      /\ s.dirs \in Seq(Node) /\ s.counts \in Seq(Nat) /\ s.ent \in Seq(Entry)
  BY EmptyRow DEF Gathered, Shard
<1>2. PICK d : d = Append(s.dirs, hi)
  OBVIOUS
<1>3. PICK c : c = Append(s.counts, Len(rows[hi]))
  OBVIOUS
<1>4. PICK e : e = s.ent \o rows[hi]
  OBVIOUS
<1>5. PICK t : t = [dirs |-> d, counts |-> c, ent |-> e]
  OBVIOUS
<1>6. t.dirs = d /\ t.counts = c /\ t.ent = e
  BY <1>5
<1>7. /\ d \in Seq(Node) /\ Len(d) = Len(s.dirs) + 1 /\ d[Len(s.dirs) + 1] = hi
      /\ \A a \in 1 .. Len(s.dirs) : d[a] = s.dirs[a]
  BY <1>1, <1>2, AppendProperties
<1>8. /\ c \in Seq(Nat) /\ Len(c) = Len(s.counts) + 1
      /\ c[Len(s.counts) + 1] = Len(rows[hi])
      /\ \A a \in 1 .. Len(s.counts) : c[a] = s.counts[a]
  BY <1>1, <1>3, AppendProperties
<1>9. /\ e \in Seq(Entry) /\ Len(e) = Len(s.ent) + Len(rows[hi])
      /\ \A j \in 1 .. Len(s.ent) : e[j] = s.ent[j]
      /\ \A j \in 1 .. Len(rows[hi]) : e[Len(s.ent) + j] = rows[hi][j]
  <2>1. /\ e \in Seq(Entry) /\ Len(e) = Len(s.ent) + Len(rows[hi])
        /\ \A i \in 1 .. Len(s.ent) + Len(rows[hi]) :
             e[i] = IF i <= Len(s.ent) THEN s.ent[i] ELSE rows[hi][i - Len(s.ent)]
    BY <1>1, <1>4, ConcatProperties
  <2>2. Len(s.ent) \in Nat /\ Len(rows[hi]) \in Nat
    BY <1>1
  <2>3. \A j \in 1 .. Len(s.ent) : j \in 1 .. Len(s.ent) + Len(rows[hi]) /\ j <= Len(s.ent)
    BY <2>2
  <2>4. \A j \in 1 .. Len(rows[hi]) :
          /\ Len(s.ent) + j \in 1 .. Len(s.ent) + Len(rows[hi])
          /\ ~(Len(s.ent) + j <= Len(s.ent)) /\ (Len(s.ent) + j) - Len(s.ent) = j
    BY <2>2
  <2>5. QED
    BY <2>1, <2>3, <2>4
<1>10. hi \in 0 .. NumNodes /\ hi \in Nat /\ hi < hi + 1
  BY NodesAre
<1>11. C[hi] \in Nat /\ C[lo] \in Nat /\ T[hi] \in Nat /\ T[lo] \in Nat
  BY <1>10 DEF Tallies
<1>12. C[hi + 1] = C[hi] + 1 /\ T[hi + 1] = T[hi] + Len(rows[hi])
  BY DEF Tallies
<1>13. Len(s.dirs) \in Nat /\ Len(s.counts) = Len(s.dirs) /\ Len(s.dirs) + C[lo] = C[hi]
  BY <1>1 DEF Gathered, DirsGathered
<1>14. DirsGathered(rows, C, t, lo, hi + 1)
  <2>1. ASSUME NEW a \in 1 .. Len(d)
        PROVE  /\ lo <= d[a] /\ d[a] < hi + 1 /\ rows[d[a]] # <<>>
               /\ C[d[a]] + 1 = C[lo] + a /\ c[a] = Len(rows[d[a]])
    <3>1. CASE a \in 1 .. Len(s.dirs)
      <4>1. s.dirs[a] \in Node /\ d[a] = s.dirs[a] /\ c[a] = s.counts[a]
        BY <1>1, <1>7, <1>8, <1>13, <3>1
      <4>2. /\ lo <= s.dirs[a] /\ s.dirs[a] < hi /\ rows[s.dirs[a]] # <<>>
            /\ C[s.dirs[a]] + 1 = C[lo] + a /\ s.counts[a] = Len(rows[s.dirs[a]])
        BY <3>1 DEF Gathered, DirsGathered
      <4>3. s.dirs[a] < hi + 1
        <5>1. s.dirs[a] \in Nat
          BY <4>1, NodesAre
        <5>2. QED
          BY <4>2, <5>1, <1>10
      <4>4. QED
        BY <4>1, <4>2, <4>3
    <3>2. CASE a = Len(s.dirs) + 1
      <4>1. d[a] = hi /\ c[a] = Len(rows[hi])
        BY <1>7, <1>8, <1>13, <3>2
      <4>2. C[hi] + 1 = C[lo] + a
        <5>1. \A l, x, y \in Nat : l + x = y => y + 1 = x + (l + 1)
          OBVIOUS
        <5>2. QED
          BY <1>11, <1>13, <3>2, <5>1
      <4>3. QED
        BY <1>10, <4>1, <4>2
    <3>3. QED
      BY <1>7, <1>13, <3>1, <3>2
  <2>2. Len(d) + C[lo] = C[hi + 1] /\ Len(c) = Len(d)
    <3>1. \A l, x, y \in Nat : l + x = y => (l + 1) + x = y + 1
      OBVIOUS
    <3>2. (Len(s.dirs) + 1) + C[lo] = C[hi] + 1
      BY <1>11, <1>13, <3>1
    <3>3. QED
      BY <1>7, <1>8, <1>12, <1>13, <3>2
  <2>3. QED
    BY <1>6, <2>1, <2>2 DEF DirsGathered
<1>15. Len(s.ent) \in Nat /\ Len(s.ent) + T[lo] = T[hi]
  BY <1>1 DEF Gathered, EntriesGathered
<1>16. EntriesGathered(rows, T, t, lo, hi + 1)
  <2>1. ASSUME NEW n \in Node, lo <= n, n < hi + 1, NEW j \in 1 .. Len(rows[n])
        PROVE  e[T[n] - T[lo] + j] = rows[n][j]
    <3>1. CASE n = hi
      <4>1. T[n] - T[lo] + j = Len(s.ent) + j
        BY <1>11, <1>15, <3>1
      <4>2. QED
        BY <1>9, <2>1, <3>1, <4>1
    <3>2. CASE n < hi
      <4>1. s.ent[T[n] - T[lo] + j] = rows[n][j]
        BY <2>1, <3>2 DEF Gathered, EntriesGathered
      <4>2. n \in 0 .. NumNodes
        BY NodesAre
      <4>3. T[n] + Len(rows[n]) <= T[hi] /\ T[lo] <= T[n]
        BY <1>10, <2>1, <3>2, <4>2, OffsetAfter, TalliesGrow
      <4>4. T[n] \in Nat /\ Len(rows[n]) \in Nat
        BY <4>2, EmptyRow DEF Tallies
      <4>5. T[n] - T[lo] + j \in 1 .. Len(s.ent)
        <5>1. \A l, x, y, z, k \in Nat :
                l + x = y /\ z + k <= y /\ x <= z =>
                  \A i \in 1 .. k : z - x + i \in 1 .. l
          OBVIOUS
        <5>2. QED
          BY <1>11, <1>15, <2>1, <4>3, <4>4, <5>1
      <4>6. QED
        BY <1>9, <4>1, <4>5
    <3>3. QED
      BY <1>10, <2>1, <3>1, <3>2, NodesAre
  <2>2. Len(e) + T[lo] = T[hi + 1]
    BY <1>1, <1>9, <1>11, <1>12, <1>15
  <2>3. QED
    BY <1>6, <2>1, <2>2 DEF EntriesGathered
<1>17. t \in Shard
  BY <1>5, <1>7, <1>8, <1>9 DEF Shard
<1>18. QED
  BY <1>2, <1>3, <1>4, <1>5, <1>14, <1>16, <1>17 DEF Gathered

-----------------------------------------------------------------------------
(* What the merge has of the nodes below b, and how a shard adds to it.      *)

IndexUpTo(rows, C, b) ==
  [n \in Node |-> IF n < b /\ rows[n] # <<>> THEN C[n] ELSE NoRank]

OffsetsUpTo(C, T, offsets, b) ==
  /\ offsets \in Seq(Nat) /\ Len(offsets) = C[b] + 1
  /\ \A m \in 0 .. b : offsets[C[m] + 1] = T[m]

Indexed(rows, C, T, index, offsets, b) ==
  index = IndexUpTo(rows, C, b) /\ OffsetsUpTo(C, T, offsets, b)

Copied(rows, T, ent, b) ==
  /\ ent \in Seq(Entry) /\ Len(ent) = T[b]
  /\ \A n \in Node : n < b => \A j \in 1 .. Len(rows[n]) : ent[T[n] + j] = rows[n][j]

LEMMA SameRank ==
  ASSUME NEW rows \in [Node -> Seq(Entry)], NEW C, NEW T, Tallies(rows, C, T)
  PROVE  /\ \A m, l \in 0 .. NumNodes : C[m] = C[l] => T[m] = T[l]
         /\ \A n, m \in Node :
              rows[n] # <<>> /\ rows[m] # <<>> /\ C[n] = C[m] => n = m
<1>1. ASSUME NEW m \in 0 .. NumNodes, NEW l \in 0 .. NumNodes, C[m] = C[l]
      PROVE  T[m] = T[l]
  <2>1. m <= l \/ l <= m
    BY NodesAre
  <2>2. QED
    BY <1>1, <2>1, TalliesGrow
<1>2. ASSUME NEW n \in Node, NEW m \in Node, rows[n] # <<>>, rows[m] # <<>>, C[n] = C[m]
      PROVE  n = m
  <2>1. n \in 0 .. NumNodes /\ m \in 0 .. NumNodes /\ n \in Nat /\ m \in Nat
    BY NodesAre
  <2>2. C[n] \in Nat /\ C[m] \in Nat
    BY <2>1 DEF Tallies
  <2>3. ~(n < m)
    <3>1. n < m => C[n] + 1 <= C[m]
      BY <1>2, <2>1, RankAfter
    <3>2. QED
      BY <1>2, <2>2, <3>1
  <2>4. ~(m < n)
    <3>1. m < n => C[m] + 1 <= C[n]
      BY <1>2, <2>1, RankAfter
    <3>2. QED
      BY <1>2, <2>2, <3>1
  <2>5. QED
    BY <2>1, <2>3, <2>4
<1>3. QED
  BY <1>1, <1>2

\* The running sums of a shard's counts are the offsets of its directories.
LEMMA SumsFollow ==
  ASSUME NEW rows \in [Node -> Seq(Entry)], NEW C, NEW T, Tallies(rows, C, T),
         NEW lo \in 0 .. NumNodes, NEW hi \in 0 .. NumNodes, lo <= hi,
         NEW s, Gathered(rows, C, T, s, lo, hi),
         NEW t, Sums(t, Len(s.counts), T[lo], s.counts)
  PROVE  \A a \in 0 .. Len(s.counts) : \A m \in 0 .. NumNodes :
           C[m] = C[lo] + a => t[a] = T[m]
<1> DEFINE Follows(a) == \A m \in 0 .. NumNodes : C[m] = C[lo] + a => t[a] = T[m]
           S == {a \in Nat : a <= Len(s.counts) => Follows(a)}
<1>1. Len(s.counts) = Len(s.dirs) /\ Len(s.counts) \in Nat /\ s.dirs \in Seq(Node)
  BY DEF Gathered, DirsGathered, Shard
<1>2. \A m \in 0 .. NumNodes : C[m] \in Nat /\ T[m] \in Nat
  BY DEF Tallies
<1>3. 0 \in S
  <2>1. ASSUME NEW m \in 0 .. NumNodes, C[m] = C[lo] + 0
        PROVE  t[0] = T[m]
    <3>1. C[m] = C[lo]
      BY <1>2, <2>1
    <3>2. T[lo] = T[m]
      BY <3>1, SameRank
    <3>3. QED
      BY <3>2 DEF Sums
  <2>2. QED
    BY <2>1
<1>4. ASSUME NEW a \in Nat, a \in S
      PROVE  a + 1 \in S
  <2>0. SUFFICES ASSUME a + 1 <= Len(s.counts), NEW m \in 0 .. NumNodes,
                        C[m] = C[lo] + (a + 1)
                 PROVE  t[a + 1] = T[m]
    OBVIOUS
  <2>1. a + 1 \in 1 .. Len(s.counts) /\ (a + 1) - 1 = a /\ a <= Len(s.counts)
    BY <1>1, <2>0
  <2>2. PICK n : n = s.dirs[a + 1]
    OBVIOUS
  <2>3. n \in Node /\ n \in 0 .. NumNodes /\ n + 1 \in 0 .. NumNodes
    <3>1. n \in Node
      BY <1>1, <2>1, <2>2
    <3>2. QED
      BY <3>1, NodesAre
  <2>4. rows[n] # <<>> /\ C[n] + 1 = C[lo] + (a + 1) /\ s.counts[a + 1] = Len(rows[n])
    BY <1>1, <2>1, <2>2 DEF Gathered, DirsGathered
  <2>5. C[n] = C[lo] + a
    <3>1. PICK x \in Nat : x = C[n]
      BY <1>2, <2>3
    <3>2. PICK y \in Nat : y = C[lo]
      BY <1>2
    <3>3. x + 1 = y + (a + 1)
      BY <2>4, <3>1, <3>2
    <3>4. x = y + a
      BY <3>3
    <3>5. QED
      BY <3>1, <3>2, <3>4
  <2>6. t[a] = T[n]
    BY <1>4, <2>1, <2>3, <2>5
  <2>7. t[a + 1] = T[n] + Len(rows[n])
    BY <2>1, <2>4, <2>6 DEF Sums
  <2>8. T[n + 1] = T[n] + Len(rows[n]) /\ C[n + 1] = C[n] + 1
    BY <2>3, <2>4 DEF Tallies
  <2>9. C[n + 1] = C[m]
    BY <2>0, <2>4, <2>8
  <2>10. T[n + 1] = T[m]
    BY <2>3, <2>9, SameRank
  <2>11. QED
    BY <2>7, <2>8, <2>10
<1>5. \A a \in Nat : a \in S
  <2>1. \A a \in Nat : a \in S => a + 1 \in S
    BY <1>4
  <2> HIDE DEF S
  <2>2. QED
    BY <1>3, <2>1, InductionInSet
<1>6. QED
  BY <1>1, <1>5

\* The index after a shard: what IndexShard assigns.
IndexWith(index, first, dirs) ==
  [n \in Node |-> IF \E r \in 1 .. Len(dirs) : dirs[r] = n
                    THEN first + (CHOOSE r \in 1 .. Len(dirs) : dirs[r] = n) - 1
                    ELSE index[n]]

LEMMA IndexGrows ==
  ASSUME NEW rows \in [Node -> Seq(Entry)], NEW C, NEW T, Tallies(rows, C, T),
         NEW lo \in 0 .. NumNodes, NEW hi \in 0 .. NumNodes, lo <= hi,
         NEW s, Gathered(rows, C, T, s, lo, hi),
         NEW index, index = IndexUpTo(rows, C, lo)
  PROVE  IndexWith(index, C[lo], s.dirs) = IndexUpTo(rows, C, hi)
<1>1. s.dirs \in Seq(Node) /\ Len(s.dirs) \in Nat /\ Len(s.dirs) + C[lo] = C[hi]
  BY DEF Gathered, DirsGathered, Shard
<1>2. \A m \in 0 .. NumNodes : C[m] \in Nat
  BY DEF Tallies
<1>3. \A a \in 1 .. Len(s.dirs) :
        /\ s.dirs[a] \in Node /\ lo <= s.dirs[a] /\ s.dirs[a] < hi
        /\ rows[s.dirs[a]] # <<>> /\ C[s.dirs[a]] + 1 = C[lo] + a
  BY <1>1 DEF Gathered, DirsGathered
<1>4. PICK new : new = IndexWith(index, C[lo], s.dirs)
  OBVIOUS
<1>5. new = [n \in Node |-> new[n]]
  BY <1>4 DEF IndexWith
<1>6. ASSUME NEW n \in Node
      PROVE  new[n] = IF n < hi /\ rows[n] # <<>> THEN C[n] ELSE NoRank
  <2>0. n \in 0 .. NumNodes /\ n \in Nat
    BY NodesAre
  <2>1. CASE \E r \in 1 .. Len(s.dirs) : s.dirs[r] = n
    <3>1. PICK r : r = CHOOSE a \in 1 .. Len(s.dirs) : s.dirs[a] = n
      OBVIOUS
    <3>2. r \in 1 .. Len(s.dirs) /\ s.dirs[r] = n
      BY <2>1, <3>1
    <3>3. new[n] = C[lo] + r - 1
      BY <1>4, <2>1, <3>1 DEF IndexWith
    <3>4. n < hi /\ rows[n] # <<>> /\ C[n] + 1 = C[lo] + r
      BY <1>3, <3>2
    <3>5. \A x, y, k \in Nat : x + 1 = y + k => y + k - 1 = x
      OBVIOUS
    <3>6. r \in Nat
      BY <1>1, <3>2
    <3>7. C[lo] + r - 1 = C[n]
      BY <1>2, <2>0, <3>4, <3>5, <3>6
    <3>8. QED
      BY <3>3, <3>4, <3>7
  <2>2. CASE ~ \E r \in 1 .. Len(s.dirs) : s.dirs[r] = n
    <3>1. new[n] = IF n < lo /\ rows[n] # <<>> THEN C[n] ELSE NoRank
      BY <1>4, <2>2 DEF IndexWith, IndexUpTo
    <3>2. ASSUME n < hi, lo <= n, rows[n] # <<>>
          PROVE  FALSE
      <4>1. C[lo] <= C[n]
        BY <2>0, <3>2, TalliesGrow
      <4>2. C[n] + 1 <= C[hi]
        BY <3>2, RankAfter
      <4>3. PICK a : a = C[n] - C[lo] + 1
        OBVIOUS
      <4>4. a \in 1 .. Len(s.dirs) /\ C[lo] + a = C[n] + 1
        <5>1. \A x, y, z, l \in Nat :
                x <= y /\ y + 1 <= z /\ l + x = z =>
                  y - x + 1 \in 1 .. l /\ x + (y - x + 1) = y + 1
          OBVIOUS
        <5>2. QED
          BY <1>1, <1>2, <2>0, <4>1, <4>2, <4>3, <5>1
      <4>5. /\ s.dirs[a] \in Node /\ rows[s.dirs[a]] # <<>>
            /\ C[s.dirs[a]] + 1 = C[n] + 1
        BY <1>3, <4>4
      <4>6. C[s.dirs[a]] = C[n]
        <5>1. s.dirs[a] \in 0 .. NumNodes
          BY <4>5, NodesAre
        <5>2. PICK x \in Nat : x = C[s.dirs[a]]
          BY <1>2, <5>1
        <5>3. PICK y \in Nat : y = C[n]
          BY <1>2, <2>0
        <5>4. x + 1 = y + 1
          BY <4>5, <5>2, <5>3
        <5>5. x = y
          BY <5>4
        <5>6. QED
          BY <5>2, <5>3, <5>5
      <4>7. s.dirs[a] = n
        BY <3>2, <4>5, <4>6, SameRank
      <4>8. QED
        BY <2>2, <4>4, <4>7
    <3>3. n < lo => n < hi
      BY <2>0
    <3>4. n < hi /\ rows[n] # <<>> => n < lo
      BY <2>0, <3>2
    <3>5. QED
      BY <3>1, <3>3, <3>4
  <2>3. QED
    BY <2>1, <2>2
<1>7. QED
  BY <1>4, <1>5, <1>6 DEF IndexUpTo

LEMMA OffsetsGrow ==
  ASSUME NEW rows \in [Node -> Seq(Entry)], NEW C, NEW T, Tallies(rows, C, T),
         NEW lo \in 0 .. NumNodes, NEW hi \in 0 .. NumNodes, lo <= hi,
         NEW s, Gathered(rows, C, T, s, lo, hi),
         NEW o, OffsetsUpTo(C, T, o, lo)
  PROVE  OffsetsUpTo(C, T, o \o PrefixSums(T[lo], s.counts), hi)
<1>u. PICK u : u = o \o PrefixSums(T[lo], s.counts)
  OBVIOUS
<1>o. /\ o \in Seq(Nat) /\ Len(o) = C[lo] + 1
      /\ \A m \in 0 .. lo : o[C[m] + 1] = T[m]
  BY DEF OffsetsUpTo
<1>1. /\ s.counts \in Seq(Nat) /\ Len(s.counts) \in Nat
      /\ Len(s.counts) + C[lo] = C[hi]
  BY DEF Gathered, DirsGathered, Shard
<1>2. \A m \in 0 .. NumNodes : C[m] \in Nat /\ T[m] \in Nat
  BY DEF Tallies
<1>3. PICK t \in [0 .. Len(s.counts) -> Nat] :
        /\ Sums(t, Len(s.counts), T[lo], s.counts)
        /\ PrefixSums(T[lo], s.counts) = [j \in 1 .. Len(s.counts) |-> t[j]]
  BY <1>1, <1>2, PrefixSumsIs
<1>4. \A a \in 0 .. Len(s.counts) : \A m \in 0 .. NumNodes :
        C[m] = C[lo] + a => t[a] = T[m]
  <2>1. Sums(t, Len(s.counts), T[lo], s.counts)
    BY <1>3
  <2>2. QED
    BY <2>1, SumsFollow
<1>5. PICK p : p = PrefixSums(T[lo], s.counts)
  OBVIOUS
<1>6. p = [j \in 1 .. Len(s.counts) |-> t[j]] /\ \A j \in 1 .. Len(s.counts) : p[j] = t[j]
  BY <1>3, <1>5
<1>7. p \in Seq(Nat) /\ Len(p) = Len(s.counts)
  <2>1. \A j \in 1 .. Len(s.counts) : j \in 0 .. Len(s.counts)
    BY <1>1
  <2>2. p \in [1 .. Len(s.counts) -> Nat]
    BY <1>3, <1>6, <2>1
  <2>a. PICK l \in Nat : l = Len(s.counts)
    BY <1>1
  <2>b. p \in [1 .. l -> Nat]
    BY <2>2, <2>a
  <2>3. p \in Seq(Nat)
    BY <2>b, SeqDef
  <2>4. QED
    BY <1>1, <2>2, <2>3, LenProperties
<1>8. /\ u \in Seq(Nat) /\ Len(u) = Len(o) + Len(p)
      /\ \A i \in 1 .. Len(o) + Len(p) :
           u[i] = IF i <= Len(o) THEN o[i] ELSE p[i - Len(o)]
  <2>1. PICK v : v = o \o p
    OBVIOUS
  <2>2. /\ v \in Seq(Nat) /\ Len(v) = Len(o) + Len(p)
        /\ \A i \in 1 .. Len(o) + Len(p) :
             v[i] = IF i <= Len(o) THEN o[i] ELSE p[i - Len(o)]
    <3>1. o \in Seq(Nat) /\ p \in Seq(Nat)
      BY <1>7, <1>o
    <3>2. QED
      BY <2>1, <3>1, ConcatProperties
  <2>3. u = v
    BY <1>5, <1>u, <2>1
  <2>4. QED
    BY <2>2, <2>3
<1>9. Len(u) = C[hi] + 1
  <2>1. PICK x \in Nat : x = C[lo]
    BY <1>2
  <2>2. PICK y \in Nat : y = C[hi]
    BY <1>2
  <2>3. PICK l \in Nat : l = Len(s.counts)
    BY <1>1
  <2>4. l + x = y /\ Len(u) = (x + 1) + l
    BY <1>1, <1>7, <1>8, <1>o, <2>1, <2>2, <2>3
  <2>5. Len(u) = y + 1
    BY <2>4
  <2>6. QED
    BY <2>2, <2>5
<1>10. ASSUME NEW m \in 0 .. hi
       PROVE  u[C[m] + 1] = T[m]
  <2>1. m \in 0 .. NumNodes
    BY NodesAre
  <2>2. CASE C[m] <= C[lo]
    <3>1. C[m] + 1 <= Len(o) /\ C[m] + 1 \in 1 .. Len(o) + Len(p)
      <4>1. \A x, y \in Nat : x <= y =>
              x + 1 <= y + 1 /\ \A l \in Nat : x + 1 \in 1 .. (y + 1) + l
        OBVIOUS
      <4>2. QED
        BY <1>1, <1>2, <1>7, <1>o, <2>1, <2>2, <4>1
    <3>2. u[C[m] + 1] = o[C[m] + 1]
      BY <1>8, <3>1
    <3>3. CASE m <= lo
      <4>1. m \in 0 .. lo
        BY <3>3
      <4>2. QED
        BY <1>o, <3>2, <4>1
    <3>4. CASE lo <= m
      <4>1. C[lo] <= C[m]
        BY <2>1, <3>4, TalliesGrow
      <4>2. C[lo] = C[m]
        BY <1>2, <2>1, <2>2, <4>1
      <4>3. lo \in 0 .. lo
        OBVIOUS
      <4>4. o[C[lo] + 1] = T[lo]
        BY <1>o, <4>3
      <4>5. T[lo] = T[m]
        BY <2>1, <4>2, SameRank
      <4>6. QED
        BY <3>2, <4>2, <4>4, <4>5
    <3>5. QED
      <4>1. m \in Int /\ lo \in Int
        BY <2>1
      <4>2. m <= lo \/ lo <= m
        BY <4>1
      <4>3. QED
        BY <3>3, <3>4, <4>2
  <2>3. CASE ~(C[m] <= C[lo])
    <3>1. C[m] <= C[hi]
      <4>1. m <= hi
        BY NodesAre
      <4>2. QED
        BY <2>1, <4>1, TalliesGrow
    <3>2. PICK a : a = C[m] - C[lo]
      OBVIOUS
    <3>3. /\ a \in 1 .. Len(s.counts) /\ C[m] = C[lo] + a
          /\ C[m] + 1 \in 1 .. Len(o) + Len(p) /\ ~(C[m] + 1 <= Len(o))
          /\ (C[m] + 1) - Len(o) = a
      <4>1. PICK x \in Nat : x = C[lo]
        BY <1>2
      <4>2. PICK y \in Nat : y = C[m]
        BY <1>2, <2>1
      <4>3. PICK z \in Nat : z = C[hi]
        BY <1>2
      <4>4. PICK l \in Nat : l = Len(s.counts)
        BY <1>1
      <4>5. ~(y <= x) /\ y <= z /\ l + x = z /\ a = y - x /\ Len(o) = x + 1 /\ Len(p) = l
        BY <1>1, <1>7, <1>o, <2>3, <3>1, <3>2, <4>1, <4>2, <4>3, <4>4
      <4>6. a \in 1 .. l /\ y = x + a
        BY <4>5
      <4>7. y + 1 \in 1 .. (x + 1) + l /\ ~(y + 1 <= x + 1) /\ (y + 1) - (x + 1) = a
        BY <4>5
      <4>8. QED
        BY <4>1, <4>2, <4>4, <4>5, <4>6, <4>7
    <3>4. u[C[m] + 1] = p[a]
      BY <1>8, <3>3
    <3>5. t[a] = T[m]
      <4>1. a \in 0 .. Len(s.counts)
        BY <3>3
      <4>2. QED
        BY <1>4, <2>1, <3>3, <4>1
    <3>6. QED
      BY <1>6, <3>3, <3>4, <3>5
  <2>4. QED
    BY <2>2, <2>3
<1>11. QED
  BY <1>8, <1>9, <1>10, <1>u DEF OffsetsUpTo

LEMMA CopyGrows ==
  ASSUME NEW rows \in [Node -> Seq(Entry)], NEW C, NEW T, Tallies(rows, C, T),
         NEW lo \in 0 .. NumNodes, NEW hi \in 0 .. NumNodes, lo <= hi,
         NEW s, Gathered(rows, C, T, s, lo, hi),
         NEW e, Copied(rows, T, e, lo), NEW u, u = e \o s.ent
  PROVE  Copied(rows, T, u, hi)
<1>1. /\ s.ent \in Seq(Entry) /\ Len(s.ent) \in Nat /\ Len(s.ent) + T[lo] = T[hi]
      /\ e \in Seq(Entry) /\ Len(e) = T[lo]
  BY DEF Gathered, EntriesGathered, Shard, Copied
<1>2. \A m \in 0 .. NumNodes : C[m] \in Nat /\ T[m] \in Nat
  BY DEF Tallies
<1>3. /\ u \in Seq(Entry) /\ Len(u) = Len(e) + Len(s.ent)
      /\ \A i \in 1 .. Len(e) + Len(s.ent) :
           u[i] = IF i <= Len(e) THEN e[i] ELSE s.ent[i - Len(e)]
  BY <1>1, ConcatProperties
<1>4. Len(u) = T[hi]
  BY <1>1, <1>2, <1>3
<1>5. ASSUME NEW n \in Node, n < hi, NEW j \in 1 .. Len(rows[n])
      PROVE  u[T[n] + j] = rows[n][j]
  <2>1. n \in 0 .. NumNodes /\ n \in Nat /\ T[n] \in Nat /\ Len(rows[n]) \in Nat
    BY <1>2, NodesAre, EmptyRow
  <2>2. CASE n < lo
    <3>1. T[n] + Len(rows[n]) <= T[lo]
      BY <2>1, <2>2, OffsetAfter
    <3>2. T[n] + j <= Len(e) /\ T[n] + j \in 1 .. Len(e) + Len(s.ent)
      <4>1. \A x, y, k, l \in Nat : x + k <= y =>
              \A i \in 1 .. k : x + i <= y /\ x + i \in 1 .. y + l
        OBVIOUS
      <4>2. QED
        BY <1>1, <1>2, <2>1, <3>1, <4>1
    <3>3. u[T[n] + j] = e[T[n] + j]
      BY <1>3, <3>2
    <3>4. QED
      BY <2>2, <3>3 DEF Copied
  <2>3. CASE lo <= n
    <3>1. T[n] + Len(rows[n]) <= T[hi] /\ T[lo] <= T[n]
      BY <1>5, <2>1, <2>3, OffsetAfter, TalliesGrow
    <3>2. /\ ~(T[n] + j <= Len(e)) /\ T[n] + j \in 1 .. Len(e) + Len(s.ent)
          /\ (T[n] + j) - Len(e) = T[n] - T[lo] + j
      <4>1. PICK x \in Nat : x = T[lo]
        BY <1>2
      <4>2. PICK y \in Nat : y = T[n]
        BY <2>1
      <4>3. PICK z \in Nat : z = T[hi]
        BY <1>2
      <4>4. PICK l \in Nat : l = Len(s.ent)
        BY <1>1
      <4>5. PICK k \in Nat : k = Len(rows[n])
        BY <2>1
      <4>6. /\ y + k <= z /\ x <= y /\ l + x = z /\ Len(e) = x
            /\ j \in 1 .. k
        BY <1>1, <3>1, <4>1, <4>2, <4>3, <4>4, <4>5
      <4>7. ~(y + j <= x) /\ y + j \in 1 .. x + l /\ (y + j) - x = y - x + j
        BY <4>6
      <4>8. QED
        BY <4>1, <4>2, <4>4, <4>6, <4>7
    <3>3. u[T[n] + j] = s.ent[T[n] - T[lo] + j]
      BY <1>3, <3>2
    <3>4. QED
      BY <1>5, <2>3, <3>3 DEF Gathered, EntriesGathered
  <2>4. n < lo \/ lo <= n
    <3>1. n \in Int /\ lo \in Int
      BY <2>1
    <3>2. QED
      BY <3>1
  <2>5. QED
    BY <2>2, <2>3, <2>4
<1>6. QED
  BY <1>3, <1>4, <1>5 DEF Copied

-----------------------------------------------------------------------------
(* The inductive invariant.                                                  *)

Ranks == Rank(Rows)
Offsets == Offset(Rows)

Map == [index : [Node -> Int], offsets : Seq(Nat), ent : Seq(Entry)]

Typed ==
  /\ reached \in SUBSET Directory /\ requested \in SUBSET Fid
  /\ bitsetSize \in BitsetSizes
  /\ bounds \in [0 .. K -> 0 .. NumNodes] /\ IsPartition(bounds)
  /\ pc \in {"check", "scan", "index", "copy", "done", "aborted"}
  /\ sequential \in BOOLEAN /\ next \in 0 .. K
  /\ node \in [Workers -> 0 .. NumNodes]
  /\ shard \in [Workers -> Shard]
  /\ dirmap \in Map

\* A decoder's shard holds what the nodes it has passed have to give, until the
\* caller has copied it.
Dropped(w) == pc \in {"copy", "done"} /\ w < next

GatherInv(w) ==
  /\ bounds[w] <= node[w] /\ node[w] <= bounds[w + 1]
  /\ Dropped(w) => shard[w] = EmptyShard
  /\ ~Dropped(w) => Gathered(Rows, Ranks, Offsets, shard[w], bounds[w], node[w])

\* The merge runs on complete shards, whose directories the rank space holds.
ScanInv ==
  pc \in {"index", "copy", "done"} => AllScanned /\ Ranks[NumNodes] <= MaxDirs

Merged(b, c) ==
  /\ Indexed(Rows, Ranks, Offsets, dirmap.index, dirmap.offsets, b)
  /\ Copied(Rows, Offsets, dirmap.ent, c)

\* The map holds the nodes below the bound the caller has come to.
MapInv ==
  /\ pc \in {"check", "scan", "aborted"} => Merged(0, 0)
  /\ pc = "index" => Merged(bounds[next], 0)
  /\ pc \in {"copy", "done"} => Merged(NumNodes, bounds[next])
  /\ pc = "done" => next = K

Inv == /\ Typed
       /\ \A w \in Workers : GatherInv(w)
       /\ ScanInv
       /\ MapInv

LEMMA TablesAre ==
  /\ Rows \in [Node -> Seq(Entry)] /\ Tallies(Rows, Ranks, Offsets)
  /\ \A n \in Node : Rows[n] = Row(n)
BY RowsTyped, TalliesAre DEF Ranks, Offsets

LEMMA TablesKept ==
  ASSUME UNCHANGED inputs
  PROVE  Rows' = Rows /\ Ranks' = Ranks /\ Offsets' = Offsets /\ bounds' = bounds
<1>1. Rows' = Rows
  BY DEF Rows, Row, Wanted, inputs
<1>2. QED
  BY <1>1 DEF Ranks, Offsets, inputs

LEMMA BandsAre ==
  /\ K \in Nat /\ 0 \in 0 .. K /\ K \in 0 .. K
  /\ \A w \in Workers : w \in 0 .. K /\ w + 1 \in 0 .. K /\ w \in Nat /\ w < K
  /\ \A w \in 0 .. K : w < K => w \in Workers /\ w + 1 \in 0 .. K
BY HydrateAssumption DEF Workers

LEMMA BoundsAre ==
  ASSUME Typed
  PROVE  /\ bounds[0] = 0 /\ bounds[K] = NumNodes
         /\ \A w \in 0 .. K : bounds[w] \in 0 .. NumNodes
         /\ \A w \in Workers : bounds[w] <= bounds[w + 1]
BY BandsAre DEF Typed, IsPartition

LEMMA NoRowUnreached ==
  ASSUME Typed, NEW n \in Node, n \notin reached
  PROVE  Row(n) = <<>>
<1>1. RowExact(n)
  BY RowIs
<1>2. Row(n) \in Seq(Entry)
  BY <1>1 DEF RowExact, Entry
<1>3. Len(Row(n)) \in Nat /\ (Row(n) = <<>> <=> Len(Row(n)) = 0)
  BY <1>2, EmptyRow
<1>4. ~(1 \in 1 .. Len(Row(n)))
  BY <1>1 DEF RowExact
<1>5. QED
  BY <1>3, <1>4

LEMMA PassedOverNoRow ==
  ASSUME Typed, NEW n \in Node, PassedOver(n)
  PROVE  Row(n) = <<>>
<1>1. n \notin reached
  BY DEF Typed, PassedOver, Directory
<1>2. QED
  BY <1>1, NoRowUnreached

LEMMA EmptyMapMerged ==
  ASSUME Typed, dirmap = EmptyMap
  PROVE  Merged(0, 0)
<1>1. PICK rows : rows = Rows
  OBVIOUS
<1>2. PICK C : C = Ranks
  OBVIOUS
<1>3. PICK T : T = Offsets
  OBVIOUS
<1>4. rows \in [Node -> Seq(Entry)] /\ Tallies(rows, C, T)
  BY <1>1, <1>2, <1>3, TablesAre
<1>5. C[0] = 0 /\ T[0] = 0
  BY <1>4 DEF Tallies
<1>6. \A n \in Node : ~(n < 0)
  BY NodesAre
<1>7. PICK o : o = <<0>>
  OBVIOUS
<1>8. o \in Seq(Nat) /\ Len(o) = 1 /\ o[1] = 0
  BY <1>7
<1>9. /\ dirmap.index = [n \in Node |-> NoRank] /\ dirmap.offsets = o
      /\ dirmap.ent = <<>>
  BY <1>7 DEF EmptyMap
<1>10. Indexed(rows, C, T, dirmap.index, dirmap.offsets, 0)
  <2>1. [n \in Node |-> NoRank] =
          [n \in Node |-> IF n < 0 /\ rows[n] # <<>> THEN C[n] ELSE NoRank]
    BY <1>6
  <2>2. \A m \in 0 .. 0 : m = 0
    OBVIOUS
  <2>3. \A m \in 0 .. 0 : o[C[m] + 1] = T[m]
    BY <1>5, <1>8, <2>2
  <2>4. Len(o) = C[0] + 1
    BY <1>5, <1>8
  <2>5. QED
    BY <1>8, <1>9, <2>1, <2>3, <2>4 DEF Indexed, IndexUpTo, OffsetsUpTo
<1>11. Copied(rows, T, dirmap.ent, 0)
  BY <1>5, <1>6, <1>9, EmptySeq DEF Copied
<1>12. QED
  BY <1>1, <1>2, <1>3, <1>10, <1>11 DEF Merged

LEMMA InitHolds == Init => Inv
<1> SUFFICES ASSUME Init PROVE Inv
  OBVIOUS
<1>1. EmptyShard \in Shard
  BY EmptySeq DEF EmptyShard, Shard
<1>2. EmptyMap \in Map
  <2>1. NoRank \in Int
    BY DEF NoRank
  <2>2. <<0>> \in Seq(Nat) /\ <<>> \in Seq(Entry)
    BY EmptySeq
  <2>3. QED
    BY <2>1, <2>2 DEF EmptyMap, Map
<1>3. Typed
  <2>1. /\ reached \in SUBSET Directory /\ requested \in SUBSET Fid
        /\ bitsetSize \in BitsetSizes /\ bounds \in [0 .. K -> 0 .. NumNodes]
        /\ IsPartition(bounds) /\ sequential \in BOOLEAN
    BY DEF Init
  <2>2. pc \in {"check", "scan", "index", "copy", "done", "aborted"} /\ next \in 0 .. K
    BY BandsAre DEF Init
  <2>3. node \in [Workers -> 0 .. NumNodes]
    BY <2>1, BandsAre DEF Init
  <2>4. shard \in [Workers -> Shard] /\ dirmap \in Map
    BY <1>1, <1>2 DEF Init
  <2>5. QED
    BY <2>1, <2>2, <2>3, <2>4 DEF Typed
<1>4. ASSUME NEW w \in Workers
      PROVE  GatherInv(w)
  <2>1. node[w] = bounds[w] /\ shard[w] = EmptyShard /\ ~Dropped(w)
    BY DEF Init, Dropped
  <2>2. bounds[w] \in 0 .. NumNodes /\ bounds[w] <= bounds[w + 1]
    BY <1>3, BandsAre, BoundsAre
  <2>3. Gathered(Rows, Ranks, Offsets, EmptyShard, bounds[w], bounds[w])
    BY <2>2, TablesAre, GatherNothing
  <2>4. bounds[w] <= bounds[w]
    BY <2>2
  <2>5. QED
    BY <2>1, <2>2, <2>3, <2>4 DEF GatherInv
<1>5. MapInv
  <2>1. pc = "check" /\ dirmap = EmptyMap
    BY DEF Init
  <2>2. QED
    BY <1>3, <2>1, EmptyMapMerged DEF MapInv
<1>6. ScanInv
  BY DEF Init, ScanInv
<1>7. QED
  BY <1>3, <1>4, <1>5, <1>6 DEF Inv

-----------------------------------------------------------------------------
(* The steps.                                                                *)

\* What a step leaves alone stays as the invariant has it.
LEMMA GatherKept ==
  ASSUME NEW w \in Workers, GatherInv(w), UNCHANGED inputs,
         node'[w] = node[w], shard'[w] = shard[w], Dropped(w)' <=> Dropped(w)
  PROVE  GatherInv(w)'
BY TablesKept DEF GatherInv

LEMMA MergedKept ==
  ASSUME NEW b, NEW c, Merged(b, c), UNCHANGED inputs, UNCHANGED dirmap
  PROVE  Merged(b, c)'
BY TablesKept DEF Merged

LEMMA DecoderKeeps ==
  ASSUME Inv, NEW w \in Workers, Decoder(w)
  PROVE  Inv'
<1>1. Typed /\ MapInv /\ \A v \in Workers : GatherInv(v)
  BY DEF Inv
<1>2. pc = "scan" /\ node[w] < bounds[w + 1]
  BY DEF Decoder, PassOver, DecodeNothing, DecodeDir, Scanning
<1>3. UNCHANGED <<inputs, pc, sequential, next, dirmap>>
  BY DEF Decoder, PassOver, DecodeNothing, DecodeDir
<1>4. PICK n : n = node[w]
  OBVIOUS
<1>5. PICK lo : lo = bounds[w]
  OBVIOUS
<1>6. PICK rows : rows = Rows
  OBVIOUS
<1>7. PICK C : C = Ranks
  OBVIOUS
<1>8. PICK T : T = Offsets
  OBVIOUS
<1>9. rows \in [Node -> Seq(Entry)] /\ Tallies(rows, C, T) /\ rows[n] = Row(n) /\ n \in Node
  <2>1. n \in 0 .. NumNodes /\ bounds[w + 1] \in 0 .. NumNodes
    BY <1>1, <1>4, BandsAre, BoundsAre DEF Typed
  <2>2. n \in Node
    <3>1. n \in Nat /\ n < NumNodes
      BY <1>2, <1>4, <2>1, NodesAre
    <3>2. QED
      BY <3>1, NodesAre
  <2>3. QED
    BY <1>6, <1>7, <1>8, <2>2, TablesAre
<1>10. /\ lo \in 0 .. NumNodes /\ lo <= n /\ n + 1 <= bounds[w + 1]
       /\ n + 1 \in 0 .. NumNodes /\ lo <= n + 1
  <2>1. lo \in 0 .. NumNodes /\ bounds[w + 1] \in 0 .. NumNodes
    BY <1>1, <1>5, BandsAre, BoundsAre
  <2>2. lo <= n /\ n < bounds[w + 1]
    BY <1>1, <1>2, <1>4, <1>5 DEF GatherInv
  <2>3. n + 1 \in 0 .. NumNodes /\ n \in Nat
    BY <1>9, NodesAre
  <2>4. lo <= n + 1 /\ n + 1 <= bounds[w + 1]
    BY <2>1, <2>2, <2>3
  <2>5. QED
    BY <2>1, <2>2, <2>3, <2>4
<1>11. PICK s : s = shard[w]
  OBVIOUS
<1>12. Gathered(rows, C, T, s, lo, n)
  <2>1. ~Dropped(w)
    BY <1>2 DEF Dropped
  <2>2. QED
    BY <1>1, <1>4, <1>5, <1>6, <1>7, <1>8, <1>11, <2>1 DEF GatherInv
<1>13. node' = [node EXCEPT ![w] = n + 1]
  BY <1>4 DEF Decoder, PassOver, DecodeNothing, DecodeDir
<1>14. \E t : shard' = [shard EXCEPT ![w] = t] /\ Gathered(rows, C, T, t, lo, n + 1)
  <2>1. CASE PassOver(w) \/ DecodeNothing(w)
    <3>1. rows[n] = <<>>
      <4>1. CASE PassOver(w)
        BY <1>1, <1>4, <1>9, <4>1, PassedOverNoRow DEF PassOver
      <4>2. CASE DecodeNothing(w)
        BY <1>4, <1>9, <4>2 DEF DecodeNothing
      <4>3. QED
        BY <2>1, <4>1, <4>2
    <3>2. shard' = [shard EXCEPT ![w] = s]
      BY <1>1, <1>11, <2>1 DEF PassOver, DecodeNothing, Typed
    <3>3. Gathered(rows, C, T, s, lo, n + 1)
      BY <1>9, <1>10, <1>12, <3>1, GatherPast
    <3>4. QED
      BY <3>2, <3>3
  <2>2. CASE DecodeDir(w)
    <3>1. rows[n] # <<>>
      BY <1>4, <1>9, <2>2 DEF DecodeDir
    <3>2. PICK t : t = [dirs   |-> Append(s.dirs, n),
                        counts |-> Append(s.counts, Len(rows[n])),
                        ent    |-> s.ent \o rows[n]]
      OBVIOUS
    <3>3. Gathered(rows, C, T, t, lo, n + 1)
      BY <1>9, <1>10, <1>12, <3>1, <3>2, GatherRow
    <3>4. shard' = [shard EXCEPT ![w] = t]
      BY <1>1, <1>4, <1>9, <1>11, <2>2, <3>2 DEF DecodeDir, Typed
    <3>5. QED
      BY <3>3, <3>4
  <2>3. QED
    BY <2>1, <2>2 DEF Decoder
<1>15. PICK t : shard' = [shard EXCEPT ![w] = t] /\ Gathered(rows, C, T, t, lo, n + 1)
  BY <1>14
<1>16. Typed'
  <2>1. t \in Shard
    BY <1>15 DEF Gathered
  <2>2. node' \in [Workers -> 0 .. NumNodes] /\ shard' \in [Workers -> Shard]
    BY <1>1, <1>10, <1>13, <1>15, <2>1 DEF Typed
  <2>3. QED
    BY <1>1, <1>3, <2>2 DEF Typed, inputs, IsPartition
<1>17. /\ node'[w] = n + 1 /\ shard'[w] = t
       /\ \A v \in Workers : v # w => node'[v] = node[v] /\ shard'[v] = shard[v]
  BY <1>1, <1>13, <1>15 DEF Typed
<1>18. ASSUME NEW v \in Workers
       PROVE  GatherInv(v)'
  <2>1. ~Dropped(v) /\ ~Dropped(v)'
    BY <1>2, <1>3 DEF Dropped
  <2>2. CASE v = w
    <3>1. Rows' = rows /\ Ranks' = C /\ Offsets' = T /\ bounds' = bounds
      BY <1>3, <1>6, <1>7, <1>8, TablesKept
    <3>2. QED
      BY <1>5, <1>10, <1>15, <1>17, <2>1, <2>2, <3>1 DEF GatherInv
  <2>3. CASE v # w
    BY <1>1, <1>3, <1>17, <2>1, <2>3, GatherKept
  <2>4. QED
    BY <2>2, <2>3
<1>19. MapInv'
  <2>1. Merged(0, 0)
    BY <1>1, <1>2 DEF MapInv
  <2>2. Merged(0, 0)'
    BY <1>3, <2>1, MergedKept
  <2>3. QED
    BY <1>2, <1>3, <2>2 DEF MapInv
<1>20. ScanInv'
  BY <1>2, <1>3 DEF ScanInv
<1>21. QED
  BY <1>16, <1>18, <1>19, <1>20 DEF Inv

\* Steps that only move the caller on while the map is empty.
LEMMA CallerMoves ==
  ASSUME Inv, SizesDiffer \/ ChooseMode \/ TooManyDirs
  PROVE  Inv'
<1>1. Typed /\ MapInv /\ \A v \in Workers : GatherInv(v)
  BY DEF Inv
<1>2. /\ pc \in {"check", "scan"} /\ pc' \in {"scan", "aborted"}
      /\ UNCHANGED <<inputs, node, shard, next, dirmap>>
  BY DEF SizesDiffer, ChooseMode, TooManyDirs
<1>a. sequential' \in BOOLEAN
  <2>1. CASE ChooseMode
    <3>1. sequential' = (Cardinality(reached) > SeqThreshold)
      BY <2>1 DEF ChooseMode
    <3>2. QED
      BY <3>1
  <2>2. CASE SizesDiffer \/ TooManyDirs
    BY <1>1, <2>2 DEF SizesDiffer, TooManyDirs, Typed
  <2>3. QED
    BY <2>1, <2>2
<1>3. Typed'
  BY <1>1, <1>2, <1>a DEF Typed, inputs, IsPartition
<1>4. \A v \in Workers : GatherInv(v)'
  <2>1. \A v \in Workers : ~Dropped(v) /\ ~Dropped(v)'
    BY <1>2 DEF Dropped
  <2>2. QED
    BY <1>1, <1>2, <2>1, GatherKept
<1>5. MapInv'
  <2>1. Merged(0, 0)
    BY <1>1, <1>2 DEF MapInv
  <2>2. Merged(0, 0)'
    BY <1>2, <2>1, MergedKept
  <2>3. QED
    BY <1>2, <2>2 DEF MapInv
<1>6. ScanInv'
  BY <1>2 DEF ScanInv
<1>7. QED
  BY <1>3, <1>4, <1>5, <1>6 DEF Inv

\* After the scan the shards hold as many directories as there are rows.
LEMMA DirsCounted ==
  ASSUME Inv, pc = "scan", AllScanned
  PROVE  NumDirs = Ranks[NumNodes]
<1>1. Typed /\ \A v \in Workers : GatherInv(v)
  BY DEF Inv
<1>2. PICK f : f = [w \in Workers |-> Len(shard[w].dirs)]
  OBVIOUS
<1>3. PICK C : C = Ranks
  OBVIOUS
<1>4. \A m \in 0 .. NumNodes : C[m] \in Nat
  BY <1>3, TablesAre DEF Tallies
<1>5. ASSUME NEW w \in Workers
      PROVE  f[w] \in Nat /\ f[w] + C[bounds[w]] = C[bounds[w + 1]]
  <2>1. ~Dropped(w)
    BY DEF Dropped
  <2>2. Gathered(Rows, Ranks, Offsets, shard[w], bounds[w], bounds[w + 1])
    BY <1>1, <2>1 DEF GatherInv, AllScanned
  <2>3. shard[w].dirs \in Seq(Node) /\ Len(shard[w].dirs) + C[bounds[w]] = C[bounds[w + 1]]
    BY <1>3, <2>2 DEF Gathered, DirsGathered, Shard
  <2>4. QED
    BY <1>2, <2>3
<1>6. \A w \in Workers : f[w] \in Nat
  BY <1>5
<1>7. PICK t \in [0 .. K -> Nat] : /\ t[0] = 0 /\ \A w \in Workers : t[w + 1] = t[w] + f[w]
                                   /\ SumOver(f) = t[K]
  BY <1>6, SumOverIs
<1> DEFINE S == {w \in Nat : w <= K => t[w] = C[bounds[w]]}
<1>8. 0 \in S
  <2>1. C[0] = 0
    BY <1>3, TablesAre DEF Tallies
  <2>2. QED
    BY <1>1, <1>7, <2>1, BoundsAre
<1>9. ASSUME NEW w \in Nat, w \in S
      PROVE  w + 1 \in S
  <2>0. SUFFICES ASSUME w + 1 <= K
                 PROVE  t[w + 1] = C[bounds[w + 1]]
    OBVIOUS
  <2>1. w \in Workers /\ w <= K
    BY <2>0, HydrateAssumption DEF Workers
  <2>2. t[w] = C[bounds[w]] /\ t[w + 1] = t[w] + f[w]
    BY <1>7, <1>9, <2>1
  <2>3. PICK x \in Nat : x = C[bounds[w]]
    <3>1. bounds[w] \in 0 .. NumNodes
      BY <1>1, <2>1, BandsAre, BoundsAre
    <3>2. QED
      BY <1>4, <3>1
  <2>4. PICK y \in Nat : y = f[w]
    BY <1>6, <2>1
  <2>5. x + y = y + x
    OBVIOUS
  <2>6. QED
    BY <1>5, <2>1, <2>2, <2>3, <2>4, <2>5
<1>10. \A w \in Nat : w \in S
  <2>1. \A w \in Nat : w \in S => w + 1 \in S
    BY <1>9
  <2> HIDE DEF S
  <2>2. QED
    BY <1>8, <2>1, InductionInSet
<1>11. t[K] = C[NumNodes]
  <2>1. K \in S /\ K <= K
    BY <1>10, BandsAre
  <2>2. QED
    BY <1>1, <2>1, BoundsAre
<1>12. QED
  BY <1>2, <1>3, <1>7, <1>11 DEF NumDirs

LEMMA StartMergeKeeps ==
  ASSUME Inv, StartMerge
  PROVE  Inv'
<1>1. Typed /\ MapInv /\ \A v \in Workers : GatherInv(v)
  BY DEF Inv
<1>2. /\ pc = "scan" /\ AllScanned /\ NumDirs <= MaxDirs /\ pc' = "index" /\ next' = 0
      /\ UNCHANGED <<inputs, sequential, node, shard, dirmap>>
  BY DEF StartMerge
<1>3. Typed'
  BY <1>1, <1>2, BandsAre DEF Typed, inputs, IsPartition
<1>4. \A v \in Workers : GatherInv(v)'
  <2>1. \A v \in Workers : ~Dropped(v) /\ ~Dropped(v)'
    BY <1>2 DEF Dropped
  <2>2. QED
    BY <1>1, <1>2, <2>1, GatherKept
<1>5. MapInv'
  <2>1. Merged(0, 0)
    BY <1>1, <1>2 DEF MapInv
  <2>2. Merged(0, 0)'
    BY <1>2, <2>1, MergedKept
  <2>3. (bounds[next])' = 0
    BY <1>1, <1>2, BoundsAre DEF inputs
  <2>4. QED
    BY <1>2, <2>2, <2>3 DEF MapInv
<1>6. ScanInv'
  <2>1. Ranks[NumNodes] <= MaxDirs
    BY <1>2, DirsCounted
  <2>2. Ranks' = Ranks
    BY <1>2, TablesKept
  <2>3. QED
    BY <1>2, <2>1, <2>2 DEF ScanInv, AllScanned, inputs
<1>7. QED
  BY <1>3, <1>4, <1>5, <1>6 DEF Inv

LEMMA StartCopyKeeps ==
  ASSUME Inv, StartCopy
  PROVE  Inv'
<1>1. Typed /\ MapInv /\ ScanInv /\ \A v \in Workers : GatherInv(v)
  BY DEF Inv
<1>2. /\ pc = "index" /\ next = K /\ pc' = "copy" /\ next' = 0
      /\ UNCHANGED <<inputs, sequential, node, shard, dirmap>>
  BY DEF StartCopy
<1>3. Typed'
  BY <1>1, <1>2, BandsAre DEF Typed, inputs, IsPartition
<1>4. \A v \in Workers : GatherInv(v)'
  <2>1. \A v \in Workers : ~Dropped(v) /\ ~Dropped(v)'
    <3>1. \A v \in Workers : ~(v < 0)
      BY BandsAre
    <3>2. QED
      BY <1>2, <3>1 DEF Dropped
  <2>2. QED
    BY <1>1, <1>2, <2>1, GatherKept
<1>5. MapInv'
  <2>1. bounds[0] = 0 /\ bounds[K] = NumNodes
    BY <1>1, BoundsAre
  <2>2. Merged(NumNodes, 0)
    BY <1>1, <1>2, <2>1 DEF MapInv
  <2>3. Merged(NumNodes, 0)'
    BY <1>2, <2>2, MergedKept
  <2>4. (bounds[next])' = 0
    BY <1>2, <2>1 DEF inputs
  <2>5. QED
    BY <1>2, <2>3, <2>4 DEF MapInv
<1>6. ScanInv'
  <2>1. Ranks' = Ranks
    BY <1>2, TablesKept
  <2>2. QED
    BY <1>1, <1>2, <2>1 DEF ScanInv, AllScanned, inputs
<1>7. QED
  BY <1>3, <1>4, <1>5, <1>6 DEF Inv

LEMMA ReturnKeeps ==
  ASSUME Inv, Return
  PROVE  Inv'
<1>1. Typed /\ MapInv /\ ScanInv /\ \A v \in Workers : GatherInv(v)
  BY DEF Inv
<1>2. /\ pc = "copy" /\ next = K /\ pc' = "done"
      /\ UNCHANGED <<inputs, sequential, node, shard, next, dirmap>>
  BY DEF Return
<1>3. Typed'
  BY <1>1, <1>2 DEF Typed, inputs, IsPartition
<1>4. \A v \in Workers : GatherInv(v)'
  <2>1. \A v \in Workers : Dropped(v)' <=> Dropped(v)
    BY <1>2 DEF Dropped
  <2>2. QED
    BY <1>1, <1>2, <2>1, GatherKept
<1>5. MapInv'
  <2>1. PICK b : b = bounds[next]
    OBVIOUS
  <2>2. Merged(NumNodes, b)
    BY <1>1, <1>2, <2>1 DEF MapInv
  <2>3. Merged(NumNodes, b)'
    BY <1>2, <2>2, MergedKept
  <2>4. (bounds[next])' = b
    BY <1>2, <2>1 DEF inputs
  <2>5. QED
    BY <1>2, <2>3, <2>4 DEF MapInv
<1>6. ScanInv'
  <2>1. Ranks' = Ranks
    BY <1>2, TablesKept
  <2>2. QED
    BY <1>1, <1>2, <2>1 DEF ScanInv, AllScanned, inputs
<1>7. QED
  BY <1>3, <1>4, <1>5, <1>6 DEF Inv

LEMMA IndexShardKeeps ==
  ASSUME Inv, IndexShard
  PROVE  Inv'
<1>1. Typed /\ MapInv /\ ScanInv /\ \A v \in Workers : GatherInv(v)
  BY DEF Inv
<1>2. /\ pc = "index" /\ next < K /\ pc' = "index" /\ next' = next + 1
      /\ UNCHANGED <<inputs, sequential, node, shard>>
  BY DEF IndexShard
<1>3. next \in Workers /\ next + 1 \in 0 .. K
  BY <1>1, <1>2, BandsAre DEF Typed
<1>4. PICK s : s = shard[next]
  OBVIOUS
<1>5. PICK lo : lo = bounds[next]
  OBVIOUS
<1>6. PICK hi : hi = bounds[next + 1]
  OBVIOUS
<1>7. PICK rows : rows = Rows
  OBVIOUS
<1>8. PICK C : C = Ranks
  OBVIOUS
<1>9. PICK T : T = Offsets
  OBVIOUS
<1>10. rows \in [Node -> Seq(Entry)] /\ Tallies(rows, C, T)
  BY <1>7, <1>8, <1>9, TablesAre
<1>11. lo \in 0 .. NumNodes /\ hi \in 0 .. NumNodes /\ lo <= hi
  BY <1>1, <1>3, <1>5, <1>6, BandsAre, BoundsAre
<1>12. Gathered(rows, C, T, s, lo, hi)
  <2>1. ~Dropped(next) /\ node[next] = hi
    BY <1>1, <1>2, <1>3, <1>6 DEF Dropped, ScanInv, AllScanned
  <2>2. QED
    BY <1>1, <1>3, <1>4, <1>5, <1>7, <1>8, <1>9, <2>1 DEF GatherInv
<1>13. PICK ix : ix = dirmap.index
  OBVIOUS
<1>14. PICK o : o = dirmap.offsets
  OBVIOUS
<1>15. Indexed(rows, C, T, ix, o, lo) /\ Copied(rows, T, dirmap.ent, 0)
  BY <1>1, <1>2, <1>5, <1>7, <1>8, <1>9, <1>13, <1>14 DEF MapInv, Merged
<1>16. /\ o \in Seq(Nat) /\ Len(o) = C[lo] + 1 /\ C[lo] \in Nat
       /\ o[Len(o)] = T[lo] /\ Len(o) - 1 = C[lo]
       /\ \A m \in 0 .. lo : o[C[m] + 1] = T[m]
  <2>1. /\ o \in Seq(Nat) /\ Len(o) = C[lo] + 1 /\ C[lo] \in Nat
        /\ \A m \in 0 .. lo : o[C[m] + 1] = T[m]
    BY <1>10, <1>11, <1>15 DEF Indexed, OffsetsUpTo, Tallies
  <2>2. lo \in 0 .. lo
    BY <1>11
  <2>3. Len(o) - 1 = C[lo]
    BY <2>1
  <2>4. QED
    BY <2>1, <2>2, <2>3
<1>17. PICK u : u = o \o PrefixSums(T[lo], s.counts)
  OBVIOUS
<1>18. PICK jx : jx = IndexWith(ix, C[lo], s.dirs)
  OBVIOUS
<1>19. OffsetsUpTo(C, T, u, hi)
  <2>1. OffsetsUpTo(C, T, o, lo)
    BY <1>15 DEF Indexed
  <2>2. QED
    BY <1>10, <1>11, <1>12, <1>17, <2>1, OffsetsGrow
<1>20. jx = IndexUpTo(rows, C, hi)
  <2>1. ix = IndexUpTo(rows, C, lo)
    BY <1>15 DEF Indexed
  <2>2. QED
    BY <1>10, <1>11, <1>12, <1>18, <2>1, IndexGrows
<1>21. Indexed(rows, C, T, jx, u, hi)
  BY <1>19, <1>20 DEF Indexed
<1>22. dirmap' = [index |-> jx, offsets |-> u, ent |-> dirmap.ent]
  <2>1. PICK m \in Map : m = dirmap
    BY <1>1 DEF Typed
  <2>2. dirmap' = [m EXCEPT !.index = jx, !.offsets = u]
    <3>1. dirmap' = [dirmap EXCEPT
            !.index = IndexWith(dirmap.index, Len(dirmap.offsets) - 1, shard[next].dirs),
            !.offsets = dirmap.offsets \o
              PrefixSums(dirmap.offsets[Len(dirmap.offsets)], shard[next].counts)]
      BY DEF IndexShard, IndexWith
    <3>2. /\ IndexWith(dirmap.index, Len(dirmap.offsets) - 1, shard[next].dirs) = jx
          /\ dirmap.offsets \o
               PrefixSums(dirmap.offsets[Len(dirmap.offsets)], shard[next].counts) = u
      BY <1>4, <1>13, <1>14, <1>16, <1>17, <1>18
    <3>3. QED
      BY <2>1, <3>1, <3>2
  <2>3. PICK l : l = [m EXCEPT !.index = jx]
    OBVIOUS
  <2>4. l = [index |-> jx, offsets |-> m.offsets, ent |-> m.ent]
    BY <2>1, <2>3 DEF Map
  <2>5. [l EXCEPT !.offsets = u] = [index |-> jx, offsets |-> u, ent |-> m.ent]
    BY <2>4
  <2>6. QED
    BY <2>1, <2>2, <2>3, <2>5
<1>23. /\ (dirmap.index)' = jx /\ (dirmap.offsets)' = u /\ (dirmap.ent)' = dirmap.ent
       /\ dirmap' \in Map
  <2>1. jx \in [Node -> Int]
    <3>1. \A n \in Node : C[n] \in Int /\ NoRank \in Int
      BY <1>10, NodesAre DEF Tallies, NoRank
    <3>2. QED
      BY <1>20, <3>1 DEF IndexUpTo
  <2>2. dirmap.ent \in Seq(Entry)
    BY <1>15 DEF Copied
  <2>3. QED
    BY <1>19, <1>22, <2>1, <2>2 DEF Map, OffsetsUpTo
<1>24. Typed'
  BY <1>1, <1>2, <1>3, <1>23 DEF Typed, inputs, IsPartition
<1>25. \A v \in Workers : GatherInv(v)'
  <2>1. \A v \in Workers : ~Dropped(v) /\ ~Dropped(v)'
    BY <1>2 DEF Dropped
  <2>2. QED
    BY <1>1, <1>2, <2>1, GatherKept
<1>26. MapInv'
  <2>1. Rows' = rows /\ Ranks' = C /\ Offsets' = T /\ (bounds[next])' = hi
    BY <1>2, <1>6, <1>7, <1>8, <1>9, TablesKept
  <2>2. Copied(rows, T, dirmap.ent, 0)
    BY <1>15
  <2>3. Merged(bounds[next], 0)'
    BY <1>21, <1>23, <2>1, <2>2 DEF Merged
  <2>4. QED
    BY <1>2, <2>3 DEF MapInv
<1>27. ScanInv'
  <2>1. Ranks' = Ranks
    BY <1>2, TablesKept
  <2>2. QED
    BY <1>1, <1>2, <2>1 DEF ScanInv, AllScanned, inputs
<1>28. QED
  BY <1>24, <1>25, <1>26, <1>27 DEF Inv

LEMMA CopyShardKeeps ==
  ASSUME Inv, CopyShard
  PROVE  Inv'
<1>1. Typed /\ MapInv /\ ScanInv /\ \A v \in Workers : GatherInv(v)
  BY DEF Inv
<1>2. /\ pc = "copy" /\ next < K /\ pc' = "copy" /\ next' = next + 1
      /\ shard' = [shard EXCEPT ![next] = EmptyShard]
      /\ UNCHANGED <<inputs, sequential, node>>
  BY DEF CopyShard
<1>3. next \in Workers /\ next + 1 \in 0 .. K /\ next \in Nat
  BY <1>1, <1>2, BandsAre DEF Typed
<1>4. PICK s : s = shard[next]
  OBVIOUS
<1>5. PICK lo : lo = bounds[next]
  OBVIOUS
<1>6. PICK hi : hi = bounds[next + 1]
  OBVIOUS
<1>7. PICK rows : rows = Rows
  OBVIOUS
<1>8. PICK C : C = Ranks
  OBVIOUS
<1>9. PICK T : T = Offsets
  OBVIOUS
<1>10. rows \in [Node -> Seq(Entry)] /\ Tallies(rows, C, T)
  BY <1>7, <1>8, <1>9, TablesAre
<1>11. lo \in 0 .. NumNodes /\ hi \in 0 .. NumNodes /\ lo <= hi
  BY <1>1, <1>3, <1>5, <1>6, BandsAre, BoundsAre
<1>12. Gathered(rows, C, T, s, lo, hi)
  <2>1. ~Dropped(next) /\ node[next] = hi
    BY <1>1, <1>2, <1>3, <1>6 DEF Dropped, ScanInv, AllScanned
  <2>2. QED
    BY <1>1, <1>3, <1>4, <1>5, <1>7, <1>8, <1>9, <2>1 DEF GatherInv
<1>13. PICK e : e = dirmap.ent
  OBVIOUS
<1>14. /\ Indexed(rows, C, T, dirmap.index, dirmap.offsets, NumNodes)
       /\ Copied(rows, T, e, lo)
  BY <1>1, <1>2, <1>5, <1>7, <1>8, <1>9, <1>13 DEF MapInv, Merged
<1>15. PICK u : u = e \o s.ent
  OBVIOUS
<1>16. Copied(rows, T, u, hi)
  BY <1>10, <1>11, <1>12, <1>14, <1>15, CopyGrows
<1>17. dirmap' = [dirmap EXCEPT !.ent = u]
  BY <1>4, <1>13, <1>15 DEF CopyShard
<1>18. /\ (dirmap.index)' = dirmap.index /\ (dirmap.offsets)' = dirmap.offsets
       /\ (dirmap.ent)' = u /\ dirmap' \in Map
  <2>1. PICK m \in Map : m = dirmap
    BY <1>1 DEF Typed
  <2>2. dirmap' = [index |-> m.index, offsets |-> m.offsets, ent |-> u]
    BY <1>17, <2>1 DEF Map
  <2>3. u \in Seq(Entry)
    BY <1>16 DEF Copied
  <2>4. QED
    BY <2>1, <2>2, <2>3 DEF Map
<1>19. Typed'
  <2>1. EmptyShard \in Shard
    BY EmptySeq DEF EmptyShard, Shard
  <2>2. shard' \in [Workers -> Shard]
    BY <1>1, <1>2, <2>1 DEF Typed
  <2>3. QED
    BY <1>1, <1>2, <1>3, <1>18, <2>2 DEF Typed, inputs, IsPartition
<1>20. ASSUME NEW v \in Workers
       PROVE  GatherInv(v)'
  <2>1. CASE v = next
    <3>1. (shard[v])' = EmptyShard
      BY <1>1, <1>2, <1>3, <2>1 DEF Typed
    <3>2. Dropped(v)'
      BY <1>2, <1>3, <2>1 DEF Dropped
    <3>3. bounds[v] <= node[v] /\ node[v] <= bounds[v + 1]
      BY <1>1 DEF GatherInv
    <3>4. QED
      BY <1>2, <3>1, <3>2, <3>3 DEF GatherInv, inputs
  <2>2. CASE v # next
    <3>1. (shard[v])' = shard[v] /\ (node[v])' = node[v]
      BY <1>1, <1>2, <1>3, <2>2 DEF Typed
    <3>2. v < next + 1 <=> v < next
      BY <1>3, <2>2, BandsAre
    <3>3. Dropped(v)' <=> Dropped(v)
      BY <1>2, <3>2 DEF Dropped
    <3>4. QED
      BY <1>1, <1>2, <3>1, <3>3, GatherKept
  <2>3. QED
    BY <2>1, <2>2
<1>21. MapInv'
  <2>1. Rows' = rows /\ Ranks' = C /\ Offsets' = T /\ (bounds[next])' = hi
    BY <1>2, <1>6, <1>7, <1>8, <1>9, TablesKept
  <2>2. Merged(NumNodes, bounds[next])'
    BY <1>14, <1>16, <1>18, <2>1 DEF Merged
  <2>3. QED
    BY <1>2, <2>2 DEF MapInv
<1>22. ScanInv'
  <2>1. Ranks' = Ranks
    BY <1>2, TablesKept
  <2>2. QED
    BY <1>1, <1>2, <2>1 DEF ScanInv, AllScanned, inputs
<1>23. QED
  BY <1>19, <1>20, <1>21, <1>22 DEF Inv

LEMMA StutterKeeps ==
  ASSUME Inv, UNCHANGED vars
  PROVE  Inv'
<1>1. Typed /\ MapInv /\ ScanInv /\ \A v \in Workers : GatherInv(v)
  BY DEF Inv
<1>2. UNCHANGED <<inputs, pc, sequential, node, shard, next, dirmap>>
  BY DEF vars, inputs
<1>3. Typed'
  BY <1>1, <1>2 DEF Typed, inputs, IsPartition
<1>4. \A v \in Workers : GatherInv(v)'
  <2>1. \A v \in Workers : Dropped(v)' <=> Dropped(v)
    BY <1>2 DEF Dropped
  <2>2. QED
    BY <1>1, <1>2, <2>1, GatherKept
<1>5. Rows' = Rows /\ Ranks' = Ranks /\ Offsets' = Offsets /\ bounds' = bounds
  BY <1>2, TablesKept
<1>6. MapInv' /\ ScanInv'
  BY <1>1, <1>2, <1>5 DEF MapInv, ScanInv, Merged, AllScanned
<1>7. QED
  BY <1>3, <1>4, <1>6 DEF Inv

LEMMA StepHolds == Inv /\ [Next]_vars => Inv'
<1> SUFFICES ASSUME Inv, [Next]_vars
             PROVE  Inv'
  OBVIOUS
<1>1. CASE SizesDiffer \/ ChooseMode \/ TooManyDirs
  BY <1>1, CallerMoves
<1>2. CASE StartMerge
  BY <1>2, StartMergeKeeps
<1>3. CASE IndexShard
  BY <1>3, IndexShardKeeps
<1>4. CASE StartCopy
  BY <1>4, StartCopyKeeps
<1>5. CASE CopyShard
  BY <1>5, CopyShardKeeps
<1>6. CASE Return
  BY <1>6, ReturnKeeps
<1>7. ASSUME NEW w \in Workers, Decoder(w)
      PROVE  Inv'
  BY <1>7, DecoderKeeps
<1>8. CASE Over \/ UNCHANGED vars
  BY <1>8, StutterKeeps DEF Over
<1>9. QED
  BY <1>1, <1>2, <1>3, <1>4, <1>5, <1>6, <1>7, <1>8 DEF Next, Caller

\* Each shard holds exactly what the nodes its decoder has passed have to give,
\* in node order, and the merge joins the shards into the rows of all nodes.
THEOREM Invariance == Spec => []Inv
<1>1. QED
  BY InitHolds, StepHolds, PTL DEF Spec

-----------------------------------------------------------------------------
(* What the invariant shows.                                                 *)

LEMMA RowMeans ==
  ASSUME Typed, NEW n \in Node, Row(n) # <<>>
  PROVE  n \in Directory /\ n \in reached /\ Len(Row(n)) \in Nat \ {0}
<1>1. n \in reached
  BY NoRowUnreached
<1>2. Row(n) \in Seq(Entry)
  BY RowIs DEF RowExact, Entry
<1>3. Len(Row(n)) \in Nat \ {0}
  BY <1>2, EmptyRow
<1>4. QED
  BY <1>1, <1>3 DEF Typed

LEMMA ShardTyped ==
  ASSUME Inv, NEW w \in Workers
  PROVE  /\ shard[w].dirs \in Seq(Directory)
         /\ shard[w].counts \in Seq(Nat \ {0})
         /\ Len(shard[w].dirs) = Len(shard[w].counts)
<1>1. Typed /\ GatherInv(w)
  BY DEF Inv
<1>2. CASE Dropped(w)
  <2>1. shard[w].dirs = <<>> /\ shard[w].counts = <<>>
    BY <1>1, <1>2 DEF GatherInv, EmptyShard
  <2>2. QED
    BY <2>1, EmptySeq
<1>3. CASE ~Dropped(w)
  <2>1. PICK d : d = shard[w].dirs
    OBVIOUS
  <2>2. PICK c : c = shard[w].counts
    OBVIOUS
  <2>3. d \in Seq(Node) /\ c \in Seq(Nat) /\ Len(c) = Len(d)
        /\ \A a \in 1 .. Len(d) : Rows[d[a]] # <<>> /\ c[a] = Len(Rows[d[a]])
    BY <1>1, <1>3, <2>1, <2>2 DEF GatherInv, Gathered, DirsGathered, Shard
  <2>4. PICK l \in Nat : l = Len(d) /\ l = Len(c)
    BY <2>3
  <2>5. \A a \in 1 .. l : d[a] \in Directory /\ c[a] \in Nat \ {0}
    <3>1. \A a \in 1 .. l : d[a] \in Node
      BY <2>3, <2>4
    <3>2. \A a \in 1 .. l : Row(d[a]) # <<>> /\ c[a] = Len(Row(d[a]))
      BY <2>3, <2>4, <3>1, TablesAre
    <3>3. QED
      BY <1>1, <3>1, <3>2, RowMeans
  <2>6. d \in [1 .. l -> Directory] /\ c \in [1 .. l -> Nat \ {0}]
    <3>1. d = [a \in 1 .. l |-> d[a]] /\ c = [a \in 1 .. l |-> c[a]]
      BY <2>3, <2>4
    <3>2. QED
      BY <2>5, <3>1
  <2>7. d \in Seq(Directory)
    BY <2>6, SeqDef
  <2>8. c \in Seq(Nat \ {0})
    BY <2>6, SeqDef
  <2>9. QED
    BY <2>1, <2>2, <2>4, <2>7, <2>8
<1>4. QED
  BY <1>2, <1>3

LEMMA RanksFit ==
  ASSUME Inv
  PROVE  dirmap.index \in [Node -> {NoRank} \cup 0 .. MaxDirs - 1]
<1>1. Typed /\ MapInv /\ ScanInv
  BY DEF Inv
<1>2. PICK C : C = Ranks
  OBVIOUS
<1>3. PICK rows : rows = Rows
  OBVIOUS
<1>4. rows \in [Node -> Seq(Entry)] /\ Tallies(rows, C, Offsets)
  BY <1>2, <1>3, TablesAre
<1>5. \E b : /\ dirmap.index = IndexUpTo(rows, C, b)
             /\ b = 0 \/ C[NumNodes] <= MaxDirs
  <2>1. CASE pc \in {"check", "scan", "aborted"}
    <3>1. dirmap.index = IndexUpTo(rows, C, 0)
      BY <1>1, <1>2, <1>3, <2>1 DEF MapInv, Merged, Indexed
    <3>2. QED
      BY <3>1
  <2>2. CASE pc = "index"
    <3>1. dirmap.index = IndexUpTo(rows, C, bounds[next]) /\ C[NumNodes] <= MaxDirs
      BY <1>1, <1>2, <1>3, <2>2 DEF MapInv, Merged, Indexed, ScanInv
    <3>2. QED
      BY <3>1
  <2>3. CASE pc \in {"copy", "done"}
    <3>1. dirmap.index = IndexUpTo(rows, C, NumNodes) /\ C[NumNodes] <= MaxDirs
      BY <1>1, <1>2, <1>3, <2>3 DEF MapInv, Merged, Indexed, ScanInv
    <3>2. QED
      BY <3>1
  <2>4. QED
    BY <1>1, <2>1, <2>2, <2>3 DEF Typed
<1>6. PICK b : /\ dirmap.index = IndexUpTo(rows, C, b)
               /\ b = 0 \/ C[NumNodes] <= MaxDirs
  BY <1>5
<1>7. ASSUME NEW n \in Node
      PROVE  (IF n < b /\ rows[n] # <<>> THEN C[n] ELSE NoRank)
                \in {NoRank} \cup 0 .. MaxDirs - 1
  <2>1. CASE n < b /\ rows[n] # <<>>
    <3>1. n \in 0 .. NumNodes /\ n < NumNodes /\ NumNodes \in 0 .. NumNodes /\ ~(n < 0)
      BY NodesAre
    <3>2. C[NumNodes] <= MaxDirs
      BY <1>6, <2>1, <3>1
    <3>3. C[n] + 1 <= C[NumNodes]
      BY <1>4, <2>1, <3>1, RankAfter
    <3>4. C[n] \in Nat /\ C[NumNodes] \in Nat /\ MaxDirs \in Nat
      BY <1>4, <3>1, HydrateAssumption DEF Tallies
    <3>5. C[n] \in 0 .. MaxDirs - 1
      BY <3>2, <3>3, <3>4
    <3>6. QED
      BY <2>1, <3>5
  <2>2. CASE ~(n < b /\ rows[n] # <<>>)
    BY <2>2
  <2>3. QED
    BY <2>1, <2>2
<1>8. QED
  BY <1>6, <1>7 DEF IndexUpTo

LEMMA InvTypeOK == Inv => TypeOK
<1> SUFFICES ASSUME Inv PROVE TypeOK
  OBVIOUS
<1>1. Typed /\ \A w \in Workers : GatherInv(w)
  BY DEF Inv
<1>2. \A w \in Workers :
        /\ node[w] \in bounds[w] .. bounds[w + 1]
        /\ shard[w].dirs \in Seq(Directory)
        /\ shard[w].counts \in Seq(Nat \ {0})
        /\ Len(shard[w].dirs) = Len(shard[w].counts)
  <2>1. ASSUME NEW w \in Workers
        PROVE  node[w] \in bounds[w] .. bounds[w + 1]
    <3>1. node[w] \in Int /\ bounds[w] <= node[w] /\ node[w] <= bounds[w + 1]
      BY <1>1 DEF Typed, GatherInv
    <3>2. bounds[w] \in Int /\ bounds[w + 1] \in Int
      <4>1. bounds[w] \in 0 .. NumNodes /\ bounds[w + 1] \in 0 .. NumNodes
        BY <1>1, BandsAre, BoundsAre
      <4>2. QED
        BY <4>1
    <3>3. QED
      BY <3>1, <3>2
  <2>2. QED
    BY <2>1, ShardTyped
<1>3. dirmap.offsets \in Seq(Nat)
  BY <1>1 DEF Typed, Map
<1>4. QED
  BY <1>1, <1>2, <1>3, RanksFit DEF Typed, TypeOK

\* The state of hydrate keeps its shape: node cursors within their bands, one
\* count per listed directory and none zero, every rank below the rank space.
THEOREM TypeCorrect == Spec => []TypeOK
<1>1. QED
  BY Invariance, InvTypeOK, PTL

LEMMA BoundsGrow ==
  ASSUME Typed, NEW v \in 0 .. K
  PROVE  \A w \in 0 .. K : v <= w => bounds[v] <= bounds[w]
<1> DEFINE S == {w \in Nat : v <= w /\ w <= K => bounds[v] <= bounds[w]}
<1>1. 0 \in S
  BY BoundsAre, BandsAre
<1>2. ASSUME NEW w \in Nat, w \in S
      PROVE  w + 1 \in S
  <2>0. SUFFICES ASSUME v <= w + 1, w + 1 <= K
                 PROVE  bounds[v] <= bounds[w + 1]
    OBVIOUS
  <2>1. w \in Workers /\ w \in 0 .. K /\ w + 1 \in 0 .. K /\ w <= K
    BY <2>0, BandsAre
  <2>2. bounds[w] <= bounds[w + 1] /\ bounds[w] \in 0 .. NumNodes
        /\ bounds[w + 1] \in 0 .. NumNodes /\ bounds[v] \in 0 .. NumNodes
    BY <2>1, BoundsAre
  <2>3. CASE v = w + 1
    BY <2>2, <2>3
  <2>4. CASE v <= w
    <3>1. bounds[v] <= bounds[w]
      BY <1>2, <2>1, <2>4
    <3>2. QED
      BY <2>2, <3>1
  <2>5. QED
    BY <2>0, <2>3, <2>4
<1>3. \A w \in Nat : w \in S
  <2>1. \A w \in Nat : w \in S => w + 1 \in S
    BY <1>2
  <2> HIDE DEF S
  <2>2. QED
    BY <1>1, <2>1, InductionInSet
<1>4. QED
  BY <1>3

LEMMA InvStreamSorted == Inv => StreamSorted
<1> SUFFICES ASSUME Inv, pc = "scan",
                    NEW v \in Workers, NEW w \in Workers,
                    NEW a \in DOMAIN shard[v].dirs, NEW b \in DOMAIN shard[w].dirs,
                    v < w \/ (v = w /\ a < b)
             PROVE  shard[v].dirs[a] < shard[w].dirs[b]
  BY DEF StreamSorted
<1>1. Typed /\ \A x \in Workers : GatherInv(x) /\ ~Dropped(x)
  BY DEF Inv, Dropped
<1>2. PICK x : x = shard[v].dirs[a]
  OBVIOUS
<1>3. PICK y : y = shard[w].dirs[b]
  OBVIOUS
<1>4. Gathered(Rows, Ranks, Offsets, shard[v], bounds[v], node[v])
      /\ Gathered(Rows, Ranks, Offsets, shard[w], bounds[w], node[w])
  BY <1>1 DEF GatherInv
<1>5. /\ shard[v].dirs \in Seq(Node) /\ shard[w].dirs \in Seq(Node)
      /\ a \in 1 .. Len(shard[v].dirs) /\ b \in 1 .. Len(shard[w].dirs)
  <2>1. shard[v].dirs \in Seq(Node) /\ shard[w].dirs \in Seq(Node)
    BY <1>4 DEF Gathered, Shard
  <2>2. QED
    BY <2>1, LenProperties
<1>6. /\ x \in Node /\ y \in Node /\ x < node[v] /\ bounds[w] <= y
      /\ Rows[x] # <<>> /\ Ranks[x] + 1 = Ranks[bounds[v]] + a
      /\ Rows[y] # <<>> /\ Ranks[y] + 1 = Ranks[bounds[w]] + b
  BY <1>2, <1>3, <1>4, <1>5 DEF Gathered, DirsGathered
<1>7. CASE v < w
  <2>1. node[v] <= bounds[v + 1]
    BY <1>1 DEF GatherInv
  <2>2. v + 1 \in 0 .. K /\ w \in 0 .. K /\ v + 1 <= w
    BY <1>7, BandsAre
  <2>3. bounds[v + 1] <= bounds[w]
    BY <1>1, <2>2, BoundsGrow
  <2>4. /\ bounds[v + 1] \in 0 .. NumNodes /\ bounds[w] \in 0 .. NumNodes
        /\ node[v] \in 0 .. NumNodes /\ x \in Nat /\ y \in Nat
    BY <1>1, <1>6, <2>2, BoundsAre, NodesAre DEF Typed
  <2>5. x < y
    BY <1>6, <2>1, <2>3, <2>4
  <2>6. QED
    BY <1>2, <1>3, <2>5
<1>8. CASE v = w /\ a < b
  <2>1. /\ x \in 0 .. NumNodes /\ y \in 0 .. NumNodes /\ x \in Nat /\ y \in Nat
        /\ bounds[v] \in 0 .. NumNodes
    BY <1>1, <1>6, NodesAre, BandsAre, BoundsAre
  <2>2. PICK p \in Nat : p = Ranks[x]
    BY <2>1, TablesAre DEF Tallies
  <2>3. PICK q \in Nat : q = Ranks[y]
    BY <2>1, TablesAre DEF Tallies
  <2>4. PICK r \in Nat : r = Ranks[bounds[v]]
    BY <2>1, TablesAre DEF Tallies
  <2>5. p + 1 = r + a /\ q + 1 = r + b /\ a \in Nat /\ b \in Nat
    BY <1>5, <1>6, <1>8, <2>2, <2>3, <2>4
  <2>6. ~(q <= p)
    BY <1>8, <2>5
  <2>7. y <= x => q <= p
    BY <2>1, <2>2, <2>3, TablesAre, TalliesGrow
  <2>8. x < y
    BY <2>1, <2>6, <2>7
  <2>9. QED
    BY <1>2, <1>3, <2>8
<1>9. QED
  BY <1>7, <1>8

\* However the decoders interleave, the shards in band order list directories
\* in strictly increasing order: the concatenated stream is sorted by node.
THEOREM StreamIsSorted == Spec => []StreamSorted
<1>1. QED
  BY Invariance, InvStreamSorted, PTL

-----------------------------------------------------------------------------
(* The finished map.                                                         *)

\* The slice of the CSR that is n's row: entries from+1 to upto.
IsSliceOf(n, from, upto) ==
  /\ from \in Nat /\ upto = from + Len(Row(n))
  /\ \A j \in 1 .. Len(Row(n)) : dirmap.ent[from + j] = Row(n)[j]

LEMMA DoneIs ==
  ASSUME Inv, pc = "done"
  PROVE  Merged(NumNodes, NumNodes)
<1>1. Merged(NumNodes, bounds[next]) /\ next = K /\ Typed
  BY DEF Inv, MapInv
<1>2. QED
  BY <1>1, BoundsAre

LEMMA SliceIs ==
  ASSUME Inv, pc = "done", NEW n \in Node, Row(n) # <<>>
  PROVE  /\ dirmap.index[n] = Ranks[n] /\ Ranks[n] \in Nat
         /\ IsSliceOf(n, dirmap.offsets[Ranks[n] + 1], dirmap.offsets[Ranks[n] + 2])
<1>1. PICK rows : rows = Rows
  OBVIOUS
<1>2. PICK C : C = Ranks
  OBVIOUS
<1>3. PICK T : T = Offsets
  OBVIOUS
<1>4. rows \in [Node -> Seq(Entry)] /\ Tallies(rows, C, T) /\ rows[n] = Row(n)
  BY <1>1, <1>2, <1>3, TablesAre
<1>5. /\ Indexed(rows, C, T, dirmap.index, dirmap.offsets, NumNodes)
      /\ Copied(rows, T, dirmap.ent, NumNodes)
  BY <1>1, <1>2, <1>3, DoneIs DEF Merged
<1>6. n < NumNodes /\ n \in 0 .. NumNodes /\ n + 1 \in 0 .. NumNodes
  BY NodesAre
<1>7. dirmap.index[n] = C[n] /\ C[n] \in Nat /\ T[n] \in Nat
  BY <1>4, <1>5, <1>6 DEF Indexed, IndexUpTo, Tallies
<1>8. C[n + 1] = C[n] + 1 /\ T[n + 1] = T[n] + Len(rows[n])
  BY <1>4 DEF Tallies
<1>9. dirmap.offsets[C[n] + 1] = T[n] /\ dirmap.offsets[C[n + 1] + 1] = T[n + 1]
  BY <1>5, <1>6 DEF Indexed, OffsetsUpTo
<1>10. C[n + 1] + 1 = C[n] + 2
  BY <1>7, <1>8
<1>11. \A j \in 1 .. Len(rows[n]) : dirmap.ent[T[n] + j] = rows[n][j]
  BY <1>5, <1>6 DEF Copied
<1>12. IsSliceOf(n, T[n], T[n + 1])
  BY <1>4, <1>7, <1>8, <1>11 DEF IsSliceOf
<1>13. QED
  BY <1>2, <1>7, <1>9, <1>10, <1>12

\* Within a slice the names ascend.
LEMMA SliceAscends ==
  ASSUME NEW n \in Node, NEW from, NEW upto, IsSliceOf(n, from, upto)
  PROVE  /\ upto \in Nat /\ from <= upto /\ (Row(n) # <<>> => from < upto)
         /\ \A i \in from + 1 .. upto :
              /\ i - from \in 1 .. Len(Row(n))
              /\ dirmap.ent[i] = Row(n)[i - from] /\ dirmap.ent[i].fid \in Nat
         /\ \A i, j \in from + 1 .. upto : i < j => dirmap.ent[i].fid < dirmap.ent[j].fid
<1>1. PICK row : row = Row(n)
  OBVIOUS
<1>2. RowExact(n) /\ row \in Seq(Entry)
  BY <1>1, RowIs DEF RowExact, Entry
<1>3. PICK l \in Nat : l = Len(row)
  BY <1>2
<1>4. from \in Nat /\ upto = from + l /\ upto \in Nat /\ from <= upto
  BY <1>1, <1>3 DEF IsSliceOf
<1>5. row # <<>> => from < upto
  BY <1>2, <1>3, <1>4, EmptyRow
<1>6. ASSUME NEW i \in from + 1 .. upto
      PROVE  /\ i - from \in 1 .. l
             /\ dirmap.ent[i] = row[i - from] /\ dirmap.ent[i].fid \in Nat
  <2>1. i - from \in 1 .. l /\ from + (i - from) = i
    BY <1>4
  <2>2. dirmap.ent[from + (i - from)] = row[i - from]
    BY <1>1, <1>3, <2>1 DEF IsSliceOf
  <2>3. row[i - from].fid \in Nat
    BY <1>1, <1>2, <1>3, <2>1 DEF RowExact
  <2>4. QED
    BY <2>1, <2>2, <2>3
<1>7. ASSUME NEW i \in from + 1 .. upto, NEW j \in from + 1 .. upto, i < j
      PROVE  dirmap.ent[i].fid < dirmap.ent[j].fid
  <2>1. i - from < j - from
    BY <1>4, <1>7
  <2>2. row[i - from].fid < row[j - from].fid
    BY <1>1, <1>2, <1>3, <1>6, <2>1 DEF RowExact
  <2>3. QED
    BY <1>6, <2>2
<1>8. QED
  BY <1>1, <1>3, <1>4, <1>5, <1>6, <1>7

LEMMA InvCsrWellFormed == Inv => CsrWellFormed
<1> SUFFICES ASSUME Inv, pc = "done"
             PROVE  /\ dirmap.offsets[Len(dirmap.offsets)] = Len(dirmap.ent)
                    /\ \A r \in 1 .. Len(dirmap.offsets) - 1 :
                         /\ dirmap.offsets[r] < dirmap.offsets[r + 1]
                         /\ \A j \in dirmap.offsets[r] + 2 .. dirmap.offsets[r + 1] :
                              dirmap.ent[j - 1].fid < dirmap.ent[j].fid
  BY DEF CsrWellFormed
<1>1. PICK rows : rows = Rows
  OBVIOUS
<1>2. PICK C : C = Ranks
  OBVIOUS
<1>3. PICK T : T = Offsets
  OBVIOUS
<1>4. rows \in [Node -> Seq(Entry)] /\ Tallies(rows, C, T)
  BY <1>1, <1>2, <1>3, TablesAre
<1>5. OffsetsUpTo(C, T, dirmap.offsets, NumNodes) /\ Copied(rows, T, dirmap.ent, NumNodes)
  BY <1>1, <1>2, <1>3, DoneIs DEF Merged, Indexed
<1>6. NumNodes \in 0 .. NumNodes /\ C[NumNodes] \in Nat
  BY <1>4, NodesAre DEF Tallies
<1>7. Len(dirmap.offsets) = C[NumNodes] + 1 /\ dirmap.offsets[C[NumNodes] + 1] = T[NumNodes]
  BY <1>5, <1>6 DEF OffsetsUpTo
<1>8. Len(dirmap.ent) = T[NumNodes]
  BY <1>5 DEF Copied
<1>9. ASSUME NEW r \in 1 .. Len(dirmap.offsets) - 1
      PROVE  /\ dirmap.offsets[r] < dirmap.offsets[r + 1]
             /\ \A j \in dirmap.offsets[r] + 2 .. dirmap.offsets[r + 1] :
                  dirmap.ent[j - 1].fid < dirmap.ent[j].fid
  <2>1. r - 1 \in Nat /\ r - 1 < C[NumNodes] /\ (r - 1) + 1 = r /\ (r - 1) + 2 = r + 1
    BY <1>6, <1>7
  <2>2. PICK n \in Node : rows[n] # <<>> /\ C[n] = r - 1
    BY <1>4, <1>6, <2>1, RankTaken
  <2>3. Row(n) # <<>>
    BY <1>1, <2>2, TablesAre
  <2>4. PICK from : from = dirmap.offsets[r]
    OBVIOUS
  <2>5. PICK upto : upto = dirmap.offsets[r + 1]
    OBVIOUS
  <2>6. IsSliceOf(n, from, upto)
    BY <1>2, <2>1, <2>2, <2>3, <2>4, <2>5, SliceIs
  <2>7. from < upto /\ from \in Nat /\ upto \in Nat
    BY <2>3, <2>6, SliceAscends DEF IsSliceOf
  <2>8. ASSUME NEW j \in from + 2 .. upto
        PROVE  dirmap.ent[j - 1].fid < dirmap.ent[j].fid
    <3>1. j - 1 \in from + 1 .. upto /\ j \in from + 1 .. upto /\ j - 1 < j
      BY <2>7
    <3>2. QED
      BY <2>6, <3>1, SliceAscends
  <2>9. QED
    BY <2>4, <2>5, <2>7, <2>8
<1>10. QED
  BY <1>7, <1>8, <1>9

\* The merged arrays close: the last offset is the number of entries, no
\* directory's slice is empty, and each is sorted by name without repetition.
THEOREM CsrIsWellFormed == Spec => []CsrWellFormed
<1>1. QED
  BY Invariance, InvCsrWellFormed, PTL

-----------------------------------------------------------------------------
(* The binary search.                                                        *)

Ascending(s, e) ==
  /\ \A i \in s + 1 .. e : dirmap.ent[i].fid \in Nat
  /\ \A i, j \in s + 1 .. e : i < j => dirmap.ent[i].fid < dirmap.ent[j].fid

Windows(s, e) == (s .. e) \X (s .. e)

Middle(w) == (w[1] + w[2]) \div 2

\* The body of the recursion.
Probe(at, w, f) ==
  IF w[1] >= w[2] THEN 0
  ELSE IF dirmap.ent[Middle(w) + 1].fid = f THEN Middle(w) + 1
  ELSE IF dirmap.ent[Middle(w) + 1].fid < f THEN at[<<Middle(w) + 1, w[2]>>]
  ELSE at[<<w[1], Middle(w)>>]

\* h is where f is among the entries w[1]+1 .. w[2], or 0.
Found(w, f, h) ==
  \/ h = 0 /\ \A j \in w[1] + 1 .. w[2] : dirmap.ent[j].fid # f
  \/ h \in w[1] + 1 .. w[2] /\ dirmap.ent[h].fid = f

LEMMA MiddleIs ==
  ASSUME NEW a \in Nat, NEW b \in Nat, a < b
  PROVE  /\ Middle(<<a, b>>) \in Nat /\ a <= Middle(<<a, b>>) /\ Middle(<<a, b>>) < b
BY DEF Middle

LEMMA ProbeFinds ==
  ASSUME NEW s \in Nat, NEW e \in Nat, Ascending(s, e), NEW f \in Nat, NEW at,
         NEW a \in s .. e, NEW b \in s .. e,
         \A c, d \in s .. e : d - c < b - a => Found(<<c, d>>, f, at[<<c, d>>])
  PROVE  Found(<<a, b>>, f, Probe(at, <<a, b>>, f))
<1>1. a \in Nat /\ b \in Nat
  OBVIOUS
<1>2. PICK w : w = <<a, b>>
  OBVIOUS
<1>3. w[1] = a /\ w[2] = b
  BY <1>2
<1>4. CASE a >= b
  <2>1. Probe(at, w, f) = 0
    BY <1>3, <1>4 DEF Probe
  <2>2. \A j \in a + 1 .. b : FALSE
    BY <1>1, <1>4
  <2>3. QED
    BY <1>2, <1>3, <2>1, <2>2 DEF Found
<1>5. CASE a < b
  <2>1. PICK m : m = Middle(w)
    OBVIOUS
  <2>2. m \in Nat /\ a <= m /\ m < b
    BY <1>1, <1>2, <1>5, <2>1, MiddleIs
  <2>3. PICK here : here = dirmap.ent[m + 1].fid
    OBVIOUS
  <2>4. m + 1 \in s + 1 .. e /\ m + 1 \in a + 1 .. b /\ m + 1 \in s .. e /\ m \in s .. e
    BY <2>2
  <2>5. here \in Nat
    BY <2>3, <2>4 DEF Ascending
  <2>6. Probe(at, w, f) = IF here = f THEN m + 1
                          ELSE IF here < f THEN at[<<m + 1, b>>] ELSE at[<<a, m>>]
    <3>1. ~(a >= b)
      BY <1>1, <1>5
    <3>2. QED
      BY <1>3, <2>1, <2>3, <3>1 DEF Probe
  <2>7. \A j \in a + 1 .. b : j \in s + 1 .. e /\ dirmap.ent[j].fid \in Nat
    <3>1. \A j \in a + 1 .. b : j \in s + 1 .. e
      OBVIOUS
    <3>2. QED
      BY <3>1 DEF Ascending
  <2>8. CASE here = f
    <3>1. Probe(at, w, f) = m + 1
      BY <2>6, <2>8
    <3>2. QED
      BY <1>2, <1>3, <2>3, <2>4, <2>8, <3>1 DEF Found
  <2>9. CASE here < f
    <3>1. Probe(at, w, f) = at[<<m + 1, b>>]
      BY <2>5, <2>6, <2>9
    <3>2. b - (m + 1) < b - a
      BY <1>1, <2>2
    <3>3. PICK h : h = at[<<m + 1, b>>]
      OBVIOUS
    <3>4. Found(<<m + 1, b>>, f, h)
      BY <2>4, <3>2, <3>3
    <3>5. ASSUME NEW j \in a + 1 .. b, j <= m + 1
          PROVE  dirmap.ent[j].fid # f
      <4>1. j = m + 1 \/ j < m + 1
        BY <2>2, <3>5
      <4>2. j < m + 1 => dirmap.ent[j].fid < here
        BY <2>3, <2>4, <2>7 DEF Ascending
      <4>3. dirmap.ent[j].fid \in Nat
        BY <2>7
      <4>4. QED
        BY <2>3, <2>5, <2>9, <4>1, <4>2, <4>3
    <3>6. CASE h = 0 /\ \A j \in m + 1 + 1 .. b : dirmap.ent[j].fid # f
      <4>1. ASSUME NEW j \in a + 1 .. b
            PROVE  dirmap.ent[j].fid # f
        <5>1. j <= m + 1 \/ j \in m + 1 + 1 .. b
          BY <2>2
        <5>2. QED
          BY <3>5, <3>6, <5>1
      <4>2. QED
        BY <1>2, <1>3, <3>1, <3>3, <3>6, <4>1 DEF Found
    <3>7. CASE h \in m + 1 + 1 .. b /\ dirmap.ent[h].fid = f
      <4>1. h \in a + 1 .. b
        BY <2>2, <3>7
      <4>2. QED
        BY <1>2, <1>3, <3>1, <3>3, <3>7, <4>1 DEF Found
    <3>8. QED
      BY <3>4, <3>6, <3>7 DEF Found
  <2>10. CASE f < here
    <3>1. Probe(at, w, f) = at[<<a, m>>]
      BY <2>5, <2>6, <2>10
    <3>2. m - a < b - a
      BY <1>1, <2>2
    <3>3. PICK h : h = at[<<a, m>>]
      OBVIOUS
    <3>4. Found(<<a, m>>, f, h)
      BY <2>4, <3>2, <3>3
    <3>5. ASSUME NEW j \in a + 1 .. b, m + 1 <= j
          PROVE  dirmap.ent[j].fid # f
      <4>1. j = m + 1 \/ m + 1 < j
        BY <2>2, <3>5
      <4>2. m + 1 < j => here < dirmap.ent[j].fid
        BY <2>3, <2>4, <2>7 DEF Ascending
      <4>3. dirmap.ent[j].fid \in Nat
        BY <2>7
      <4>4. QED
        BY <2>3, <2>5, <2>10, <4>1, <4>2, <4>3
    <3>6. CASE h = 0 /\ \A j \in a + 1 .. m : dirmap.ent[j].fid # f
      <4>1. ASSUME NEW j \in a + 1 .. b
            PROVE  dirmap.ent[j].fid # f
        <5>1. m + 1 <= j \/ j \in a + 1 .. m
          BY <2>2
        <5>2. QED
          BY <3>5, <3>6, <5>1
      <4>2. QED
        BY <1>2, <1>3, <3>1, <3>3, <3>6, <4>1 DEF Found
    <3>7. CASE h \in a + 1 .. m /\ dirmap.ent[h].fid = f
      <4>1. h \in a + 1 .. b
        BY <2>2, <3>7
      <4>2. QED
        BY <1>2, <1>3, <3>1, <3>3, <3>7, <4>1 DEF Found
    <3>8. QED
      BY <3>4, <3>6, <3>7 DEF Found
  <2>11. here = f \/ here < f \/ f < here
    BY <2>5
  <2>12. QED
    BY <2>8, <2>9, <2>10, <2>11
<1>6. QED
  BY <1>1, <1>4, <1>5

LEMMA FoundOnce ==
  ASSUME NEW s \in Nat, NEW e \in Nat, Ascending(s, e), NEW f \in Nat,
         NEW a \in s .. e, NEW b \in s .. e,
         NEW g, NEW h, Found(<<a, b>>, f, g), Found(<<a, b>>, f, h)
  PROVE  g = h
<1>1. \A i, j \in a + 1 .. b :
        dirmap.ent[i].fid = f /\ dirmap.ent[j].fid = f => ~(i < j)
  <2>1. \A i \in a + 1 .. b : i \in s + 1 .. e
    OBVIOUS
  <2>2. QED
    BY <2>1 DEF Ascending
<1>2. \A i \in a + 1 .. b : i \in Int /\ i # 0
  OBVIOUS
<1> DEFINE Absent == \A j \in a + 1 .. b : dirmap.ent[j].fid # f
<1>3. /\ (g = 0 /\ Absent) \/ (g \in a + 1 .. b /\ dirmap.ent[g].fid = f)
      /\ (h = 0 /\ Absent) \/ (h \in a + 1 .. b /\ dirmap.ent[h].fid = f)
  BY DEF Found
<1>4. CASE g \in a + 1 .. b /\ dirmap.ent[g].fid = f
           /\ h \in a + 1 .. b /\ dirmap.ent[h].fid = f
  <2>1. ~(g < h) /\ ~(h < g)
    BY <1>1, <1>4
  <2>2. QED
    BY <1>2, <1>4, <2>1
<1>5. QED
  BY <1>3, <1>4

\* On ascending entries binary search finds the name if and only if it is there.
LEMMA SearchFinds ==
  ASSUME NEW s \in Nat, NEW e \in Nat, s <= e, Ascending(s, e), NEW f \in Nat
  PROVE  Found(<<s, e>>, f, BinarySearch(s, e, f))
<1> DEFINE W == Windows(s, e)
           Solves(t) == t = [w \in W |-> Probe(t, w, f)]
<1>1. \A w \in W : /\ w = <<w[1], w[2]>> /\ w[1] \in s .. e /\ w[2] \in s .. e
  BY DEF Windows
<1>2. \A c, d \in s .. e : <<c, d>> \in W
  BY DEF Windows
<1>3. PICK g : g = [w \in W |-> CHOOSE h : Found(w, f, h)]
  OBVIOUS
<1>4. ASSUME NEW w \in W
      PROVE  Found(w, f, g[w])
  <2>1. \E h : Found(w, f, h)
    <3>1. CASE \A j \in w[1] + 1 .. w[2] : dirmap.ent[j].fid # f
      <4>1. Found(w, f, 0)
        BY <3>1 DEF Found
      <4>2. QED
        BY <4>1
    <3>2. CASE \E j \in w[1] + 1 .. w[2] : dirmap.ent[j].fid = f
      <4>1. PICK j \in w[1] + 1 .. w[2] : dirmap.ent[j].fid = f
        BY <3>2
      <4>2. Found(w, f, j)
        BY <4>1 DEF Found
      <4>3. QED
        BY <4>2
    <3>3. QED
      BY <3>1, <3>2
  <2>2. QED
    BY <1>3, <2>1
<1>5. Solves(g)
  <2>1. ASSUME NEW w \in W
        PROVE  g[w] = Probe(g, w, f)
    <3>1. PICK a \in s .. e, b \in s .. e : w = <<a, b>>
      BY <1>1
    <3>2. \A c, d \in s .. e : d - c < b - a => Found(<<c, d>>, f, g[<<c, d>>])
      BY <1>2, <1>4
    <3>3. Found(w, f, Probe(g, w, f))
      BY <3>1, <3>2, ProbeFinds
    <3>4. Found(w, f, g[w])
      BY <1>4
    <3>5. QED
      BY <3>1, <3>3, <3>4, FoundOnce
  <2>2. QED
    BY <1>3, <2>1
<1>6. PICK t : t = CHOOSE u : Solves(u)
  OBVIOUS
<1>7. Solves(t)
  BY <1>5, <1>6
<1>8. \A a, b \in s .. e : t[<<a, b>>] = Probe(t, <<a, b>>, f)
  BY <1>2, <1>7
<1>9. BinarySearch(s, e, f) = t[<<s, e>>]
  BY <1>6 DEF BinarySearch, Probe, Middle, Windows
<1> DEFINE Good(a, b) == Found(<<a, b>>, f, t[<<a, b>>])
           S == {k \in Nat : \A a, b \in s .. e : b - a < k => Good(a, b)}
<1>10. 0 \in S
  <2>1. ASSUME NEW a \in s .. e, NEW b \in s .. e, b - a < 0
        PROVE  Good(a, b)
    <3>1. PICK w : w = <<a, b>>
      OBVIOUS
    <3>2. w[1] = a /\ w[2] = b /\ a >= b
      BY <2>1, <3>1
    <3>3. t[w] = 0
      BY <1>8, <3>1, <3>2 DEF Probe
    <3>4. \A j \in a + 1 .. b : FALSE
      BY <2>1
    <3>5. Found(w, f, t[w])
      BY <3>2, <3>3, <3>4 DEF Found
    <3>6. QED
      BY <3>1, <3>5
  <2>2. QED
    BY <2>1
<1>11. ASSUME NEW k \in Nat, k \in S
       PROVE  k + 1 \in S
  <2>1. ASSUME NEW a \in s .. e, NEW b \in s .. e, b - a < k + 1
        PROVE  Good(a, b)
    <3>1. ASSUME NEW c \in s .. e, NEW d \in s .. e, d - c < b - a
          PROVE  Found(<<c, d>>, f, t[<<c, d>>])
      <4>1. d - c < k
        BY <2>1, <3>1
      <4>2. QED
        BY <1>11, <4>1
    <3>2. Found(<<a, b>>, f, Probe(t, <<a, b>>, f))
      BY <3>1, ProbeFinds
    <3>3. QED
      BY <1>8, <3>2
  <2>2. QED
    BY <2>1
<1>12. \A k \in Nat : k \in S
  <2>1. \A k \in Nat : k \in S => k + 1 \in S
    BY <1>11
  <2> HIDE DEF S
  <2>2. QED
    BY <1>10, <2>1, InductionInSet
<1>13. Good(s, e)
  <2>1. PICK k \in Nat : k = e - s + 1
    OBVIOUS
  <2>2. s \in s .. e /\ e \in s .. e /\ e - s < k
    BY <2>1
  <2>3. k \in S
    BY <1>12
  <2>4. QED
    BY <2>2, <2>3
<1>14. QED
  BY <1>9, <1>13

-----------------------------------------------------------------------------
(* hydrate implements the atomic construction of the exact table.            *)

Answer(d, f) ==
  IF d \in reached /\ f \in requested /\ DirectStep(d, f) # NoNode
    THEN [child |-> DirectStep(d, f), ty |-> NodeType[DirectStep(d, f)]] ELSE NoEntry

\* A name that is not in the row is not to be found.
LEMMA NotInRow ==
  ASSUME NEW d \in Node, NEW f \in Fid,
         \A p \in 1 .. Len(Row(d)) : Row(d)[p].fid # f
  PROVE  Answer(d, f) = NoEntry
<1>1. SUFFICES ASSUME d \in reached, f \in requested, DirectStep(d, f) # NoNode
               PROVE  FALSE
  BY DEF Answer
<1>2. Hits(d, f) # {}
  BY <1>1, DirectStepIs
<1>3. QED
  BY <1>1, <1>2, RowIs DEF RowExact

LEMMA LookupIs ==
  ASSUME Inv, pc = "done", NEW d \in Node, NEW f \in Fid
  PROVE  Lookup(d, f) = Answer(d, f)
<1>1. f \in Nat
  BY LabelAssumption
<1>2. PICK hit : hit = IF dirmap.index[d] + 1 = NoRank + 1 THEN 0
                       ELSE BinarySearch(dirmap.offsets[dirmap.index[d] + 1],
                                         dirmap.offsets[dirmap.index[d] + 1 + 1], f)
  OBVIOUS
<1>3. Lookup(d, f) = IF hit = 0 THEN NoEntry
                     ELSE [child |-> dirmap.ent[hit].child, ty |-> dirmap.ent[hit].ty]
  BY <1>2 DEF Lookup
<1>4. CASE Row(d) = <<>>
  <2>1. dirmap.index = IndexUpTo(Rows, Ranks, NumNodes)
    BY DoneIs DEF Merged, Indexed
  <2>2. dirmap.index[d] = NoRank
    BY <1>4, <2>1, TablesAre DEF IndexUpTo
  <2>3. Lookup(d, f) = NoEntry
    BY <1>2, <1>3, <2>2
  <2>4. \A p \in 1 .. Len(Row(d)) : FALSE
    BY <1>4, EmptySeq
  <2>5. QED
    BY <2>3, <2>4, NotInRow
<1>5. CASE Row(d) # <<>>
  <2>1. PICK r \in Nat : r = Ranks[d] /\ dirmap.index[d] = r
    BY <1>5, SliceIs
  <2>2. PICK from : from = dirmap.offsets[r + 1]
    OBVIOUS
  <2>3. PICK upto : upto = dirmap.offsets[r + 2]
    OBVIOUS
  <2>4. IsSliceOf(d, from, upto)
    BY <1>5, <2>1, <2>2, <2>3, SliceIs
  <2>5. from \in Nat /\ upto \in Nat /\ from <= upto
    BY <2>4, SliceAscends DEF IsSliceOf
  <2>6. Ascending(from, upto)
    BY <2>4, SliceAscends DEF Ascending
  <2>7. hit = BinarySearch(from, upto, f)
    <3>1. r + 1 # NoRank + 1 /\ r + 1 + 1 = r + 2
      BY DEF NoRank
    <3>2. QED
      BY <1>2, <2>1, <2>2, <2>3, <3>1
  <2>8. Found(<<from, upto>>, f, hit)
    BY <1>1, <2>5, <2>6, <2>7, SearchFinds
  <2>9. \/ hit = 0 /\ \A j \in from + 1 .. upto : dirmap.ent[j].fid # f
        \/ hit \in from + 1 .. upto /\ dirmap.ent[hit].fid = f
    BY <2>8 DEF Found
  <2>10. CASE hit = 0 /\ \A j \in from + 1 .. upto : dirmap.ent[j].fid # f
    <3>1. Lookup(d, f) = NoEntry
      BY <1>3, <2>10
    <3>2. ASSUME NEW p \in 1 .. Len(Row(d))
          PROVE  Row(d)[p].fid # f
      <4>1. dirmap.ent[from + p] = Row(d)[p] /\ upto = from + Len(Row(d))
        BY <2>4 DEF IsSliceOf
      <4>2. Len(Row(d)) \in Nat
        BY RowsTyped, TablesAre, EmptyRow
      <4>3. from + p \in from + 1 .. upto
        BY <2>5, <4>1, <4>2
      <4>4. QED
        BY <2>10, <4>1, <4>3
    <3>3. QED
      BY <3>1, <3>2, NotInRow
  <2>11. CASE hit \in from + 1 .. upto /\ dirmap.ent[hit].fid = f
    <3>1. hit # 0
      BY <2>5, <2>11
    <3>2. PICK p : p = hit - from
      OBVIOUS
    <3>3. p \in 1 .. Len(Row(d)) /\ dirmap.ent[hit] = Row(d)[p]
      BY <2>4, <2>11, <3>2, SliceAscends
    <3>4. Row(d)[p].fid = f
      BY <2>11, <3>3
    <3>5. /\ Row(d)[p] = EntryOf(d, f) /\ f \in requested /\ d \in reached
          /\ DirectStep(d, f) # NoNode
      BY <3>3, <3>4, RowIs DEF RowExact
    <3>6. /\ dirmap.ent[hit].child = DirectStep(d, f)
          /\ dirmap.ent[hit].ty = NodeType[DirectStep(d, f)]
      BY <3>3, <3>5 DEF EntryOf
    <3>7. QED
      BY <1>3, <3>1, <3>5, <3>6 DEF Answer
  <2>12. QED
    BY <2>9, <2>10, <2>11
<1>6. QED
  BY <1>4, <1>5

AbsTable == IF pc = "done" THEN Table ELSE << >>
AbsFailed == pc = "aborted"
absVars == <<reached, requested, AbsTable, AbsFailed>>

LEMMA TableExact == Inv /\ pc = "done" => AbsTable = Abstract!ExactTable
<1> SUFFICES ASSUME Inv, pc = "done"
             PROVE  AbsTable = Abstract!ExactTable
  OBVIOUS
<1>1. Abstract!Node = Node /\ Abstract!NoNode = NoNode /\ Abstract!NoEntry = NoEntry
  BY DEF Abstract!Node, Node, Abstract!NoNode, NoNode, Abstract!NoEntry, NoEntry
<1>2. \A d, f : Abstract!DirectStep(d, f) = DirectStep(d, f)
  BY DEF Abstract!DirectStep, DirectStep, Abstract!IsNamed, IsNamed,
         Abstract!NoNode, NoNode
<1>3. \A d \in Node, f \in Fid : Lookup(d, f) = Abstract!Exact(d, f)
  BY <1>1, <1>2, LookupIs DEF Answer, Abstract!Exact
<1>4. \A key \in Node \X Fid : Lookup(key[1], key[2]) = Abstract!Exact(key[1], key[2])
  BY <1>3
<1>5. Table = Abstract!ExactTable
  BY <1>1, <1>4 DEF Table, Abstract!ExactTable
<1>6. QED
  BY <1>5 DEF AbsTable

LEMMA InitRefines == Init => Abstract!Init
<1> SUFFICES ASSUME Init PROVE Abstract!Init
  OBVIOUS
<1>1. Abstract!Directory = Directory
  BY DEF Abstract!Directory, Directory, Abstract!IsDir, IsDir, Abstract!Node, Node
<1>2. reached \in SUBSET Directory /\ requested \in SUBSET Fid /\ pc = "check"
  BY DEF Init
<1>3. AbsTable = << >> /\ AbsFailed = FALSE
  BY <1>2 DEF AbsTable, AbsFailed
<1>4. QED
  BY <1>1, <1>2, <1>3 DEF Abstract!Init, AbsTable, AbsFailed

LEMMA StepRefines ==
  Inv /\ Inv' /\ [Next]_vars => [Abstract!Next]_absVars
<1> SUFFICES ASSUME Inv, Inv', [Next]_vars
             PROVE  [Abstract!Next]_absVars
  OBVIOUS
<1>1. CASE SizesDiffer \/ TooManyDirs
  <2>1. pc \in {"check", "scan"} /\ pc' = "aborted" /\ UNCHANGED <<reached, requested>>
    BY <1>1 DEF SizesDiffer, TooManyDirs, inputs
  <2>2. AbsTable = << >> /\ AbsTable' = << >>
    BY <2>1 DEF AbsTable
  <2>3. AbsFailed = FALSE /\ AbsFailed' = TRUE
    BY <2>1 DEF AbsFailed
  <2>4. Abstract!Abort
    BY <2>1, <2>2, <2>3 DEF Abstract!Abort, AbsTable, AbsFailed
  <2>5. QED
    BY <2>4 DEF Abstract!Next
<1>2. CASE Return
  <2>1. pc = "copy" /\ pc' = "done" /\ UNCHANGED <<reached, requested>>
    BY <1>2 DEF Return, inputs
  <2>2. AbsTable = << >> /\ AbsFailed = FALSE /\ AbsFailed' = FALSE
    BY <2>1 DEF AbsTable, AbsFailed
  <2>3. AbsTable' = (Abstract!ExactTable)'
    <3>1. (Inv /\ pc = "done" => AbsTable = Abstract!ExactTable)'
      BY TableExact, PTL
    <3>2. QED
      BY <2>1, <3>1
  <2>4. (Abstract!ExactTable)' = Abstract!ExactTable
    BY <2>1 DEF Abstract!ExactTable, Abstract!Exact
  <2>5. Abstract!Build
    BY <2>1, <2>2, <2>3, <2>4 DEF Abstract!Build, AbsTable, AbsFailed
  <2>6. QED
    BY <2>5 DEF Abstract!Next
<1>3. ASSUME pc \notin {"done", "aborted"}, pc' \notin {"done", "aborted"},
             UNCHANGED <<reached, requested>>
      PROVE  UNCHANGED absVars
  <2>1. AbsTable = << >> /\ AbsTable' = << >>
    BY <1>3 DEF AbsTable
  <2>2. AbsFailed = FALSE /\ AbsFailed' = FALSE
    BY <1>3 DEF AbsFailed
  <2>3. QED
    BY <1>3, <2>1, <2>2 DEF absVars
<1>4. CASE ChooseMode \/ StartMerge \/ IndexShard \/ StartCopy \/ CopyShard
  BY <1>3, <1>4 DEF ChooseMode, StartMerge, IndexShard, StartCopy, CopyShard, inputs
<1>5. ASSUME NEW w \in Workers, Decoder(w)
      PROVE  UNCHANGED absVars
  BY <1>3, <1>5 DEF Decoder, PassOver, DecodeNothing, DecodeDir, Scanning, inputs
<1>6. CASE Over \/ UNCHANGED vars
  <2>1. UNCHANGED <<reached, requested, pc, dirmap>>
    BY <1>6 DEF Over, vars
  <2>2. Table' = Table
    BY <2>1 DEF Table, Lookup, BinarySearch
  <2>3. AbsTable' = AbsTable /\ AbsFailed' = AbsFailed
    BY <2>1, <2>2 DEF AbsTable, AbsFailed
  <2>4. QED
    BY <2>1, <2>3 DEF absVars
<1>7. QED
  BY <1>1, <1>2, <1>4, <1>5, <1>6 DEF Next, Caller

\* For every cut into bands, every interleaving of the decoders and either scan
\* mode, hydrate is one atomic construction of the exact table: lookup answers
\* with the entry the direct walk would take, exactly for reached directories
\* and requested names.
THEOREM HydrateImplementsDirMapSpec == Spec => ImplementsDirMapSpec
<1>1. Spec => Abstract!Init /\ [][Abstract!Next]_absVars
  BY Invariance, InitRefines, StepRefines, PTL DEF Spec
<1>2. QED
  BY <1>1 DEF ImplementsDirMapSpec, Abstract!Spec, absVars, AbsTable, AbsFailed
=============================================================================
