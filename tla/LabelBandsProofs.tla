-------------------------- MODULE LabelBandsProofs --------------------------
(***************************************************************************)
(* Proofs about the band computation, for every label offset index and     *)
(* every number of bands.                                                  *)
(***************************************************************************)
EXTENDS LabelBands, TLAPS

-----------------------------------------------------------------------------
(* Integer division and the targets.                                       *)

LEMMA QuotientBounds ==
  ASSUME NEW x \in Nat, NEW d \in Nat \ {0}
  PROVE  /\ x \div d \in Nat
         /\ d * (x \div d) <= x
         /\ x < d * (x \div d) + d
OBVIOUS

LEMMA ProductStep ==
  ASSUME NEW d \in Nat, NEW p \in Nat, NEW q \in Nat, p < q
  PROVE  d * p + d <= d * q
<1>1. d * (p + 1) <= d * q
  OBVIOUS
<1>2. QED
  BY <1>1

LEMMA DivMonotone ==
  ASSUME NEW x \in Nat, NEW y \in Nat, NEW d \in Nat \ {0}, x <= y
  PROVE  x \div d <= y \div d
<1> PICK p \in Nat, q \in Nat : p = x \div d /\ q = y \div d
  BY QuotientBounds
<1>1. d * p <= x /\ y < d * q + d
  BY QuotientBounds
<1>2. SUFFICES ASSUME q < p PROVE FALSE
  OBVIOUS
<1>3. d * q + d <= d * p
  BY <1>2, ProductStep
<1>4. d * p \in Int /\ d * q \in Int
  OBVIOUS
<1>5. QED
  BY <1>1, <1>3, <1>4

LEMMA ExactDiv ==
  ASSUME NEW t \in Nat, NEW d \in Nat \ {0}
  PROVE  (t * d) \div d = t
<1> PICK x \in Nat : x = t * d
  OBVIOUS
<1> PICK q \in Nat : q = x \div d
  BY QuotientBounds
<1>1. d * q <= x /\ x < d * q + d
  BY QuotientBounds
<1>2. d * t = x /\ d * q \in Int
  OBVIOUS
<1>3. ~(q < t)
  BY <1>1, <1>2, ProductStep
<1>4. ~(t < q)
  BY <1>1, <1>2, ProductStep
<1>5. QED
  BY <1>3, <1>4

LEMMA ProductMonotone ==
  ASSUME NEW t \in Nat, NEW a \in Nat, NEW b \in Nat, a <= b
  PROVE  t * a \in Nat /\ t * b \in Nat /\ t * a <= t * b
OBVIOUS

LEMMA OffsetIndex ==
  ASSUME TypeOK
  PROVE  /\ NumNodes \in Nat
         /\ ef \in [0 .. NumNodes -> Nat]
         /\ \A m, n \in 0 .. NumNodes : m <= n => ef[m] <= ef[n]
         /\ TotalBits \in Nat
         /\ \A n \in 0 .. NumNodes : ef[n] \in Nat /\ ef[n] <= TotalBits
BY BandsAssumption DEF TypeOK, IsOffsetIndex, TotalBits

LEMMA Targets ==
  ASSUME TypeOK
  PROVE  /\ \A j \in 0 .. k : Target(j) \in Nat /\ Target(j) <= TotalBits
         /\ \A a, b \in 0 .. k : a <= b => Target(a) <= Target(b)
<1>1. k \in Nat \ {0} /\ TotalBits \in Nat
  BY OffsetIndex DEF TypeOK
<1> PICK t \in Nat : t = TotalBits
  BY <1>1
<1>2. ASSUME NEW a \in 0 .. k, NEW b \in 0 .. k, a <= b
      PROVE  Target(a) \in Nat /\ Target(a) <= Target(b)
  <2>1. t * a \in Nat /\ t * b \in Nat /\ t * a <= t * b
    BY <1>1, <1>2, ProductMonotone
  <2>2. (t * a) \div k \in Nat /\ (t * a) \div k <= (t * b) \div k
    BY <1>1, <2>1, DivMonotone, QuotientBounds
  <2>3. QED
    BY <2>2 DEF Target
<1>3. Target(k) = t
  BY <1>1, ExactDiv DEF Target
<1>4. ASSUME NEW j \in 0 .. k
      PROVE  Target(j) \in Nat /\ Target(j) <= TotalBits
  BY <1>1, <1>2, <1>3
<1>5. QED
  BY <1>2, <1>4

-----------------------------------------------------------------------------
(* The inductive invariant: the binary search's loop invariant, the fixed    *)
(* ends, and what the recorded boundaries are.                               *)

IndexInv ==
  /\ pc = "next" => i \in 1 .. k
  /\ pc = "search" => i \in 1 .. k - 1
  /\ pc \in {"repair", "done"} => i \in 1 .. k + 1

EndsInv == bounds[0] = 0 /\ bounds[k] = NumNodes

SearchInv ==
  pc = "search" =>
    /\ lo <= hi
    /\ \A n \in 0 .. NumNodes : n < lo => ef[n] < Target(i)
    /\ ef[hi] >= Target(i)

BInv == TypeOK /\ IndexInv /\ EndsInv /\ SearchInv /\ SearchExact

LEMMA Ordered ==
  ASSUME BInv, pc \in {"repair", "done"}, NEW j \in 1 .. k
  PROVE  bounds[j - 1] <= bounds[j]
<1>1. TypeOK /\ k \in Nat \ {0} /\ NumNodes \in Nat
  BY OffsetIndex DEF BInv, TypeOK
<1>2. /\ bounds[j] \in 0 .. NumNodes /\ bounds[j - 1] \in 0 .. NumNodes
  BY <1>1 DEF TypeOK
<1>3. CASE j = 1
  BY <1>1, <1>2, <1>3 DEF BInv, EndsInv
<1>4. CASE j = k
  BY <1>1, <1>2, <1>4 DEF BInv, EndsInv
<1>5. CASE j # 1 /\ j # k
  <2>1. j \in 1 .. k - 1 /\ j - 1 \in 1 .. k - 1
    BY <1>1, <1>5
  <2>2. /\ IsFirstAtBit(bounds[j], Target(j))
        /\ IsFirstAtBit(bounds[j - 1], Target(j - 1))
    BY <2>1 DEF BInv, SearchExact
  <2>3. /\ Target(j) \in Nat /\ Target(j - 1) \in Nat
        /\ Target(j - 1) <= Target(j)
    BY <1>1, <2>1, Targets
  <2>4. ef[bounds[j]] \in Nat
    BY <1>1, <1>2, OffsetIndex
  <2>5. QED
    BY <1>2, <2>2, <2>3, <2>4 DEF IsFirstAtBit
<1>6. QED
  BY <1>3, <1>4, <1>5

LEMMA InitBInv == Init => BInv
<1> SUFFICES ASSUME Init PROVE BInv
  OBVIOUS
<1>1. k \in Nat \ {0}
  BY BandsAssumption DEF Init
<1>2. TypeOK
  BY <1>1, BandsAssumption DEF Init, TypeOK
<1>3. EndsInv
  <2>1. /\ bounds = [j \in 0 .. k |-> IF j = k THEN NumNodes ELSE 0]
        /\ 0 \in 0 .. k /\ k \in 0 .. k /\ 0 # k
    BY <1>1 DEF Init
  <2>2. QED
    BY <2>1 DEF EndsInv
<1>4. IndexInv /\ SearchInv
  BY <1>1 DEF Init, IndexInv, SearchInv
<1>5. SearchExact
  BY <1>1 DEF Init, SearchExact
<1>6. QED
  BY <1>2, <1>3, <1>4, <1>5 DEF BInv

LEMMA SameIndex ==
  ASSUME UNCHANGED <<ef, k>>
  PROVE  /\ \A j : Target(j)' = Target(j)
         /\ \A m, t : IsFirstAtBit(m, t)' <=> IsFirstAtBit(m, t)
BY DEF Target, TotalBits, IsFirstAtBit

LEMMA StartSearchStep == BInv /\ StartSearch => BInv'
<1> SUFFICES ASSUME BInv, StartSearch PROVE BInv'
  OBVIOUS
<1> USE DEF StartSearch
<1>1. TypeOK /\ NumNodes \in Nat /\ k \in Nat \ {0} /\ i \in 1 .. k - 1
  BY OffsetIndex DEF BInv, TypeOK, IndexInv
<1>2. TypeOK' /\ IndexInv' /\ EndsInv'
  BY <1>1 DEF BInv, TypeOK, IndexInv, EndsInv
<1>3. SearchInv'
  <2>1. Target(i) \in Nat /\ Target(i) <= ef[NumNodes]
    BY <1>1, Targets DEF TotalBits
  <2>2. QED
    BY <1>1, <2>1, OffsetIndex, SameIndex DEF SearchInv
<1>4. SearchExact'
  BY <1>1, SameIndex DEF BInv, SearchExact
<1>5. QED
  BY <1>2, <1>3, <1>4 DEF BInv

LEMMA ProbeStep == BInv /\ Probe => BInv'
<1> SUFFICES ASSUME BInv, Probe PROVE BInv'
  OBVIOUS
<1>1. /\ pc = "search" /\ lo < hi
      /\ UNCHANGED <<ef, k, pc, i, bounds>>
      /\ \/ ef[Mid] >= Target(i) /\ hi' = Mid /\ lo' = lo
         \/ ~(ef[Mid] >= Target(i)) /\ lo' = Mid + 1 /\ hi' = hi
  BY DEF Probe, RaiseLo
<1>2. /\ TypeOK /\ NumNodes \in Nat /\ k \in Nat \ {0} /\ i \in 1 .. k - 1
      /\ lo \in 0 .. NumNodes /\ hi \in 0 .. NumNodes
  BY <1>1, OffsetIndex DEF BInv, TypeOK, IndexInv
<1>3. Mid \in lo .. hi - 1
  <2>1. (hi - lo) \div 2 \in Nat /\ (hi - lo) \div 2 < hi - lo
    BY <1>1, <1>2
  <2>2. QED
    BY <1>1, <1>2, <2>1 DEF Mid
<1>4. TypeOK' /\ IndexInv' /\ EndsInv'
  BY <1>1, <1>2, <1>3 DEF BInv, TypeOK, IndexInv, EndsInv
<1>5. SearchInv'
  <2>1. Target(i)' = Target(i) /\ Target(i) \in Nat
    BY <1>1, <1>2, Targets DEF Target, TotalBits
  <2>2. CASE ef[Mid] >= Target(i) /\ hi' = Mid /\ lo' = lo
    BY <1>1, <1>2, <1>3, <2>1, <2>2 DEF BInv, SearchInv
  <2>3. CASE ~(ef[Mid] >= Target(i)) /\ lo' = Mid + 1 /\ hi' = hi
    <3>1. ASSUME NEW n \in 0 .. NumNodes, n < Mid + 1
          PROVE  ef[n] < Target(i)
      <4>1. ef[n] <= ef[Mid] /\ ef[n] \in Nat /\ ef[Mid] \in Nat
        BY <1>2, <1>3, <3>1, OffsetIndex
      <4>2. QED
        BY <2>1, <2>3, <4>1
    <3>2. QED
      BY <1>1, <1>2, <1>3, <2>1, <2>3, <3>1 DEF BInv, SearchInv
  <2>4. QED
    BY <1>1, <2>2, <2>3
<1>6. SearchExact'
  BY <1>1, SameIndex DEF BInv, SearchExact
<1>7. QED
  BY <1>4, <1>5, <1>6 DEF BInv

LEMMA RecordStep == BInv /\ Record => BInv'
<1> SUFFICES ASSUME BInv, Record PROVE BInv'
  OBVIOUS
<1> USE DEF Record
<1>1. /\ TypeOK /\ NumNodes \in Nat /\ k \in Nat \ {0} /\ i \in 1 .. k - 1
      /\ lo \in 0 .. NumNodes /\ hi \in 0 .. NumNodes /\ lo = hi
      /\ bounds \in [0 .. k -> 0 .. NumNodes]
  <2>1. TypeOK /\ pc = "search" /\ lo \in Nat /\ hi \in Nat /\ lo <= hi /\ hi <= lo
    BY OffsetIndex DEF BInv, SearchInv, TypeOK
  <2>2. NumNodes \in Nat
    BY <2>1, OffsetIndex
  <2>3. i \in 1 .. k - 1
    BY <2>1 DEF BInv, IndexInv
  <2>4. QED
    BY <2>1, <2>2, <2>3 DEF TypeOK
<1>2. IsFirstAtBit(lo, Target(i))
  BY <1>1 DEF BInv, SearchInv, IsFirstAtBit
<1>3. bounds'[i] = lo /\ \A j \in 0 .. k : j # i => bounds'[j] = bounds[j]
  BY <1>1
<1>4. TypeOK' /\ IndexInv' /\ EndsInv' /\ SearchInv'
  BY <1>1, <1>3 DEF BInv, TypeOK, IndexInv, EndsInv, SearchInv
<1>5. SearchExact'
  <2>1. ASSUME NEW j \in 1 .. k - 1, j < i + 1
        PROVE  IsFirstAtBit(bounds'[j], Target(j))
    <3>1. CASE j = i
      BY <1>2, <1>3, <3>1, <1>1
    <3>2. CASE j # i
      <4>1. j < i /\ bounds'[j] = bounds[j]
        BY <1>1, <1>3, <2>1, <3>2
      <4>2. QED
        BY <4>1 DEF BInv, SearchExact
    <3>3. QED
      BY <3>1, <3>2
  <2>2. QED
    BY <1>1, <2>1 DEF SearchExact, IsFirstAtBit, Target, TotalBits
<1>6. QED
  BY <1>4, <1>5 DEF BInv

LEMMA StartRepairStep == BInv /\ StartRepair => BInv'
<1> SUFFICES ASSUME BInv, StartRepair PROVE BInv'
  OBVIOUS
<1> USE DEF StartRepair
<1>1. TypeOK /\ k \in Nat \ {0} /\ i = k
  BY DEF BInv, TypeOK, IndexInv
<1>2. TypeOK' /\ IndexInv' /\ EndsInv' /\ SearchInv'
  BY <1>1 DEF BInv, TypeOK, IndexInv, EndsInv, SearchInv
<1>3. SearchExact'
  BY <1>1, SameIndex DEF BInv, SearchExact
<1>4. QED
  BY <1>2, <1>3 DEF BInv

\* The repair loop writes back what it reads.
LEMMA RepairWritesNothing == BInv /\ Repair => UNCHANGED bounds
<1> SUFFICES ASSUME BInv, Repair PROVE UNCHANGED bounds
  OBVIOUS
<1>1. /\ i \in 1 .. k /\ k \in Nat \ {0} /\ NumNodes \in Nat
      /\ bounds \in [0 .. k -> 0 .. NumNodes]
      /\ bounds' = [bounds EXCEPT ![i] =
                      IF @ < bounds[i - 1] THEN bounds[i - 1] ELSE @]
  BY BandsAssumption DEF BInv, TypeOK, IndexInv, Repair
<1>2. bounds[i - 1] <= bounds[i]
  BY <1>1, Ordered DEF Repair
<1>3. ~(bounds[i] < bounds[i - 1])
  BY <1>1, <1>2
<1>4. QED
  BY <1>1, <1>3

LEMMA RepairStep == BInv /\ Repair => BInv'
<1> SUFFICES ASSUME BInv, Repair PROVE BInv'
  OBVIOUS
<1>1. /\ UNCHANGED bounds /\ UNCHANGED <<ef, k, pc, lo, hi>>
      /\ pc = "repair" /\ i \in 1 .. k /\ i' = i + 1 /\ k \in Nat \ {0}
  BY RepairWritesNothing DEF Repair, BInv, TypeOK, IndexInv
<1>2. TypeOK' /\ IndexInv' /\ EndsInv' /\ SearchInv'
  BY <1>1 DEF BInv, TypeOK, IndexInv, EndsInv, SearchInv
<1>3. SearchExact'
  BY <1>1, SameIndex DEF BInv, SearchExact
<1>4. QED
  BY <1>2, <1>3 DEF BInv

LEMMA FinishStep == BInv /\ Finish => BInv'
<1> SUFFICES ASSUME BInv, Finish PROVE BInv'
  OBVIOUS
<1> USE DEF Finish
<1>1. TypeOK' /\ IndexInv' /\ EndsInv' /\ SearchInv'
  BY DEF BInv, TypeOK, IndexInv, EndsInv, SearchInv
<1>2. SearchExact'
  BY SameIndex DEF BInv, SearchExact
<1>3. QED
  BY <1>1, <1>2 DEF BInv

LEMMA StutterStep == BInv /\ UNCHANGED vars => BInv'
<1> SUFFICES ASSUME BInv, UNCHANGED vars PROVE BInv'
  OBVIOUS
<1> USE DEF vars
<1>1. TypeOK' /\ IndexInv' /\ EndsInv'
  BY DEF BInv, TypeOK, IndexInv, EndsInv
<1>2. SearchInv' /\ SearchExact'
  BY SameIndex DEF BInv, SearchInv, SearchExact
<1>3. QED
  BY <1>1, <1>2 DEF BInv

LEMMA NextBInv == BInv /\ [Next]_vars => BInv'
BY StartSearchStep, ProbeStep, RecordStep, StartRepairStep, RepairStep,
   FinishStep, StutterStep DEF Next, Returned

-----------------------------------------------------------------------------
(* The theorems.                                                             *)

\* The search's loop invariant holds for every index and every K.
THEOREM Invariance == Spec => []BInv
<1>1. QED
  BY InitBInv, NextBInv, PTL DEF Spec

\* No index into ef or bounds is out of range.
THEOREM TypeCorrect == Spec => []TypeOK
<1>1. BInv => TypeOK
  BY DEF BInv
<1>2. QED
  BY <1>1, Invariance, PTL

\* first_node_at_bit returns the smallest node at or after its target bit.
THEOREM SearchReturnsFirstNode == Spec => []SearchExact
<1>1. BInv => SearchExact
  BY DEF BInv
<1>2. QED
  BY <1>1, Invariance, PTL

\* The bands partition the node space, whatever the offsets and K.
THEOREM BandsCoverEachNodeOnce == Spec => []BandsPartition
<1>1. BInv => BandsPartition
  BY Ordered DEF BandsPartition, BInv, EndsInv
<1>2. QED
  BY <1>1, Invariance, PTL

\* A band starts at or after its own target and, but for its last node, ends
\* before the next one: with first_node_at_bit exact, no band exceeds its share
\* of the label bytes by the labels of more than one node.
THEOREM BandsShareLabels == Spec => []BandsBalanced
<1>1. BInv => BandsBalanced
  <2> SUFFICES ASSUME BInv, pc = "done", NEW j \in 1 .. k, bounds[j - 1] < bounds[j]
               PROVE  ef[bounds[j] - 1] - ef[bounds[j - 1]] <= Target(j) - Target(j - 1)
    BY DEF BandsBalanced
  <2>1. /\ TypeOK /\ k \in Nat \ {0} /\ NumNodes \in Nat /\ j - 1 \in 0 .. k /\ j \in 0 .. k
        /\ TotalBits \in Nat
    BY OffsetIndex DEF BInv, TypeOK
  <2>2. /\ bounds[j] \in 0 .. NumNodes /\ bounds[j - 1] \in 0 .. NumNodes
        /\ bounds[j] - 1 \in 0 .. NumNodes /\ bounds[j] - 1 < bounds[j]
    BY <2>1 DEF TypeOK
  <2>3. /\ ef[bounds[j] - 1] \in Nat /\ ef[bounds[j] - 1] <= TotalBits
        /\ ef[bounds[j - 1]] \in Nat
    BY <2>1, <2>2, OffsetIndex
  <2>4. Target(j) \in Nat /\ Target(j - 1) \in Nat
    BY <2>1, Targets
  <2>5. Target(j - 1) <= ef[bounds[j - 1]]
    <3>1. CASE j = 1
      <4>1. Target(j - 1) = 0
        BY <2>1, <3>1 DEF Target
      <4>2. QED
        BY <2>3, <4>1
    <3>2. CASE j # 1
      <4>1. j - 1 \in 1 .. k - 1
        BY <2>1, <3>2
      <4>2. IsFirstAtBit(bounds[j - 1], Target(j - 1))
        BY <4>1 DEF BInv, SearchExact
      <4>3. QED
        BY <2>3, <2>4, <4>2 DEF IsFirstAtBit
    <3>3. QED
      BY <3>1, <3>2
  <2>6. ef[bounds[j] - 1] <= Target(j)
    <3>1. CASE j = k
      <4>1. Target(j) = TotalBits
        BY <2>1, <3>1, ExactDiv DEF Target
      <4>2. QED
        BY <2>3, <4>1
    <3>2. CASE j # k
      <4>1. j \in 1 .. k - 1
        BY <2>1, <3>2
      <4>2. IsFirstAtBit(bounds[j], Target(j))
        BY <4>1 DEF BInv, SearchExact
      <4>3. QED
        BY <2>2, <2>3, <2>4, <4>2 DEF IsFirstAtBit
    <3>3. QED
      BY <3>1, <3>2
  <2>7. QED
    BY <2>3, <2>4, <2>5, <2>6
<1>2. QED
  BY <1>1, Invariance, PTL

\* The monotonicity clean-up is dead code.
THEOREM CleanUpChangesNothing == Spec => RepairIsNoOp
<1>1. BInv /\ [Next]_vars => [pc = "repair" => UNCHANGED bounds]_vars
  BY RepairWritesNothing DEF Next, StartSearch, Probe, Record, StartRepair,
     Finish, Returned
<1>2. QED
  BY <1>1, Invariance, PTL DEF Spec, RepairIsNoOp

=============================================================================
