----------------------------- MODULE LabelBands -----------------------------
(***************************************************************************)
(* ntf::hydrate, first part: cutting the node space into K contiguous      *)
(* bands of about equal label bytes.  Each inner boundary is found by a    *)
(* binary search (first_node_at_bit) over the label offset index ef, whose *)
(* entry n is the bit at which the labels of node n start; a clean-up loop *)
(* then makes the boundaries monotone.                                     *)
(***************************************************************************)
EXTENDS Integers

CONSTANTS
  NumNodes,      \* ef.len() - 1
  Offsets,       \* the label offset indexes considered
  KArgs          \* values of --hydrate-k considered

\* Elias-Fano sequences are monotone; the first label starts at bit 0.
IsOffsetIndex(e) ==
  /\ e \in [0 .. NumNodes -> Nat]
  /\ e[0] = 0
  /\ \A m, n \in 0 .. NumNodes : m <= n => e[m] <= e[n]

ASSUME BandsAssumption ==
  /\ NumNodes \in Nat
  /\ \A e \in Offsets : IsOffsetIndex(e)
  /\ KArgs \subseteq Nat

VARIABLES
  ef,         \* the label offset index
  k,          \* number of bands
  pc,         \* "next", "search", "repair" or "done"
  i,          \* boundary being computed or repaired
  lo, hi,     \* the binary search's interval
  bounds      \* bounds[j]: first node of band j

vars == <<ef, k, pc, i, lo, hi, bounds>>

TotalBits == ef[NumNodes]

\* `(total_bits as u128 * i as u128 / k as u128) as usize`: the product does
\* not wrap.
\* @mutants of Target: the product wraps at the word size (here 8); the cut of
\* the boundary before.
TargetWraps(j) == ((TotalBits * j) % 8) \div k
TargetShifted(j) == (TotalBits * (j - 1)) \div k

Target(j) == (TotalBits * j) \div k

\* @mutant of Init: the end of the last band is not set.
InitNoEnd ==
  /\ ef \in Offsets
  /\ k \in {IF a > 1 THEN a ELSE 1 : a \in KArgs}
  /\ pc = "next"
  /\ i = 1
  /\ lo = 0 /\ hi = 0
  /\ bounds = [j \in 0 .. k |-> 0]

Init ==
  /\ ef \in Offsets
  /\ k \in {IF a > 1 THEN a ELSE 1 : a \in KArgs}     \* k.max(1)
  /\ pc = "next"
  /\ i = 1
  /\ lo = 0 /\ hi = 0
  /\ bounds = [j \in 0 .. k |-> IF j = k THEN NumNodes ELSE 0]

\* @mutant of StartSearch: the interval ends at ef.len().
StartSearchLen ==
  /\ pc = "next" /\ i < k
  /\ pc' = "search"
  /\ lo' = 0 /\ hi' = NumNodes + 1
  /\ UNCHANGED <<ef, k, i, bounds>>

\* `for i in 1..k`: the next call of first_node_at_bit.
StartSearch ==
  /\ pc = "next" /\ i < k
  /\ pc' = "search"
  /\ lo' = 0 /\ hi' = NumNodes
  /\ UNCHANGED <<ef, k, i, bounds>>

Mid == lo + (hi - lo) \div 2

\* @mutant of RaiseLo: the lower end is moved to the probe, not past it.
RaiseLoToMid == lo' = Mid /\ UNCHANGED hi

RaiseLo == lo' = Mid + 1 /\ UNCHANGED hi

\* @mutant of Probe: strictly greater.
ProbeStrict ==
  /\ pc = "search" /\ lo < hi
  /\ IF ef[Mid] > Target(i) THEN hi' = Mid /\ UNCHANGED lo ELSE RaiseLo
  /\ UNCHANGED <<ef, k, pc, i, bounds>>

Probe ==
  /\ pc = "search" /\ lo < hi
  /\ IF ef[Mid] >= Target(i) THEN hi' = Mid /\ UNCHANGED lo ELSE RaiseLo
  /\ UNCHANGED <<ef, k, pc, i, bounds>>

Record ==
  /\ pc = "search" /\ lo >= hi
  /\ bounds' = [bounds EXCEPT ![i] = lo]
  /\ i' = i + 1
  /\ pc' = "next"
  /\ UNCHANGED <<ef, k, lo, hi>>

StartRepair ==
  /\ pc = "next" /\ i >= k
  /\ pc' = "repair"
  /\ i' = 1
  /\ UNCHANGED <<ef, k, lo, hi, bounds>>

\* `if bounds[i] < bounds[i - 1] { bounds[i] = bounds[i - 1]; }`
Repair ==
  /\ pc = "repair" /\ i <= k
  /\ bounds' = [bounds EXCEPT ![i] = IF @ < bounds[i - 1] THEN bounds[i - 1] ELSE @]
  /\ i' = i + 1
  /\ UNCHANGED <<ef, k, pc, lo, hi>>

Finish ==
  /\ pc = "repair" /\ i > k
  /\ pc' = "done"
  /\ UNCHANGED <<ef, k, i, lo, hi, bounds>>

Returned == pc = "done" /\ UNCHANGED vars

Next ==
  StartSearch \/ Probe \/ Record \/ StartRepair \/ Repair \/ Finish \/ Returned

\* Straight-line code of the calling thread: it runs as long as it can.
Spec == Init /\ [][Next]_vars /\ WF_vars(Next)

-----------------------------------------------------------------------------

TypeOK ==
  /\ ef \in Offsets
  /\ k \in Nat \ {0}
  /\ pc \in {"next", "search", "repair", "done"}
  /\ i \in Nat \ {0}
  /\ lo \in 0 .. NumNodes /\ hi \in 0 .. NumNodes
  /\ bounds \in [0 .. k -> 0 .. NumNodes]

\* The doc of first_node_at_bit: m is the smallest node whose labels start at
\* or after bit t.
IsFirstAtBit(m, t) ==
  /\ ef[m] >= t
  /\ \A n \in 0 .. NumNodes : n < m => ef[n] < t

\* Every recorded boundary is that node for its target.
SearchExact ==
  \A j \in 1 .. k - 1 :
    (pc \in {"repair", "done"} \/ j < i) => IsFirstAtBit(bounds[j], Target(j))

\* The bands hydrate scans partition the node space: no node is scanned by two
\* decoders or by none, and band order is node order.
BandsPartition ==
  pc = "done" =>
    /\ bounds[0] = 0 /\ bounds[k] = NumNodes
    /\ \A j \in 1 .. k : bounds[j - 1] <= bounds[j]

\* The clean-up loop never finds anything to clean.
RepairIsNoOp == [][pc = "repair" => UNCHANGED bounds]_vars

\* "~equal LABEL BYTES": without its last node a band is within its share, so
\* it exceeds the share by less than the labels of one node.
BandsBalanced ==
  pc = "done" =>
    \A j \in 1 .. k : bounds[j - 1] < bounds[j] =>
      ef[bounds[j] - 1] - ef[bounds[j - 1]] <= Target(j) - Target(j - 1)

\* The search and both loops end.
BandsComputed == <>(pc = "done")
=============================================================================
