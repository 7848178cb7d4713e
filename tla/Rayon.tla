------------------------------- MODULE Rayon --------------------------------
(***************************************************************************)
(* What the folds of this repository rely on in rayon: `into_par_iter` on  *)
(* a range, `fold` and `reduce` cut the range into neighbouring pieces, at *)
(* positions nobody controls, fold each piece from left to right, and      *)
(* reduce neighbours, the left one first, in any grouping.                 *)
(***************************************************************************)
EXTENDS Integers, FiniteSets

\* The pieces [at, hi) of the range [lo, hi), cut at the given positions.
Cut(lo, hi, cuts) ==
  LET ends == cuts \cup {hi}
      end(p) == CHOOSE e \in ends : Cardinality({c \in ends : c <= e}) = p
  IN  [p \in 1 .. Cardinality(ends) |->
         [at |-> IF p = 1 THEN lo ELSE end(p - 1), hi |-> end(p)]]

\* Where the range may be cut.
CutsOf(lo, hi) == SUBSET (lo + 1 .. hi - 1)

\* The pieces once p and its right neighbour are reduced to one.
Joined(pieces, p, one) ==
  [q \in 1 .. Cardinality(DOMAIN pieces) - 1 |->
     IF q < p THEN pieces[q] ELSE IF q > p THEN pieces[q + 1] ELSE one]
=============================================================================
