---------------------------- MODULE MCLabelBands ----------------------------
(***************************************************************************)
(* Every label offset index over 4 nodes with 0 to 3 bits of labels per    *)
(* node (0: a node without labels), and --hydrate-k from 0 to 5: fewer,    *)
(* as many and more bands than nodes.                                      *)
(***************************************************************************)
EXTENDS LabelBands

MaxBits == 3

MCOffsets ==
  {e \in [0 .. NumNodes -> 0 .. NumNodes * MaxBits] :
     /\ e[0] = 0
     /\ \A n \in 1 .. NumNodes : e[n] - e[n - 1] \in 0 .. MaxBits}
=============================================================================
