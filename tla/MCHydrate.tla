----------------------------- MODULE MCHydrate ------------------------------
(***************************************************************************)
(* A tree (node 0) whose entries come out of label order, one with a name  *)
(* that occurs twice; a tree with a single entry; a snapshot with a branch *)
(* label; a submodule's revision.  Three names, every reached and          *)
(* requested set, every cut of the six nodes into three bands.  With more  *)
(* than one reached directory the scan is sequential.                      *)
(***************************************************************************)
EXTENDS Hydrate

MCNodeType ==
  [n \in 0 .. 5 |-> CASE n \in {0, 2, 3} -> "directory" [] n = 1 -> "snapshot"
                      [] n = 4 -> "revision" [] n = 5 -> "content"]

E(f, c) == [dirEntry |-> TRUE, fid |-> f, child |-> c]

MCLabels ==
  [n \in 0 .. 5 |-> CASE n = 0 -> <<E(2, 2), E(1, 3), E(1, 5), E(0, 5)>>
                      [] n = 1 -> <<[dirEntry |-> FALSE, fid |-> 0, child |-> 4]>>
                      [] n = 2 -> <<E(1, 4), E(0, 5)>>
                      [] n = 3 -> <<E(1, 5)>>
                      [] OTHER -> <<>>]

MCSucc ==
  [n \in 0 .. 5 |-> CASE n = 0 -> <<2, 3, 5>> [] n = 1 -> <<4>> [] n = 2 -> <<4, 5>>
                      [] n = 3 -> <<5>> [] n = 4 -> <<0>> [] OTHER -> <<>>]
=============================================================================
