------------------------------ MODULE MCReach -------------------------------
(***************************************************************************)
(* Three roots over a small archive: the tree of root 1 holds root 0, the  *)
(* tree of 0 holds root 2, 2 and 3 share the subtree 4, 3 is below two     *)
(* roots, 5 is a file, 6 a submodule's revision whose own root 7 must not  *)
(* be entered.  Words of 3 bits put several nodes in one word and the      *)
(* nodes in several words.                                                 *)
(***************************************************************************)
EXTENDS Reach

MCNodeType ==
  [n \in 0 .. 7 |-> CASE n = 5 -> "content" [] n = 6 -> "revision"
                      [] OTHER -> "directory"]

MCSucc ==
  [n \in 0 .. 7 |-> CASE n = 0 -> <<2, 3, 5>>
                      [] n = 1 -> <<0, 3>>
                      [] n = 2 -> <<4>>
                      [] n = 3 -> <<4, 6>>
                      [] n = 6 -> <<7>>
                      [] n = 5 -> <<>>
                      [] OTHER -> <<5>>]

MCRoots == {0, 1, 2}
=============================================================================
