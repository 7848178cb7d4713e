----------------------------- MODULE MCTraverse -----------------------------
(***************************************************************************)
(* Two rows with every pair of roots (two trees, one of them node 0 and    *)
(* below the other, a subtree of both, none) and every pair of paths of up *)
(* to two components over two names, one of which occurs twice in a tree,  *)
(* and the name the archive lacks; and some paths of three components.     *)
(***************************************************************************)
EXTENDS Traverse

MCNodeType ==
  [n \in 0 .. 5 |-> CASE n \in {0, 1, 4, 5} -> "directory" [] n = 2 -> "content"
                      [] n = 3 -> "revision"]

E(f, c) == [dirEntry |-> TRUE, fid |-> f, child |-> c]

MCLabels ==
  [n \in 0 .. 5 |-> CASE n = 0 -> <<E(0, 1), E(1, 3)>>
                      [] n = 1 -> <<E(0, 2), E(1, 4)>>
                      [] n = 4 -> <<E(1, 2)>>
                      [] n = 5 -> <<E(1, 0), E(0, 1), E(0, 2)>>
                      [] OTHER -> <<>>]

MCSucc ==
  [n \in 0 .. 5 |-> CASE n = 0 -> <<1, 3>> [] n = 1 -> <<2, 4>> [] n = 3 -> <<5>>
                      [] n = 4 -> <<2>> [] n = 5 -> <<0, 1, 2>> [] OTHER -> <<>>]

MCSeedRoots == {0, 4, 5, RootMissing}

Component == {0, 1, FidMissing}

MCSeedPaths ==
  {<<>>} \cup {<<a>> : a \in Component} \cup {<<a, b>> : a, b \in Component}
    \cup {<<0, 1, 1>>, <<1, 0, 0>>, <<1, 1, 0>>}

MCInit ==
  /\ root \in [1 .. 2 -> MCSeedRoots] /\ path \in [1 .. 2 -> MCSeedPaths]
  /\ reached = DirsBelow(DistinctRoots(root))
  /\ requested = UNION {NamesIn(path[r]) : r \in Rows}
  /\ table = Map!ExactTable
  /\ Start

MCSpec == MCInit /\ [][Next]_vars
=============================================================================
