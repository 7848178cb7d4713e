------------------------------ MODULE SwhGraph ------------------------------
(***************************************************************************)
(* The compressed Software Heritage graph as the pipeline uses it through  *)
(* the swh-graph crate: node ids, node types and the ordered successor     *)
(* lists that `successors` iterates.  Nothing here is implemented in this  *)
(* repository; the module fixes the interface every component reads.       *)
(***************************************************************************)
EXTENDS Integers, Sequences

CONSTANTS
  NumNodes,   \* size of the node-id space (N_NODES for the pinned export)
  NodeType,   \* node id -> type
  Succ        \* node id -> successors, in iteration order

NodeTypes ==
  {"content", "directory", "origin", "release", "revision", "snapshot"}

Node == 0 .. NumNodes - 1

ASSUME GraphAssumption ==
  /\ NumNodes \in Nat
  /\ NodeType \in [Node -> NodeTypes]
  /\ Succ \in [Node -> Seq(Node)]

IsDir(n) == NodeType[n] = "directory"

Directory == {n \in Node : IsDir(n)}

ClosedUnderSubdirs(S) ==
  \A n \in S : \A i \in 1 .. Len(Succ[n]) : IsDir(Succ[n][i]) => Succ[n][i] \in S

\* The directories reachable from R along dir -> dir edges: the least set of
\* directories that holds R and the subdirectories of its members.
DirsBelow(R) ==
  {n \in Directory :
     \A S \in SUBSET Directory : R \subseteq S /\ ClosedUnderSubdirs(S) => n \in S}
=============================================================================
