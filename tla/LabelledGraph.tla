--------------------------- MODULE LabelledGraph ----------------------------
(***************************************************************************)
(* The edge labels of the compressed graph, as labeled_successors yields   *)
(* them: per node one list of labels, successor after successor.  A        *)
(* directory's labels are its entries, each with the id of a file name;    *)
(* snapshots have labels too (branches), which are not DirEntry.           *)
(***************************************************************************)
EXTENDS SwhGraph

CONSTANTS
  Fid,      \* file-name ids: [0, N_LABELS)
  Labels    \* node -> labels in iteration order

ASSUME LabelAssumption ==
  /\ Fid \subseteq Nat
  /\ Labels \in [Node -> Seq([dirEntry : BOOLEAN, fid : Fid, child : Node])]
  \* every arc carries a label and every label lies on an arc
  /\ \A n \in Directory :
       {Labels[n][j].child : j \in 1 .. Len(Labels[n])} =
         {Succ[n][j] : j \in 1 .. Len(Succ[n])}

\* `if let EdgeLabel::DirEntry(de) = l`, with the name looked for
IsNamed(n, j, f) == Labels[n][j].dirEntry /\ Labels[n][j].fid = f

NoNode == -1

-----------------------------------------------------------------------------
(* nt_verify's direct_resolve: the reference the pipeline is judged by.    *)

\* The child of the first entry called f, in iteration order.
DirectStep(n, f) ==
  LET hits == {j \in 1 .. Len(Labels[n]) : IsNamed(n, j, f)} IN
  IF hits = {} THEN NoNode
  ELSE Labels[n][CHOOSE j \in hits : \A h \in hits : j <= h].child

\* The node reached after each component; only directories are descended.
DirectTrail(root, path) ==
  LET at[m \in 0 .. Len(path)] ==
        IF m = 0 THEN root
        ELSE IF at[m - 1] \in Directory THEN DirectStep(at[m - 1], path[m])
        ELSE NoNode
  IN  at

\* The content the whole path names, if any.
DirectResolve(root, path) ==
  LET leaf == DirectTrail(root, path)[Len(path)] IN
  IF path # <<>> /\ leaf # NoNode /\ NodeType[leaf] = "content"
    THEN leaf ELSE NoNode
=============================================================================
