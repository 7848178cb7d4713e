----------------------------- MODULE MCPrefetch -----------------------------
(***************************************************************************)
(* Two bands of two nodes, labels of 4 bytes per node (2 for the last one, *)
(* and an offset that is not a whole byte), a publication at every second  *)
(* node, a window of 2 bytes and a chunk of 2: a prefetcher meets its      *)
(* window, its band's end and every short read.                            *)
(***************************************************************************)
EXTENDS Prefetch

MCEf == [n \in 0 .. NumNodes |-> <<0, 32, 63, 96, 112>>[n + 1]]

MCBounds == [j \in 0 .. K |-> <<0, 2, 4>>[j + 1]]
=============================================================================
