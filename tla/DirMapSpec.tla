----------------------------- MODULE DirMapSpec -----------------------------
(***************************************************************************)
(* What hydrate promises: in one step, a table that answers lookup(d, f)   *)
(* with the child the direct walk would take, for every reached directory  *)
(* d and requested name f, and with nothing for any other pair.            *)
(***************************************************************************)
EXTENDS LabelledGraph

VARIABLES
  reached,     \* the directories marked by reach
  requested,   \* the file-name ids of some requested path component
  table,       \* the answers of DirMap::lookup; empty until built
  failed       \* an assertion stopped hydrate

NoEntry == [child |-> NoNode, ty |-> "none"]

Exact(d, f) ==
  LET c == DirectStep(d, f) IN
  IF d \in reached /\ f \in requested /\ c # NoNode
    THEN [child |-> c, ty |-> NodeType[c]] ELSE NoEntry

ExactTable == [key \in Node \X Fid |-> Exact(key[1], key[2])]

Init ==
  /\ reached \in SUBSET Directory
  /\ requested \in SUBSET Fid
  /\ table = << >>
  /\ failed = FALSE

Build ==
  /\ table = << >> /\ ~failed
  /\ table' = ExactTable
  /\ UNCHANGED <<reached, requested, failed>>

Abort ==
  /\ table = << >> /\ ~failed
  /\ failed' = TRUE
  /\ UNCHANGED <<reached, requested, table>>

Next == Build \/ Abort

Spec == Init /\ [][Next]_<<reached, requested, table, failed>>
=============================================================================
