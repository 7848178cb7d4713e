----------------------------- MODULE ReachSpec ------------------------------
(***************************************************************************)
(* What the reach phase promises: a set of directories that grows until it *)
(* is exactly the directories reachable from the roots along dir -> dir    *)
(* edges, and only then is declared done.                                  *)
(***************************************************************************)
EXTENDS SwhGraph

CONSTANT Roots    \* Seeds::distinct_roots: the winners' root directories

VARIABLES
  reached,   \* directories marked so far
  done       \* the bitvector has been handed to hydrate

ReachableDirs == DirsBelow(Roots)

Init ==
  /\ reached = {}
  /\ done \in BOOLEAN
  /\ done => ReachableDirs = {}

Mark ==
  /\ ~done
  /\ \E n \in ReachableDirs \ reached : reached' = reached \cup {n}
  /\ UNCHANGED done

Finish ==
  /\ ~done
  /\ reached = ReachableDirs
  /\ done' = TRUE
  /\ UNCHANGED reached

Next == Mark \/ Finish

Spec == Init /\ [][Next]_<<reached, done>> /\ WF_<<reached, done>>(Next)
=============================================================================
