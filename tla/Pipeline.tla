------------------------------ MODULE Pipeline ------------------------------
(***************************************************************************)
(* The shared core of nt_scratch: build_names, build_seeds, the reachable  *)
(* directories, hydrate and traverse, one after the other on one           *)
(* candidates file.  names, seeds and traverse take their own steps here,  *)
(* over shared state; reach and hydrate are the one step that Reach and    *)
(* Hydrate are shown to implement.  A phase that returns drops what it     *)
(* kept for itself, and what it hands on is all that the next ones see.    *)
(***************************************************************************)
EXTENDS LabelledGraph, FiniteSets

CONSTANTS
  Files, ColumnSets,   \* the candidates files considered
  NodeOfRev, NormalizeRevId, BatchRows, Threads,    \* see Seeds
  NLabels, Chunk, Name, LabelName                   \* see Names

VARIABLES
  stage,               \* the call main is in; "emit" after traverse, "failed"
  file, columns,
  npc, rows, local, distinct, requested, scan,      \* names
  component_fid,
  spc, batch, phase, slot, memo, seeds,             \* seeds
  reached, table,      \* the results of reach and of hydrate
  tpc, i, cur, leaf, status                         \* traverse

input == <<file, columns>>
names == <<npc, rows, local, distinct, requested, scan>>
seeding == <<spc, batch, phase, slot, memo, seeds>>
map == <<reached, table>>
walk == <<tpc, i, cur, leaf, status>>
vars == <<stage, input, names, component_fid, seeding, map, walk>>

Na == INSTANCE Names
Se == INSTANCE Seeds WITH pc <- spc
Ma == INSTANCE DirMapSpec WITH failed <- stage = "failed"
Tr == INSTANCE Traverse
        WITH root <- seeds.root, path <- [r \in DOMAIN seeds.root |-> Se!PathOf(r)],
             pc <- tpc

ASSUME PipelineAssumption ==
  /\ Na!NamesAssumption /\ Se!SeedsAssumption
  /\ Fid = Na!LabelId
  \* any spelling of a revision, any text for a bin
  /\ Files \subseteq Seq([rev_swhid : DOMAIN NormalizeRevId,
                          id : DOMAIN NormalizeRevId,
                          comps : Seq(Name), bin : Int])

Init ==
  /\ stage = "names"
  /\ file \in Files /\ columns \in ColumnSets
  /\ Na!Init /\ component_fid = << >>
  /\ Se!Init
  /\ reached = {} /\ table = << >>
  /\ tpc = <<>> /\ i = <<>> /\ cur = <<>> /\ leaf = <<>> /\ status = <<>>

-----------------------------------------------------------------------------

NamesStep ==
  /\ stage = "names"
  /\ UNCHANGED <<stage, component_fid, seeding, map, walk>>
  /\ Na!Next

\* Of Names, `requested` and `component_fid` remain.
NamesReturns ==
  /\ stage = "names" /\ Na!Done
  /\ stage' = "seeds"
  /\ component_fid' = Na!ComponentFid
  /\ distinct' = {} /\ scan' = <<>>
  /\ UNCHANGED <<input, npc, rows, local, requested, seeding, map, walk>>

SeedsStep ==
  /\ stage = "seeds"
  /\ UNCHANGED <<stage, input, names, component_fid, map, walk>>
  /\ Se!Next

SeedsReturns ==
  /\ stage = "seeds" /\ spc = "done"
  /\ stage' = "reach"
  /\ memo' = << >>
  /\ UNCHANGED <<input, names, component_fid, spc, batch, phase, slot, seeds>>
  /\ UNCHANGED <<map, walk>>

\* `build_names(..)?`, `build_seeds(..)?`
PhaseFails ==
  /\ \/ stage = "names" /\ npc = "failed"
     \/ stage = "seeds" /\ spc = "failed"
  /\ stage' = "failed"
  /\ UNCHANGED <<input, names, component_fid, seeding, map, walk>>

\* build_reachable from seeds.distinct_roots(): what ReachSpec ends with.
BuildReachable ==
  /\ stage = "reach"
  /\ stage' = "hydrate"
  /\ reached' = DirsBelow(Tr!DistinctRoots(seeds.root))
  /\ UNCHANGED <<input, names, component_fid, seeding, table, walk>>

\* hydrate returns the map, and traverse starts every row at its root.
Hydrate ==
  /\ stage = "hydrate"
  /\ stage' = "traverse"
  /\ Ma!Build
  /\ tpc' = [r \in Tr!Rows |-> "walk"]
  /\ i' = [r \in Tr!Rows |-> 1]
  /\ cur' = seeds.root
  /\ leaf' = [r \in Tr!Rows |-> 0]
  /\ status' = [r \in Tr!Rows |-> "none"]
  /\ UNCHANGED <<input, npc, rows, local, distinct, scan, component_fid, seeding>>

HydrateFails ==
  /\ stage = "hydrate"
  /\ stage' = "failed"
  /\ Ma!Abort
  /\ UNCHANGED <<input, npc, rows, local, distinct, scan, component_fid, seeding, walk>>

WalkStep ==
  /\ stage = "traverse"
  /\ UNCHANGED <<stage, input, names, component_fid, seeding, map>>
  /\ \E r \in Tr!Rows : Tr!WalkRow(r)

TraverseReturns ==
  /\ stage = "traverse" /\ Tr!AllWalked
  /\ stage' = "emit"
  /\ UNCHANGED <<input, names, component_fid, seeding, map, walk>>

Over == stage \in {"emit", "failed"} /\ UNCHANGED vars

Next ==
  \/ NamesStep \/ NamesReturns \/ SeedsStep \/ SeedsReturns \/ PhaseFails
  \/ BuildReachable \/ Hydrate \/ HydrateFails \/ WalkStep \/ TraverseReturns
  \/ Over

\* rayon runs every job it was given, and main goes from call to call.
Spec == Init /\ [][Next]_vars /\ WF_vars(Next)

-----------------------------------------------------------------------------

\* Each phase finds what it takes for granted: traverse in particular gets the
\* map of exactly the directories and names of its own rows (Traverse!Inputs).
TypeOK ==
  /\ stage \in {"names", "seeds", "reach", "hydrate", "traverse", "emit", "failed"}
  /\ Na!TypeOK /\ Se!TypeOK
  /\ stage \in {"traverse", "emit"} => Tr!TypeOK

\* While names runs, and ever after, hydrate's filter and the map of seeds
\* agree: an entry's name is kept exactly when some row may ask for it.
RequestedMatchesMap ==
  IF stage = "names" THEN Na!RequestedMatchesMap
  ELSE stage # "failed" =>
         requested = {component_fid[n] : n \in DOMAIN component_fid}

\* build_names returns the id of every archived component of every row, and of
\* no other name, however batches and chunks were cut and reduced.
NamesExact == Na!NamesExact

\* The four vectors of Seeds describe the rows of the file one by one, however
\* the threads interleave, until the last phase is through.
SeedsAligned == Se!SeedsAligned

\* The rows answered so far, with the content found.
Result ==
  [r \in {r \in DOMAIN leaf : tpc[r] = "done"} |->
     IF status[r] = "Ok" THEN leaf[r] ELSE NoNode]

Resolver == INSTANCE ResolverSpec WITH result <- Result, failed <- stage = "failed"

\* All phases together implement the resolver nt_verify checks them against:
\* each row is answered as the direct walk answers it, a failure comes before
\* any answer, and unless one happens every row is answered in the end.
\* hydrate returns or fails here in one step: its hang after a decoder's panic
\* is Prefetch!PanicSurfaces and no behaviour of this module.
ImplementsResolverSpec == Resolver!Spec
=============================================================================
