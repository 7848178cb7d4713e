------------------------------ MODULE Resolve -------------------------------
(***************************************************************************)
(* ntf::scratch B1, resolve_candidates: the input rows are grouped by      *)
(* (repo, commit_id), and each group looks for one winner revision, in     *)
(* parallel with the others: the revisions its commit_id stands for, those *)
(* of them that a backward search connects to a snapshot of the repo's     *)
(* origin, and of these a branch head or else the one of greatest hash.    *)
(* Unless every commit_id is a full hash, B0 has built the prefix index    *)
(* before, over all revisions (PrefixIndex).                               *)
(***************************************************************************)
EXTENDS RevHash, FiniteSets

CONSTANTS
  Rows,        \* input row numbers
  Repos,       \* repo strings
  OriginOf,    \* repo -> node of the origin with its canonical URL, or NoNode
  CommitIds,   \* commit_id strings
  Shards, ShardOf, Cuts    \* see PrefixIndex

VARIABLES
  repo, commit,    \* the input columns
  parts,           \* the index while it is built, and then
  gpc,             \* group -> control point
  todo,            \* group -> candidates not yet searched from, ascending
  queue, seen,     \* group -> the backward search's state
  passing,         \* group -> candidates with provenance
  winner           \* group -> revision of its rows, NoNode if dropped

Index == INSTANCE PrefixIndex

NoNode == -1

ASSUME ResolveAssumption ==
  /\ Index!IndexAssumption
  /\ OriginOf \in [Repos -> {n \in Node : NodeType[n] = "origin"} \cup {NoNode}]
  /\ CommitIds \subseteq Seq(Nat)

vars == <<repo, commit, parts, gpc, todo, queue, seen, passing, winner>>
inputs == <<repo, commit, parts>>
search == <<queue, seen>>

Group == Repos \X CommitIds
GroupOf(i) == <<repo[i], commit[i]>>
Groups == {GroupOf(i) : i \in Rows}

\* The file has rows, and every commit_id is a full hash.
FullHash ==
  /\ Rows # {}
  /\ \A i \in Rows : Len(commit[i]) = HashLen /\ commit[i] \in Seq(HexDigit)

Init ==
  /\ repo \in [Rows -> Repos]
  /\ commit \in [Rows -> CommitIds]
  /\ IF FullHash THEN parts = <<>> ELSE Index!Init
  /\ gpc = [g \in Group |-> IF g \in Groups THEN "origin" ELSE "absent"]
  /\ todo = [g \in Group |-> <<>>]
  /\ queue = [g \in Group |-> <<>>]
  /\ seen = [g \in Group |-> {}]
  /\ passing = [g \in Group |-> {}]
  /\ winner = [g \in Group |-> NoNode]

-----------------------------------------------------------------------------

\* B0 runs to its end before the first group is looked at.
IndexReady == FullHash \/ Index!Built

BuildIndex ==
  /\ ~IndexReady
  /\ Index!Next
  /\ UNCHANGED <<repo, commit, gpc, todo, search, passing, winner>>

-----------------------------------------------------------------------------

Succs(n) == {Succ[n][j] : j \in DOMAIN Succ[n]}

\* graph.predecessors: the transposed graph.
Pred == [n \in Node |-> {m \in Node : n \in Succs(m)}]

Ascending(S) ==
  [p \in 1 .. Cardinality(S) |->
     CHOOSE n \in S : Cardinality({m \in S : m <= n}) = p]

SnapshotSet(g) ==
  IF OriginOf[g[1]] = NoNode THEN {}
  ELSE {s \in Succs(OriginOf[g[1]]) : NodeType[s] = "snapshot"}

\* @mutant of PrefixKey: the commit_id is not clamped to prefix_nibbles.
PrefixKeyWhole(c) == c

PrefixKey(c) == Take(c, PrefixNibbles)

Candidates(g) ==
  IF FullHash THEN {r \in Revision : Hash[r] = g[2]}
  ELSE LET found == Index!Lookup(PrefixKey(g[2])) IN {found[j] : j \in DOMAIN found}

Drop(g) ==
  /\ gpc' = [gpc EXCEPT ![g] = "dropped"]
  /\ UNCHANGED <<inputs, todo, search, passing, winner>>

\* The origin is not archived, or no visit of it led to a snapshot.
NoSnapshot(g) ==
  /\ gpc[g] = "origin" /\ SnapshotSet(g) = {}
  /\ Drop(g)

NoCandidate(g) ==
  /\ gpc[g] = "origin" /\ SnapshotSet(g) # {} /\ Candidates(g) = {}
  /\ Drop(g)

FindCandidates(g) ==
  /\ gpc[g] = "origin" /\ SnapshotSet(g) # {} /\ Candidates(g) # {}
  /\ todo' = [todo EXCEPT ![g] = Ascending(Candidates(g))]
  /\ gpc' = [gpc EXCEPT ![g] = "filter"]
  /\ UNCHANGED <<inputs, search, passing, winner>>

-----------------------------------------------------------------------------
(* reaches_origin_snapshot, for the head of todo. *)

StartSearch(g) ==
  /\ gpc[g] = "filter" /\ todo[g] # <<>>
  /\ queue' = [queue EXCEPT ![g] = <<Head(todo[g])>>]
  /\ seen' = [seen EXCEPT ![g] = {Head(todo[g])}]
  /\ gpc' = [gpc EXCEPT ![g] = "search"]
  /\ UNCHANGED <<inputs, todo, passing, winner>>

Searching(g) == gpc[g] = "search" /\ queue[g] # <<>>

\* @mutant of Proof: a snapshot of any origin will do.
ProofAny(g, n) == {p \in Pred[n] : NodeType[p] = "snapshot"}

\* Predecessors that end the search.
Proof(g, n) == Pred[n] \cap SnapshotSet(g)

EndSearch(g) ==
  /\ todo' = [todo EXCEPT ![g] = Tail(@)]
  /\ gpc' = [gpc EXCEPT ![g] = "filter"]
  /\ UNCHANGED <<inputs, search, winner>>

Found(g) ==
  /\ Searching(g)
  /\ Proof(g, Head(queue[g])) # {}
  /\ passing' = [passing EXCEPT ![g] = @ \cup {Head(todo[g])}]
  /\ EndSearch(g)

\* @mutant of Unseen: `seen` is not consulted.
UnseenAll(g, n) == Pred[n]

Unseen(g, n) == Pred[n] \ seen[g]

Expand(g) ==
  /\ Searching(g)
  /\ LET n == Head(queue[g]) IN
       /\ Proof(g, n) = {}
       /\ queue' = [queue EXCEPT ![g] = Tail(@) \o Ascending(Unseen(g, n))]
       /\ seen' = [seen EXCEPT ![g] = @ \cup Pred[n]]
  /\ UNCHANGED <<inputs, gpc, todo, passing, winner>>

NotFound(g) ==
  /\ gpc[g] = "search" /\ queue[g] = <<>>
  /\ UNCHANGED passing
  /\ EndSearch(g)

-----------------------------------------------------------------------------
(* Tie-break. *)

IsBranchHead(s, r) ==
  \/ r \in Succs(s)
  \/ \E rel \in Succs(s) : NodeType[rel] = "release" /\ r \in Succs(rel)

Heads(g) == {r \in passing[g] : \E s \in SnapshotSet(g) : IsBranchHead(s, r)}

\* @mutant of Pool: branch heads have no precedence.
PoolAll(g) == passing[g]

Pool(g) == IF Heads(g) = {} THEN passing[g] ELSE Heads(g)

\* SWHID strings compare as their hashes do.
HashLess(q, r) ==
  \E d \in 1 .. HashLen :
    /\ Hash[q][d] < Hash[r][d]
    /\ \A e \in 1 .. d - 1 : Hash[q][e] = Hash[r][e]

Best(g) == CHOOSE r \in Pool(g) : \A q \in Pool(g) : q = r \/ HashLess(q, r)

HasRoot(r) == \E n \in Succs(r) : IsDir(n)

AllSearched(g) == gpc[g] = "filter" /\ todo[g] = <<>>

NonePasses(g) ==
  /\ AllSearched(g) /\ passing[g] = {}
  /\ Drop(g)

\* @mutant of WinnerRootless: any candidate without root drops the group.
AnyRootless(g) ==
  /\ AllSearched(g) /\ \E r \in passing[g] : ~HasRoot(r)
  /\ Drop(g)

WinnerRootless(g) ==
  /\ AllSearched(g) /\ passing[g] # {} /\ ~HasRoot(Best(g))
  /\ Drop(g)

\* One row per input row of the group is written, with this revision.
Win(g) ==
  /\ AllSearched(g) /\ passing[g] # {} /\ HasRoot(Best(g))
  /\ winner' = [winner EXCEPT ![g] = Best(g)]
  /\ gpc' = [gpc EXCEPT ![g] = "resolved"]
  /\ UNCHANGED <<inputs, todo, search, passing>>

ResolveGroup(g) ==
  \/ NoSnapshot(g) \/ NoCandidate(g) \/ FindCandidates(g)
  \/ StartSearch(g) \/ Found(g) \/ Expand(g) \/ NotFound(g)
  \/ NonePasses(g) \/ WinnerRootless(g) \/ Win(g)

AllResolved == \A g \in Groups : gpc[g] \in {"dropped", "resolved"}

Written == AllResolved /\ UNCHANGED vars

Next ==
  \/ BuildIndex
  \/ IndexReady /\ \E g \in Groups : ResolveGroup(g)
  \/ Written

Spec == Init /\ [][Next]_vars

-----------------------------------------------------------------------------

\* The search queues no node twice at a time.
TypeOK ==
  /\ repo \in [Rows -> Repos] /\ commit \in [Rows -> CommitIds]
  /\ IF FullHash THEN parts = <<>> ELSE Index!TypeOK
  /\ gpc \in [Group -> {"absent", "origin", "filter", "search", "dropped", "resolved"}]
  /\ \A g \in Group :
       /\ todo[g] \in Seq(Revision)
       /\ seen[g] \subseteq Node
       /\ \A a \in DOMAIN queue[g] :
            /\ queue[g][a] \in seen[g]
            /\ \A b \in DOMAIN queue[g] : a # b => queue[g][a] # queue[g][b]
       /\ passing[g] \subseteq Revision
       /\ winner[g] \in Revision \cup {NoNode}

\* The candidates do not depend on how rayon cut the node range or in which
\* order it reduced: each revision with a prefix, once, in node order.
IndexExact == ~FullHash => Index!IndexExact

\* Reference: the nodes from which a node is reachable, the least set with the
\* node that holds every predecessor of its members.
ClosedAbove == {S \in SUBSET Node : \A n \in S : Pred[n] \subseteq S}

Above == [r \in Node |-> {n \in Node : \A S \in ClosedAbove : r \in S => n \in S}]

HasProvenance(g, r) == Above[r] \cap SnapshotSet(g) # {}

Unsearched(g) == {todo[g][j] : j \in DOMAIN todo[g]}

\* The search is exact: of the candidates searched from so far, those pass that
\* a snapshot of the origin reaches, and no others; none is forgotten.
ProvenanceExact ==
  \A g \in Groups : gpc[g] \in {"filter", "search"} =>
    passing[g] = {r \in Candidates(g) \ Unsearched(g) : HasProvenance(g, r)}

\* The order of the tie-break: a branch head before any other, then the
\* greater hash.
Better(g, q, r) ==
  LET IsHead(x) == \E s \in SnapshotSet(g) : IsBranchHead(s, x) IN
  \/ IsHead(q) /\ ~IsHead(r)
  \/ (IsHead(q) <=> IsHead(r)) /\ HashLess(r, q)

\* The winner is a candidate with provenance, it can seed the shared core (it
\* has a root directory), and no other candidate with provenance is better.
WinnerBest ==
  \A g \in Groups : gpc[g] = "resolved" =>
    /\ winner[g] \in Candidates(g) /\ HasProvenance(g, winner[g])
    /\ HasRoot(winner[g])
    /\ \A r \in Candidates(g) \ {winner[g]} :
         HasProvenance(g, r) => Better(g, winner[g], r)

\* The hash of r starts as the commit_id c does, as far as prefix_nibbles goes.
Agrees(r, c) == IF FullHash THEN Hash[r] = c ELSE HashPrefix(r) = Take(c, PrefixNibbles)

\* A group is dropped only if every rooted revision that agrees with its
\* commit_id and that a snapshot of the origin reaches is beaten, in the order
\* of the tie-break, by such a revision without root: a worse one is no reason.
DropsJustified ==
  \A g \in Groups : gpc[g] = "dropped" =>
    \A r \in Revision : Agrees(r, g[2]) /\ HasProvenance(g, r) /\ HasRoot(r) =>
      \E q \in Revision :
        /\ Agrees(q, g[2]) /\ HasProvenance(g, q) /\ ~HasRoot(q)
        /\ Better(g, q, r)

\* "If commit_id is a full 40-hex hash, B0 is skipped and node_id is used
\* directly" (scratch.rs:9-10): a row with a full hash never gets another
\* revision than the one it names.
FullHashHonoured ==
  \A g \in Groups : gpc[g] = "resolved" /\ Len(g[2]) = HashLen =>
    Hash[winner[g]] = g[2]

\* The revisions of the repo's own history: a branch's revision, through a
\* release or not, and its parents.
History(g) ==
  LET heads == {r \in Revision : \E s \in SnapshotSet(g) : IsBranchHead(s, r)}
      back[d \in 0 .. NumNodes] ==
        IF d = 0 THEN heads
        ELSE back[d - 1] \cup UNION {Succs(r) \cap Revision : r \in back[d - 1]}
  IN  back[NumNodes]

\* "provenance picks the one that belongs to the repo" (README.md:36).
WinnerBelongsToRepo ==
  \A g \in Groups : gpc[g] = "resolved" => winner[g] \in History(g)
=============================================================================
