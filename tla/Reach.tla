------------------------------- MODULE Reach --------------------------------
(***************************************************************************)
(* ntf::reach: the parallel depth-first walks that mark every directory    *)
(* reachable from the winners' root directories, sharing one lock-free     *)
(* NodeBitset.  One process per root: rayon runs the closure of            *)
(* `roots.par_iter().for_each` for each of them on some pool thread, in    *)
(* any order and any overlap, so every schedule of a pool of any size is a *)
(* behaviour here.  The only shared state is the bitset; fetch_or is one   *)
(* atomic step.                                                            *)
(***************************************************************************)
EXTENDS SwhGraph

CONSTANTS
  Roots,      \* Seeds::distinct_roots: the winners' root directories
  WordBits    \* bits per AtomicU64 word (64 in the code)

ASSUME ReachAssumption ==
  /\ Roots \subseteq Directory
  /\ WordBits \in Nat \ {0}

VARIABLES
  words,      \* NodeBitset.words, each word the set of its set bits
  pc,         \* root -> control point of its walk
  stack,      \* root -> the walk's private Vec of claimed directories
  todo,       \* root -> successors of the popped directory not yet visited
  explorers   \* history: node -> walks that popped it, in order

vars == <<words, pc, stack, todo, explorers>>

Word(n) == n \div WordBits

\* @mutant of Bit: the shift amount is not masked with 63.
BitUnmasked(n) == n

Bit(n) == n % WordBits

WordIndex == {Word(n) : n \in Node}

IsSet(n) == Bit(n) \in words[Word(n)]

ReachedSet == {n \in Node : IsSet(n)}

\* The value test_and_set returns: the old word did not hold the node's bit.
\* @mutants of Flips: the old word is compared with zero; the result is ignored.
FlipsWord(n) == words[Word(n)] = {}
AlwaysFlips(n) == TRUE

Flips(n) == ~IsSet(n)

SetBit(n) == words' = [words EXCEPT ![Word(n)] = @ \cup {Bit(n)}]

-----------------------------------------------------------------------------

Init ==
  /\ words = [w \in WordIndex |-> {}]
  /\ pc = [r \in Roots |-> "claim"]
  /\ stack = [r \in Roots |-> <<>>]
  /\ todo = [r \in Roots |-> <<>>]
  /\ explorers = [n \in Node |-> <<>>]

\* `if !reached.test_and_set(root) { return; }  let mut stack = vec![root];`
ClaimRoot(r) ==
  /\ pc[r] = "claim"
  /\ Flips(r)
  /\ SetBit(r)
  /\ stack' = [stack EXCEPT ![r] = <<r>>]
  /\ pc' = [pc EXCEPT ![r] = "walk"]
  /\ UNCHANGED <<todo, explorers>>

RootTaken(r) ==
  /\ pc[r] = "claim"
  /\ ~Flips(r)
  /\ pc' = [pc EXCEPT ![r] = "done"]
  /\ UNCHANGED <<words, stack, todo, explorers>>

\* The directory being expanded has been scanned to its last successor.
ScanOver(r) == pc[r] = "walk" /\ todo[r] = <<>>

\* @mutant of Pop: the top of the stack is read but not removed.
PopPeek(r) ==
  /\ ScanOver(r)
  /\ stack[r] # <<>>
  /\ LET u == stack[r][Len(stack[r])] IN
       /\ todo' = [todo EXCEPT ![r] = Succ[u]]
       /\ explorers' = [explorers EXCEPT ![u] = <<r>>]
  /\ UNCHANGED <<words, pc, stack>>

\* `while let Some(u) = stack.pop() { for v in graph.successors(u)`
Pop(r) ==
  /\ ScanOver(r)
  /\ stack[r] # <<>>
  /\ LET u == stack[r][Len(stack[r])] IN
       /\ stack' = [stack EXCEPT ![r] = SubSeq(@, 1, Len(@) - 1)]
       /\ todo' = [todo EXCEPT ![r] = Succ[u]]
       /\ explorers' = [explorers EXCEPT ![u] = Append(@, r)]
  /\ UNCHANGED <<words, pc>>

\* `node_type(v) == Directory && reached.test_and_set(v)`
Descends(v) == IsDir(v) /\ Flips(v)

VisitClaim(r) ==
  /\ pc[r] = "walk"
  /\ todo[r] # <<>>
  /\ Descends(Head(todo[r]))
  /\ SetBit(Head(todo[r]))
  /\ stack' = [stack EXCEPT ![r] = Append(@, Head(todo[r]))]
  /\ todo' = [todo EXCEPT ![r] = Tail(@)]
  /\ UNCHANGED <<pc, explorers>>

\* Another node type (no atomic access), or a directory some walk owns.
VisitSkip(r) ==
  /\ pc[r] = "walk"
  /\ todo[r] # <<>>
  /\ ~Descends(Head(todo[r]))
  /\ todo' = [todo EXCEPT ![r] = Tail(@)]
  /\ UNCHANGED <<words, pc, stack, explorers>>

\* @mutant of Exhausted: `if let` for `while let`, one directory per walk.
ExhaustedEarly(r) == ScanOver(r) /\ explorers[r] # <<>>

Exhausted(r) == ScanOver(r) /\ stack[r] = <<>>

Finish(r) ==
  /\ Exhausted(r)
  /\ pc' = [pc EXCEPT ![r] = "done"]
  /\ UNCHANGED <<words, stack, todo, explorers>>

Walk(r) ==
  \/ ClaimRoot(r)
  \/ RootTaken(r)
  \/ Pop(r)
  \/ VisitClaim(r)
  \/ VisitSkip(r)
  \/ Finish(r)

\* for_each returns once every closure has: the pool is joined.
AllDone == \A r \in Roots : pc[r] = "done"

Joined == AllDone /\ UNCHANGED vars

Next == (\E r \in Roots : Walk(r)) \/ Joined

\* Each closure is run to its end by the pool and none waits for another.
Spec == Init /\ [][Next]_vars /\ \A r \in Roots : WF_vars(Walk(r))

-----------------------------------------------------------------------------

TypeOK ==
  /\ words \in [WordIndex -> SUBSET (0 .. WordBits - 1)]
  /\ pc \in [Roots -> {"claim", "walk", "done"}]
  /\ stack \in [Roots -> Seq(Directory)]
  /\ todo \in [Roots -> Seq(Node)]
  /\ explorers \in [Node -> Seq(Roots)]

\* The doc of mark_reachable_dirs: the claim that gates the stack guarantees
\* that each directory is explored by exactly one worker.  No directory is
\* ever popped twice, by the same walk or by two.  (Its subtree may still be
\* shared between walks, whatever "owns its subtree" in that doc says.)
ExploredOnce == \A n \in Node : Len(explorers[n]) <= 1

\* Some walk still running has n on its stack, or in the list it scans.
OnStack(n) ==
  \E r \in Roots : pc[r] = "walk" /\ \E i \in 1 .. Len(stack[r]) : stack[r][i] = n

Pending(n) ==
  \E r \in Roots : pc[r] = "walk" /\ \E i \in 1 .. Len(todo[r]) : todo[r][i] = n

\* A walk that loses a claim returns or moves on and relies on the winner:
\* no claimed directory is ever dropped.  It waits on the stack of a walk that
\* has not returned, or it was explored and each of its subdirectories is
\* claimed or still to be visited by such a walk.
NoLostSubtree ==
  \A n \in Node : IsSet(n) =>
    \/ OnStack(n)
    \/ /\ explorers[n] # <<>>
       /\ \A i \in 1 .. Len(Succ[n]) :
            IsDir(Succ[n][i]) => IsSet(Succ[n][i]) \/ Pending(Succ[n][i])

Abstract == INSTANCE ReachSpec WITH reached <- ReachedSet, done <- AllDone

\* The contract hydrate relies on once for_each has returned: the bitset marks
\* every directory below a root and nothing else, whatever the schedule.
ReachedExact == AllDone => ReachedSet = Abstract!ReachableDirs

\* The parallel walks implement the abstract phase: only reachable
\* directories are ever marked, marks are never withdrawn, every walk returns,
\* and when the last one has the set is exact.
ImplementsReachSpec == Abstract!Spec
=============================================================================
