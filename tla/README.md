# A TLA+ model of swh_resolver

`swh_resolver` (README.md, `src/ntf/*.rs`, `src/bin/*.rs`) turns rows `(repo,
commit_id, rel_path)` into Software Heritage content ids, over a graph of about
5·10^10 nodes. It is a batch pipeline: each phase is a function that runs on all
cores and returns before the next one starts. What can go wrong is therefore
inside a phase (threads over shared maps and bitsets, cuts of index ranges,
reductions in any order, threads that wait for others) and in what one phase
takes for granted of another (a miss in a filtered map is an absent file; two
passes over a file agree on row numbers). The modules here follow that division.

## 1. Inventory

| Component | Source | State | Operations | Hard behaviour | Correct when |
|---|---|---|---|---|---|
| graph (external) | crate swh-graph | mmap'ed, immutable | node types, successors, predecessors, label lists and their bit offsets, `node_id` | - | taken as given |
| common | `ntf/common.rs` | `NodeBitset`, `DirMap`, `Seeds`, `Status`, loaders, constants `N_NODES`, `N_LABELS` | `test_and_set`, `is_set`, `lookup`, `path_of`, `distinct_roots` | 64 nodes share an atomic word; the constants belong to one export | one winner per bit; lookup = binary search on a sorted slice |
| B0 prefix index | `ntf/scratch.rs:45-124` | 256 sharded maps (`NUM_SHARDS`) prefix -> revisions | parallel fold, reduce, lookup | rayon cuts and groups as it likes | same candidates for every schedule |
| B1 provenance winner | `ntf/scratch.rs:130-529` | groups (repo, commit_id); per group candidates, BFS queue and seen set | candidates, backward search, tie-break, root check | merges, forks, submodules; short and full hashes in one file | search exact, winner best, drop justified |
| names | `ntf/names.rs` | set of wanted components, map component -> fid, `RequestedFid` bitset shared by all threads | collect, chunked scan of the label names, fold, reduce | bitset is set while maps are still partial | all ids found, bitset and map agree |
| seeds | `ntf/seeds.rs` | `root_memo` (DashMap), row slots of a batch, vectors root / path_off / path_fids / bin | resolve rows in parallel, append in order | memo read and written in two calls | vectors describe the file row by row |
| reach | `ntf/reach.rs` | shared `NodeBitset`, one stack per root | parallel DFS | walks meet in shared subtrees | set = directories below the roots |
| hydrate: bands | `ntf/hydrate.rs:92-138`, `434-448` | `bounds` | K-way cut by label bits | nodes without labels, k > nodes, clean-up loop | bands partition the nodes |
| hydrate: threads | `ntf/hydrate.rs:152-200`, `264-429` | `worker_pos[k]`, `done[k]`, thread scope | prefetch, throttle, decode, publish, join | Relaxed loads, failures of any thread | bounded lead, no partial scan merged, it ends |
| hydrate: scan, merge | `ntf/hydrate.rs:206-258`, `299-387` | shards, offsets, index, CSR vectors | random or sequential scan, sort, dedup, two-pass merge | a repeated name, an empty shard, filtered directories | `DirMap` answers as the labels do |
| traverse | `ntf/traverse.rs:52-109` | result per row | walk_row | a miss is taken for absence | result = direct walk |
| emit | `ntf/traverse.rs:116-388` | reader, `BinWriter` per bin | row join by position, flush, finish | misaligned inputs, failure of one writer, crash, rerun | one output row per input row |
| nt_scratch | `bin/nt_scratch.rs` | the results of the phases | runs the phases in turn, drops what is used up | three passes over one file must agree; failure of any phase; rerun over the same directory | the shared core answers as `direct_resolve` would |
| nt_verify | `bin/nt_verify.rs` | files found, sample of output rows | collect parts, sample, `direct_resolve`, verdict | parts torn by a failed emit; takes the first n ok rows; passes when there are none | sample exact, a torn part it opens stops it, no false alarm |

Data flow: input file -> B0 -> B1 -> candidates file -> names (one pass), seeds
(second pass), reach (roots), hydrate (reached directories, requested names),
traverse (seeds and `DirMap`), emit (third pass over the candidates file, joined
with seeds and results by row number) -> `bin=<b>/part-*.parquet`; nt_verify
reads that back. Shared state exists inside phases only: the reach bitset, the
requested bitset, the memo, and the two atomics of each band.

## 2. Modules

| Module | Models | Remarks |
|---|---|---|
| `SwhGraph` | node types and successor lists | the graph's assumptions; `DirsBelow`, the least set closed under dir -> dir edges |
| `ReachSpec`, `Reach` | reach | one process per root; one action per atomic access, pop or skip. `ReachSpec` is a set that grows to the reachable directories and is then final |
| `LabelBands` | `bounds` of hydrate | each step of `first_node_at_bit`'s binary search and of the clean-up loop |
| `Prefetch` | threads of the scan | caller, decoders, prefetchers; a Relaxed store becomes visible later, each independently |
| `LabelledGraph` | label lists, `nt_verify::direct_resolve` | the reference the others are measured with |
| `Rayon` (external) | what the folds rely on in rayon | ranges cut into neighbouring pieces anywhere, neighbours reduced in any grouping; used by `PrefixIndex` and both steps of `Names` |
| `DirMapSpec`, `Hydrate` | scan, merge, lookup | `DirMapSpec`: a lookup answers for reached directories and requested names with the first matching label entry |
| `Traverse` | walk_row over all rows | the map is `DirMapSpec`'s, which `Hydrate` implements; `Inputs` is what the walk assumes of the phases before |
| `RevHash`, `PrefixIndex`, `Resolve` | B0, B1 | `Resolve` runs `PrefixIndex` as its first phase when some commit_id is not a full hash |
| `Names`, `Seeds` | the phases of these names | no specification of their own: they run as phases of `Pipeline` |
| `ResolverSpec`, `Pipeline` | the shared core of nt_scratch, lines 73-82 | `Pipeline` instantiates `Names`, `Seeds`, `DirMapSpec` and `Traverse` over shared variables, `stage` is the call main is in; `ResolverSpec` answers the rows one by one as `direct_resolve` does, or fails before the first |
| `Emit` | emit, its failures, crashes and reruns | |
| `Verify` | nt_verify | extends `Emit`: it reads the out_dir that module leaves |
| `ReachProofs`, `LabelBandsProofs`, `PrefetchProofs`, `HydrateProofs`, `TraverseProofs`, `ResolveProofs`, `VerifyProofs`, `PipelineProofs` | | TLAPS proofs about the modules of these names; `VerifyProofs` is about `Emit` too, `PipelineProofs` about `Names` and `Seeds`, with the proofs of `TraverseProofs` instantiated over the shared variables |
| `MC*` | instances for TLC | |

**How the phases are joined.** `Pipeline` takes the steps of names, seeds and
traverse themselves, and reach and hydrate as one step each: the final state of
`ReachSpec`, which `Reach` is proved (safety) and checked (liveness) to
implement, and `DirMapSpec!Build` or `Abort`, which `Hydrate` is proved to
implement. A hydrate that never returns is therefore left out of `Pipeline`: that it
ends is said of runs in which no decoder panics and every thread can be spawned
(`MCPrefetch` checks that the scan ends then, `MCPrefetchPanic` shows the hang
otherwise). What each phase takes for granted is an invariant there
(`Traverse!Inputs` within `TypeOK`: traverse is given exactly the directories
below its own roots and the names of its own paths). `Pipeline` starts from any
candidates file; B0 and B1, which write that file, are `Resolve`. It ends where
emit starts. `Verify` takes its result for granted: the direct walk of row r
finds `Leaf[r]`, the content the pipeline found for row r.

Names follow the source (`test_and_set` is split into `Flips` and `SetBit`,
`scan_band` into `Publish`, `Decode`, ...); every action is commented with the
statement it stands for where that is not plain. Data that no property reads is
left out: URLs, SWHID strings, columns, logging, timing. Paths are sequences of
label ids, hashes sequences of digits, texts members of small sets.

A definition named in a comment `@mutant of X` is a wrong version of X, with the
slip a programmer could make there; with it in place of X the property paired
with it in PROJECT.json fails. These definitions are used nowhere.

## 3. Runs

All runs take under a minute. Bounds are the constants of the cfg files; no
action has a bound of its own, except `MaxRuns` in `Emit`.

| Run | States | Shows | Bounds and why they are enough |
|---|---|---|---|
| `MCReach` | 1 127 | each directory is expanded once, none is lost, the final set is exact, `Reach` implements `ReachSpec` (liveness too) | 3 roots: one below another's tree, a third below both; a subtree shared by three; a submodule not to be entered; words of 3 bits, so that neighbours share words |
| `MCLabelBands` | 18 874 | binary searches exact, bands a partition and balanced, the clean-up loop idle, the loop ends | every offset index over 4 nodes with 0-3 bits each, k = 0..5 |
| `MCPrefetch` | 209 414 | lead over the decoder itself at most window + chunk, merge only after a whole scan, end without panics | 2 bands, every short read, every fault; one node per publication and less than one |
| `MCHydrate` | 50 176 | `Hydrate` implements `DirMapSpec`, shards sorted, CSR well-formed | 6 nodes, every cut into 3 bands, every reached and requested set, a repeated name |
| `MCTraverse` | 20 736 | ok exactly when the direct walk over the unfiltered graph finds a file, and the same leaf; status right; no directory outside the map is asked for | 2 rows, all pairs of roots and of paths up to two components |
| `MCResolve` | 217 350 | index independent of schedule, search exact, winner best among the candidates with provenance and rooted, a group dropped only when a rootless revision beats every rooted one | two groups, 14 nodes with a fork, merges, a submodule, a rootless revision that is the best candidate of its group and one that is not; three cuts |
| `MCPipeline` | 71 579 | all ids found; bitset and map agree while names runs and ever after; vectors aligned with the file under every interleaving on the memo; every phase finds what it assumes; the core implements `ResolverSpec`, its termination included | 216 files of 3 rows out of 6 kinds (two spellings of a revision, a rootless and an absent one, a name that is not archived, an empty path, a submodule on the way, bins out of range) and the empty file, 5 sets of columns; batches of 2, 2 threads, 5 label names in chunks of 2, every cut |
| `MCVerify` | 38 414 | every row once in the right bin, indices in bounds, Ok means complete output; the sample is exactly the first n ok rows; a PASS on fewer than n rows has met no torn part and seen every ok row (on a full sample the parts behind are not opened, torn or not); no false alarm | one file of 4 rows in four cuts, seeds too short or long, flush in mid-bin, two runs of nt_scratch over one directory, nt_verify after either, in batches of 2 rows, n below a part, between, above all |
| `MCPrefetchPanic` | violation | see section 6 | |
| `MCResolveFullHash` | violation | see section 6 | |
| `MCResolveBelongs` | violation | see section 6 | |

**Deadlock** is checked in every run: a phase that has returned stutters by an
explicit action (`Joined`, `Over`, `Written`).

**Fairness.** `Reach`: weak fairness of every walk, since a rayon pool of any
size runs each closure to its end and none waits for another. `LabelBands`: weak
fairness of the one thread. `Prefetch`: of the caller, each decoder, each prefetcher,
and of the visibility of each store, which the atomics' forward progress and the
hardware guarantee. `Pipeline`: weak fairness of the whole next-state relation, the
least there is: rayon goes on with the jobs it was given, and main with its next
call; nothing says which thread goes first. On it rests `ResolverSpec`'s promise
that every row is answered unless a phase fails. There hydrate is one fair step, so
that the promise does not cover its hang after a panic (section 6). The other
specifications have no fairness and no liveness property: their phases are loops
over finite inputs.

## 4. Proofs

Eight modules hold the theorems; each holds for every value of the constants of
the module it is about: any graph, any number of threads, bands, rows and batches.
The assumptions are the named ASSUMEs of those modules: node numbers and
successor lists lie within the graph, a directory's labels are its entries, file
names are numbers, at least one bit per bitset word, the offset index
non-decreasing from 0, the lengths and limits natural numbers; one file
cut into batches in different ways has the same number of rows, and the sorted
listing of the part files (`PathOrder`) names every bin once; a revision's node is
a revision, the list of label names holds each name once, and a row of a
candidates file is two spellings of revisions, a list of names and a bin of any
text.

| Module | Properties of the runs proved |
|---|---|
| `ReachProofs` | `TypeOK`, `ExploredOnce`, `NoLostSubtree`, `ReachedExact`; every step is one of `ReachSpec` or a stutter |
| `LabelBandsProofs` | `TypeOK`, `SearchExact`, `BandsPartition`, `BandsBalanced`, `RepairIsNoOp` |
| `PrefetchProofs` | `TypeOK`, `AheadBounded`, `ReturnsWholeScan` |
| `HydrateProofs` | `TypeOK`, `StreamSorted`, `CsrWellFormed`, `ImplementsDirMapSpec` |
| `TraverseProofs` | `TypeOK`, `WalksHydrated`, `OkIffDirect`, `StatusFaithful` |
| `ResolveProofs` | `TypeOK`, `IndexExact`, `ProvenanceExact`, `WinnerBest`, `DropsJustified` |
| `PipelineProofs` | `TypeOK`, `RequestedMatchesMap`, `NamesExact`, `SeedsAligned`; every step is one of `ResolverSpec` or a stutter |
| `VerifyProofs` | `VerifyTypeOK`, `InBounds`, `RowsAccounted`, `OkMeansComplete`, `SampleExact`, `ShortPassCovers`, `NoFalseAlarm` |

**Induction over data.** The induction theorems of the library take an operator
as parameter, which no prover here can instantiate. `InductionInSet` says the
same of a set: one that holds 0 and n + 1 with n holds every number (from `WFMin`
over the natural numbers). A recursive function is unfolded with it: the set of
lengths for which the recursion has a solution is closed under + 1, hence the
CHOOSE that defines the function is a solution (`TrailUnfolds`, `SumsExist`; for
binary search, `SearchFinds`, a solution is given at once: the position of the
name in the window, or 0). Definitions by cardinality (`InOrder`, the hash order)
use the facts about finite sets of `FiniteSetTheorems`.

*Reach.* None of the properties is inductive. The invariant `IInv` adds to
`TypeOK`, `ExploredOnce` and `NoLostSubtree`:

- `ControlInv`: only a running walk has a stack or a scan in progress, and a
  root no longer at its claim is marked;
- `StackInv`, `DistinctInv`: what is on a stack is marked and not yet expanded, and
  is there once, on one stack - the claim is what makes it so;
- `ExploredInv`: what was expanded is marked;
- `SoundInv`: marked directories, and the directories in the lists being
  scanned, are reachable.

Exactness at the end: by `NoLostSubtree` with no walk running, the marked set is
closed under dir -> dir edges; it holds the roots; so it holds the least such
set; `SoundInv` gives the converse. The bitset enters by one lemma,
`SetBitMarks`: a node is determined by its word and bit, so fetch_or on a shared
word changes one mark.

*LabelBands.* `BInv` adds the shape of the index, the two fixed ends, and the
invariant of the binary search (`SearchInv`: everything below `lo` starts before
the target, everything from `hi` on does not). From `SearchExact` and the
targets being non-decreasing (`Targets`, division lemmas) the boundaries are
non-decreasing, hence the partition, and hence that the clean-up loop, whose
condition never holds, could be removed. The balance of the bands is the
distance of two neighbouring targets, and what one node can overshoot it by.

*Prefetch.* A prefetcher sees its decoder's position late. The invariant orders
the three copies of it (seen, published, real) and says of every step of the
prefetcher's loop what the last look at the position still guarantees; the bound
on the lead follows at the read. For `ReturnsWholeScan` it ties a decoder's end
without failure to its cursor at the band's end.

*Hydrate.* `Row(n)` is what scanning a node leaves of it. `RowIs` states it without
sorting or deduplication: each requested name once, ascending, with the entry
`DirectStep` takes - the sort is stable and the first of a run is kept, so the
first label with the name survives. Two tallies of the rows of all nodes, how many
nodes below m have one (`Ranks`) and how many entries those have (`Offsets`), say
where each row belongs. The invariant is then local to each actor:

- `GatherInv`: a shard holds what the nodes from the start of its band to its
  decoder's cursor have to give: its directories are those of consecutive
  ranks, its entries the rows one behind the other, until it is dropped;
- `ScanInv`: the merge runs on complete shards, and the ranks fit;
- `MapInv`: the index and the offsets hold the nodes below the bound up to which
  shards are indexed, the entries those below the bound up to which they are
  copied.

That the offsets of a shard continue those before it (`SumsFollow`) needs that
two bounds with the same rank have the same offset: empty rows add nothing.
`StreamSorted` follows from ranks being monotone and bands side by side,
`CsrWellFormed` from every rank being some node's (`RankTaken`), and the
refinement from the binary search being exact on an ascending slice. With the
check against `MaxDirs` left out, the last of a run of equal names kept, a band
scanned one node too far, or ranks counted from 1, the proof fails at the step
concerned.

*Traverse.* The invariant says of a row under way that its directory is the one
the direct walk has come to (`DirectTrail`), and lies below the row's root. A miss in
the table is then a name the directory does not have: the table answers for that
directory because reach marked everything below the roots, and for that name
because it is one of the row's path.

*Resolve.* The invariant of the index: the pieces are side by side, and each
holds, for every prefix, the revisions of its range in node order; folding and
merging keep this however they are scheduled, so lookups need not be told the
cut (`IndexExact`). Per group: the candidates still to be searched, those found
reachable and the one searched now make up all candidates, in order; what is
seen by the search is what reaches the candidate and is closed but for the queue,
so a search that ends empty-handed has seen all there is. The winner is compared
by rank, a number, which the proof orders as the tie-break does. The best of the
pool is better than every other revision that passes (`BestOfPool`): `WinnerBest`
when it has a root, `DropsJustified` when it has none. `Above` is stated as
the least set closed under predecessors for that argument.

*Pipeline.* Three invariants, one per phase with steps of its own, and `StageInv`,
which says what is handed from one to the next.

- `NamesInv`: the pieces of a fold lie side by side and cover their range
  (`Pieces`); a piece of step 1 holds the components of the rows it has passed,
  a piece of step 2 the map of the wanted ids it has passed (`MapOf`), and
  `requested` is the union of those ids. The cuts are counted by cardinality in
  `Rayon`, so that `CutCovers` needs the rank of a cut among the others. A reduction
  joins two neighbours that are folded through; then the next id of the left one
  is the start of the right one's first chunk (`AtId`), and no id lies between
  them. Which map is the larger makes no difference, as the
  keys of two pieces are disjoint: a name has one id.
- `SeedsInv`: the vectors describe the rows before the batch (`Describes`); a
  filled slot, and every entry of the memo, is what the graph says. That nobody
  reads half-made entries makes the memo harmless: a second thread finds
  nothing or the right root. `AppendBatch` is a recursive function over the slots,
  unfolded by `InductionInSet`; the offsets of a row stay what they were when more
  is appended (`PartOfConcat`).
- traverse: its own invariant, with the variables of `Seeds` in place of its inputs.
  `InputsReady` shows that the inputs are as `Traverse!Inputs` asks: the names in the
  paths of the vectors are, by `FidIs`, exactly the ids that names requested.

Until traverse starts `leaf` is empty, so that a phase that fails fails before any
answer. The step that answers a row is then `ResolverSpec!Answer`: the verdict of the walk
(`AnswersAreDirect`'s invariant), on the row's root and path in the vectors, which
`RowAsksRight` shows to be the root and path that the specification computes from
the text of the row.

*Emit and Verify.* The invariant follows a bin from its builder through its open
part to its closed part; rows are counted by the recursive `SelectIn`, whose unfolding
is the step "one more row consumed". Torn parts are those of a run that failed or
died, and are what makes nt_verify stop. The sample is compared with `OkRows`, the ok
rows of the listed parts in order.

**Model-checked only.** Liveness, which is out of the prover's reach: the fairness
part of `ImplementsReachSpec` and of `ImplementsResolverSpec` (that every row is
answered unless a phase fails), `BandsComputed`, `HydrateReturns`. Every invariant
of a passing run is proved.

## 5. Not modelled

Compression and decoding of the graph, SWHIDs, URLs (`canonical_url` and its
fallbacks are the constant `OriginOf`), the splitting of a path into components
(names, seeds and nt_verify share the function), parquet columns other than
their presence, logging, memory sizes, the duplicate-triple report of seeds, the
status histogram of nt_verify. Not composed: B0 and B1 with the shared core (they
hand over a file, and any file is an input of `Pipeline`), and the walk with emit
(rows are joined by number there, which `Emit` is about). nt_verify is taken to
run when no emit is running, as its users run it; nothing in the code enforces it.

## 6. Where code and documents disagree

Shown by a run that TLC ends with a counterexample:

- `MCPrefetchPanic` / `PanicSurfaces`: a decoder that panics leaves `done` unset.
  Its prefetcher, once past its window, sleeps and retries forever; the thread
  scope waits for it. hydrate hangs where `hydrate.rs:198` expects to panic.
- `MCResolveFullHash` / `FullHashHonoured`: one short commit_id in the file turns
  `full_hash` off for all rows, so that a full hash is cut to the prefix and
  another revision may win; `scratch.rs:9` says it is used directly.
- `MCResolveBelongs` / `WinnerBelongsToRepo`: predecessors include directories,
  so a revision pinned as a submodule counts as one of the repo's.

Seen while modelling, and stated in the comments of the modules:

- `reach.rs:20` "first writer of a dir owns its subtree": it owns the directory
  alone; parts of the subtree may have been claimed by other walks before. The
  result does not depend on it.
- `hydrate.rs:403` "stay <= 256 MB ahead": the test precedes the read, so the
  bound is window + chunk (`AheadBounded`).
- `nt_verify.rs:3` "a random sample of OUTPUT rows": nothing is drawn. `nt_verify.rs:59`
  says what the code does, "read files until we have ~n OK rows (take from the front
  of each)", and `SampleExact` states it: the sample is the first n ok rows in path
  order. What follows is not in those words: with the sample full, the parts
  behind are never opened, so that PASS says nothing of their rows, nor whether
  they are torn.
- `Status::BadRev` ("rev_swhid did not resolve to a node") is produced nowhere:
  seeds stores such a row as `ROOT_MISSING`, and traverse says `NoRoot`.
- A rerun replaces the parts it writes and leaves bins of an earlier input that
  it does not write; nt_verify would read them.
- seeds accepts a bare hash in `rev_swhid` (`normalize_rev_id`), emit copies it,
  and nt_verify, which does not normalize it, would report the row unresolved. B1
  writes whole SWHIDs, so that nt_scratch's own output is safe; `NoFalseAlarm`
  speaks of such files. A FAIL of nt_verify is printed; its exit status is 0.
- `common.rs:366` "strip `./` and leading `/`, convert `\` to `/`": the
  conversion comes last, so that a path spelled `.\x` keeps a component `.`.

## 7. Plan

1. Core (done): reach with proofs; hydrate in three parts; traverse; B0 and B1;
   names, seeds, emit.
2. Composition (done): both steps of names; `Pipeline` over `ResolverSpec`;
   `Verify` over `Emit`.
3. Proofs (done): every safety property of every module with steps of its own, and
   the safety part of the three refinements.
4. Open: B0 and B1 composed with the shared core, and the shared core with `Emit`,
   each of which hands over a file or a vector that the next takes as any.
