------------------------------ MODULE Hydrate -------------------------------
(***************************************************************************)
(* ntf::hydrate, the data: K decoders scan their bands of the label stream *)
(* node by node, each into a private flat shard, and the caller then       *)
(* concatenates the shards in band order into the CSR DirMap that          *)
(* traverse searches.  The decoders share nothing but read-only inputs;    *)
(* their prefetchers are the subject of Prefetch, the cut into bands of    *)
(* LabelBands.                                                             *)
(***************************************************************************)
EXTENDS LabelledGraph, FiniteSets

CONSTANTS
  K,              \* number of bands
  SeqThreshold,   \* SEQ_THRESHOLD
  MaxDirs,        \* u32::MAX, the rank space of DirMap.index
  BitsetSizes     \* values of reached.len() considered

ASSUME HydrateAssumption ==
  /\ K \in Nat \ {0}
  /\ SeqThreshold \in Nat /\ MaxDirs \in Nat
  /\ BitsetSizes \subseteq Nat

Workers == 0 .. K - 1

VARIABLES
  reached, bitsetSize,   \* the NodeBitset: its directories, its length
  requested,             \* RequestedFid
  bounds,                \* the band boundaries
  pc,                    \* the caller
  sequential,            \* the scan mode
  node,                  \* decoder -> next node of its band
  shard,                 \* decoder -> WorkerShard
  next,                  \* the caller's position in a pass over the shards
  dirmap                 \* the DirMap under construction

vars == <<reached, bitsetSize, requested, bounds, pc, sequential, node, shard,
          next, dirmap>>
inputs == <<reached, bitsetSize, requested, bounds>>

EmptyShard == [dirs |-> <<>>, counts |-> <<>>, ent |-> <<>>]

\* Node ids outside the index have no rank.
NoRank == -1

EmptyMap == [index |-> [n \in Node |-> NoRank], offsets |-> <<0>>, ent |-> <<>>]

\* What LabelBands hands over.
IsPartition(b) ==
  /\ b[0] = 0 /\ b[K] = NumNodes
  /\ \A w \in Workers : b[w] <= b[w + 1]

Init ==
  /\ reached \in SUBSET Directory
  /\ bitsetSize \in BitsetSizes
  /\ requested \in SUBSET Fid
  /\ bounds \in {b \in [0 .. K -> 0 .. NumNodes] : IsPartition(b)}
  /\ pc = "check"
  /\ sequential = FALSE
  /\ node = [w \in Workers |-> bounds[w]]
  /\ shard = [w \in Workers |-> EmptyShard]
  /\ next = 0
  /\ dirmap = EmptyMap

-----------------------------------------------------------------------------

\* `assert_eq!(num_nodes, reached.len())`
SizesDiffer ==
  /\ pc = "check" /\ bitsetSize # NumNodes
  /\ pc' = "aborted"
  /\ UNCHANGED <<inputs, sequential, node, shard, next, dirmap>>

\* `sequential = reached.count_set() > SEQ_THRESHOLD`
ChooseMode ==
  /\ pc = "check" /\ bitsetSize = NumNodes
  /\ sequential' = (Cardinality(reached) > SeqThreshold)
  /\ pc' = "scan"
  /\ UNCHANGED <<inputs, node, shard, next, dirmap>>

\* The members of I in the order R.
InOrder(I, R) ==
  [p \in 1 .. Cardinality(I) |->
     CHOOSE j \in I : Cardinality({h \in I : <<h, j>> \in R}) = p - 1]

\* The subsequence of s at the positions in I.
AtPositions(s, I) ==
  LET at == InOrder(I, {a \in I \X I : a[1] < a[2]}) IN
  [p \in 1 .. Cardinality(I) |-> s[at[p]]]

\* The requested entries of n, in label order.
Wanted(n) ==
  LET l == Labels[n] IN
  AtPositions(l, {j \in DOMAIN l : l[j].dirEntry /\ n \in reached /\ l[j].fid \in requested})

\* @mutant of SortByFid: the entries stay in label order.
Unsorted(s) == s

\* sort_by_key is stable: entries of equal name keep their order.
Before(s) ==
  {a \in (DOMAIN s) \X (DOMAIN s) :
     \/ s[a[1]].fid < s[a[2]].fid
     \/ s[a[1]].fid = s[a[2]].fid /\ a[1] < a[2]}

SortByFid(s) ==
  LET at == InOrder(DOMAIN s, Before(s)) IN [p \in DOMAIN s |-> s[at[p]]]

\* dedup_by_key: of a run of equal names the first entry is kept.
\* @mutant of DedupByFid: the last of each run is kept.
DedupKeepLast(s) ==
  AtPositions(s, {j \in DOMAIN s : j + 1 \notin DOMAIN s \/ s[j + 1].fid # s[j].fid})

DedupByFid(s) ==
  AtPositions(s, {j \in DOMAIN s : j - 1 \notin DOMAIN s \/ s[j - 1].fid # s[j].fid})

\* The entry arrays: fid, child, and the child's type.
Row(n) ==
  LET buf == DedupByFid(SortByFid(Wanted(n))) IN
  [j \in DOMAIN buf |-> [fid |-> buf[j].fid, child |-> buf[j].child,
                         ty |-> NodeType[buf[j].child]]]

\* Nodes passed over without reading their labels: in a sequential scan the
\* nodes that are no directories, in a seeking scan those not reached.
PassedOver(n) == IF sequential THEN ~IsDir(n) ELSE n \notin reached

\* @mutant of Scanning: the band's end is scanned too.
ScanningInclusive(w) == pc = "scan" /\ node[w] <= bounds[w + 1] /\ node[w] < NumNodes

Scanning(w) == pc = "scan" /\ node[w] < bounds[w + 1]

PassOver(w) ==
  /\ Scanning(w)
  /\ PassedOver(node[w])
  /\ node' = [node EXCEPT ![w] = @ + 1]
  /\ UNCHANGED <<inputs, pc, sequential, shard, next, dirmap>>

\* `if !reachable || buf.is_empty() { continue; }`
DecodeNothing(w) ==
  /\ Scanning(w)
  /\ ~PassedOver(node[w])
  /\ Row(node[w]) = <<>>
  /\ node' = [node EXCEPT ![w] = @ + 1]
  /\ UNCHANGED <<inputs, pc, sequential, shard, next, dirmap>>

DecodeDir(w) ==
  /\ Scanning(w)
  /\ ~PassedOver(node[w])
  /\ LET row == Row(node[w]) IN
       /\ row # <<>>
       /\ shard' = [shard EXCEPT
                      ![w] = [dirs   |-> Append(@.dirs, node[w]),
                              counts |-> Append(@.counts, Len(row)),
                              ent    |-> @.ent \o row]]
  /\ node' = [node EXCEPT ![w] = @ + 1]
  /\ UNCHANGED <<inputs, pc, sequential, next, dirmap>>

Decoder(w) == PassOver(w) \/ DecodeNothing(w) \/ DecodeDir(w)

AllScanned == \A w \in Workers : node[w] = bounds[w + 1]

\* The sum of f over the bands.
SumOver(f) ==
  LET upTo[w \in 0 .. K] == IF w = 0 THEN 0 ELSE upTo[w - 1] + f[w - 1] IN upTo[K]

NumDirs == SumOver([w \in Workers |-> Len(shard[w].dirs)])

\* The decoders are joined; `assert!(num_dirs <= u32::MAX)`.
TooManyDirs ==
  /\ pc = "scan" /\ AllScanned
  /\ NumDirs > MaxDirs
  /\ pc' = "aborted"
  /\ UNCHANGED <<inputs, sequential, node, shard, next, dirmap>>

\* @mutant of StartMerge: the rank space is not checked.
StartMergeUnchecked ==
  /\ pc = "scan" /\ AllScanned
  /\ pc' = "index" /\ next' = 0
  /\ UNCHANGED <<inputs, sequential, node, shard, dirmap>>

StartMerge ==
  /\ pc = "scan" /\ AllScanned
  /\ NumDirs <= MaxDirs
  /\ pc' = "index" /\ next' = 0
  /\ UNCHANGED <<inputs, sequential, node, shard, dirmap>>

\* The running sums of counts, on top of `start`.
PrefixSums(start, counts) ==
  LET sum[j \in 0 .. Len(counts)] == IF j = 0 THEN start ELSE sum[j - 1] + counts[j]
  IN  [j \in 1 .. Len(counts) |-> sum[j]]

\* Pass 1 over shard `next`: its directories get consecutive ranks.
IndexShard ==
  /\ pc = "index" /\ next < K
  /\ LET s == shard[next]
         first == Len(dirmap.offsets) - 1     \* directories indexed so far
         RankOf(n) == CHOOSE r \in 1 .. Len(s.dirs) : s.dirs[r] = n
     IN  dirmap' = [dirmap EXCEPT
           !.index = [n \in Node |->
             IF \E r \in 1 .. Len(s.dirs) : s.dirs[r] = n
               THEN first + RankOf(n) - 1 ELSE @[n]],
           !.offsets = @ \o PrefixSums(@[Len(@)], s.counts)]
  /\ next' = next + 1
  /\ UNCHANGED <<inputs, pc, sequential, node, shard>>

StartCopy ==
  /\ pc = "index" /\ next = K
  /\ pc' = "copy" /\ next' = 0
  /\ UNCHANGED <<inputs, sequential, node, shard, dirmap>>

\* Pass 2: the shard's entries are appended, and the shard is dropped.
CopyShard ==
  /\ pc = "copy" /\ next < K
  /\ dirmap' = [dirmap EXCEPT !.ent = @ \o shard[next].ent]
  /\ shard' = [shard EXCEPT ![next] = EmptyShard]
  /\ next' = next + 1
  /\ UNCHANGED <<inputs, pc, sequential, node>>

Return ==
  /\ pc = "copy" /\ next = K
  /\ pc' = "done"
  /\ UNCHANGED <<inputs, sequential, node, shard, next, dirmap>>

Over == pc \in {"done", "aborted"} /\ UNCHANGED vars

Caller ==
  \/ SizesDiffer \/ ChooseMode \/ TooManyDirs \/ StartMerge
  \/ IndexShard \/ StartCopy \/ CopyShard \/ Return

Next == Caller \/ (\E w \in Workers : Decoder(w)) \/ Over

\* That the scan ends is a matter of its threads: see Prefetch.
Spec == Init /\ [][Next]_vars

-----------------------------------------------------------------------------
(* DirMap::lookup *)

\* slice::binary_search on entries s+1 .. e: where f is, or 0.
BinarySearch(s, e, f) ==
  LET at[w \in (s .. e) \X (s .. e)] ==
        LET mid == (w[1] + w[2]) \div 2
            here == dirmap.ent[mid + 1].fid
        IN  IF w[1] >= w[2] THEN 0
            ELSE IF here = f THEN mid + 1
            ELSE IF here < f THEN at[<<mid + 1, w[2]>>] ELSE at[<<w[1], mid>>]
  IN  at[<<s, e>>]

NoEntry == [child |-> NoNode, ty |-> "none"]

Lookup(d, f) ==
  LET r == dirmap.index[d] + 1
      hit == IF r = NoRank + 1 THEN 0
             ELSE BinarySearch(dirmap.offsets[r], dirmap.offsets[r + 1], f)
  IN  IF hit = 0 THEN NoEntry
      ELSE [child |-> dirmap.ent[hit].child, ty |-> dirmap.ent[hit].ty]

-----------------------------------------------------------------------------

TypeOK ==
  /\ reached \subseteq Directory /\ requested \subseteq Fid
  /\ bitsetSize \in BitsetSizes
  /\ IsPartition(bounds)
  /\ pc \in {"check", "scan", "index", "copy", "done", "aborted"}
  /\ sequential \in BOOLEAN
  /\ next \in 0 .. K
  /\ \A w \in Workers :
       /\ node[w] \in bounds[w] .. bounds[w + 1]
       /\ shard[w].dirs \in Seq(Directory)
       /\ shard[w].counts \in Seq(Nat \ {0})
       /\ Len(shard[w].dirs) = Len(shard[w].counts)
  /\ dirmap.index \in [Node -> {NoRank} \cup 0 .. MaxDirs - 1]
  /\ dirmap.offsets \in Seq(Nat)

\* "The global stream is already grouped/sorted by dir node": whatever the
\* interleaving, the shards in band order list directories in strictly
\* increasing order, so none is listed twice, within a band or across a border.
StreamSorted ==
  pc = "scan" =>
    \A v, w \in Workers :
      \A a \in DOMAIN shard[v].dirs, b \in DOMAIN shard[w].dirs :
        (v < w \/ (v = w /\ a < b)) => shard[v].dirs[a] < shard[w].dirs[b]

\* The three debug assertions of the merge, and that every slice of the CSR is
\* sorted by name without repetition, which is what lookup searches.
CsrWellFormed ==
  pc = "done" =>
    /\ dirmap.offsets[Len(dirmap.offsets)] = Len(dirmap.ent)
    /\ \A r \in 1 .. Len(dirmap.offsets) - 1 :
         /\ dirmap.offsets[r] < dirmap.offsets[r + 1]
         /\ \A j \in dirmap.offsets[r] + 2 .. dirmap.offsets[r + 1] :
              dirmap.ent[j - 1].fid < dirmap.ent[j].fid

Table == [key \in Node \X Fid |-> Lookup(key[1], key[2])]

Abstract == INSTANCE DirMapSpec WITH
  table <- IF pc = "done" THEN Table ELSE << >>,
  failed <- pc = "aborted"

\* hydrate is one atomic construction of the exact table: for every cut into
\* bands, every interleaving of the decoders and either scan mode, lookup
\* answers with the entry the direct walk would take, exactly for reached
\* directories and requested names.
ImplementsDirMapSpec == Abstract!Spec
=============================================================================
