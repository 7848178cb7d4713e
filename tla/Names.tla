------------------------------- MODULE Names --------------------------------
(***************************************************************************)
(* ntf::names.  Step 1 reads the candidates file in batches and collects   *)
(* the distinct path components, each batch by a parallel fold of sets.    *)
(* Step 2 is one pass over all label names, in chunks of ids, that finds   *)
(* the id of every component: each piece of the fold keeps a private map   *)
(* `name -> id`, the larger of two maps is extended by the smaller, and    *)
(* the requested bits are set in one shared bitset as the ids are found.   *)
(***************************************************************************)
EXTENDS Rayon, Sequences

CONSTANTS
  BatchRows,   \* rows per batch (300_000)
  NLabels,     \* N_LABELS
  Chunk,       \* CHUNK (1 << 20)
  Name,        \* names of files and branches
  LabelName    \* properties().label_name: id -> name

LabelId == 0 .. NLabels - 1

NamesAssumption ==
  /\ BatchRows \in Nat \ {0}
  /\ NLabels \in Nat /\ Chunk \in Nat \ {0}
  /\ LabelName \in [LabelId -> Name]
  \* the front-coded list holds each name once
  /\ \A f, g \in LabelId : LabelName[f] = LabelName[g] => f = g

VARIABLES
  file, columns, \* the candidates: rows with the components of their rel_path
  npc,           \* "open", "collect", "scan" or "failed"
  rows,          \* rows merged into distinct
  local,         \* the batch in step 1: pieces of its rows with their sets
  distinct,      \* the components of the rows merged
  requested,     \* RequestedFid, shared
  scan           \* step 2: pieces of the chunks with their next id and map

vars == <<file, columns, npc, rows, local, distinct, requested, scan>>
inputs == <<file, columns>>

Init ==
  /\ npc = "open" /\ rows = 0 /\ local = <<>>
  /\ distinct = {} /\ requested = {}
  /\ scan = <<>>

-----------------------------------------------------------------------------
(* Step 1: collect_distinct_components. *)

\* `all_cands parquet has no rel_path column`, or the open itself fails.
OpenFile ==
  /\ npc = "open"
  /\ npc' \in {"failed"} \cup {"collect" : c \in columns \cap {"rel_path"}}
  /\ UNCHANGED <<inputs, rows, local, distinct, requested, scan>>

EndOfBatch ==
  IF rows + BatchRows < Len(file) THEN rows + BatchRows ELSE Len(file)

ReadBatch ==
  /\ npc = "collect" /\ local = <<>> /\ rows < Len(file)
  /\ \E cuts \in CutsOf(rows, EndOfBatch) :
       LET cut == Cut(rows, EndOfBatch, cuts) IN
       local' = [p \in DOMAIN cut |->
                   [at |-> cut[p].at, hi |-> cut[p].hi, set |-> {}]]
  /\ UNCHANGED <<inputs, npc, rows, distinct, requested, scan>>

\* `let batch = batch?`
ReadFails ==
  /\ npc = "collect" /\ local = <<>> /\ rows < Len(file)
  /\ npc' = "failed"
  /\ UNCHANGED <<inputs, rows, local, distinct, requested, scan>>

Components(r) == {file[r].comps[c] : c \in DOMAIN file[r].comps}

CollectRow(p) ==
  /\ local[p].at < local[p].hi
  /\ local' = [local EXCEPT ![p].at = @ + 1,
                            ![p].set = @ \cup Components(local[p].at + 1)]
  /\ UNCHANGED <<inputs, npc, rows, distinct, requested, scan>>

Collected(p) == local[p].at = local[p].hi

ReduceSets(p) ==
  /\ p < Len(local) /\ Collected(p) /\ Collected(p + 1)
  /\ local' = Joined(local, p,
                [local[p + 1] EXCEPT !.set = local[p].set \cup @])
  /\ UNCHANGED <<inputs, npc, rows, distinct, requested, scan>>

\* @mutant of Merged: the last batch replaces the ones before it.
MergedLast(all, set) == set

\* `if distinct.is_empty() { distinct = local } else { distinct.extend(local) }`
Merged(all, set) == IF all = {} THEN set ELSE all \cup set

MergeBatch ==
  /\ Len(local) = 1 /\ Collected(1)
  /\ distinct' = Merged(distinct, local[1].set)
  /\ rows' = local[1].hi
  /\ local' = <<>>
  /\ UNCHANGED <<inputs, npc, requested, scan>>

-----------------------------------------------------------------------------
(* Step 2: build_reverse_map. *)

\* N_LABELS.div_ceil(CHUNK)
NChunks == (NLabels + Chunk - 1) \div Chunk

ChunkStart(c) == c * Chunk

\* @mutant of ChunkEnd: the last id of a chunk is left out.
ChunkEndShort(c) ==
  LET end == ChunkStart(c) + Chunk - 1 IN IF end < NLabels THEN end ELSE NLabels

\* `(start + CHUNK).min(N_LABELS)`
ChunkEnd(c) ==
  LET end == ChunkStart(c) + Chunk IN IF end < NLabels THEN end ELSE NLabels

EmptyMap == [n \in {} |-> 0]

StartScan ==
  /\ npc = "collect" /\ local = <<>> /\ rows = Len(file)
  /\ npc' = "scan"
  /\ \E cuts \in CutsOf(0, NChunks) :
       LET cut == Cut(0, NChunks, cuts) IN
       scan' = [p \in DOMAIN cut |->
                  [at |-> cut[p].at, hi |-> cut[p].hi,
                   id |-> ChunkStart(cut[p].at), map |-> EmptyMap]]
  /\ UNCHANGED <<inputs, rows, local, distinct, requested>>

\* HashMap::insert and extend: a later entry replaces one of the same name.
Extend(a, b) ==
  [n \in DOMAIN a \cup DOMAIN b |-> IF n \in DOMAIN b THEN b[n] ELSE a[n]]

\* @mutant of Entry: the id after the name's own.
EntryNext(f) == [n \in {LabelName[f]} |-> f + 1]

\* `acc.insert(bytes, id)`
Entry(f) == [n \in {LabelName[f]} |-> f]

Wanted(f) == LabelName[f] \in distinct

\* One turn of `for id in start..end`, and on to the next chunk after the last.
ScanId(p) ==
  /\ scan[p].at < scan[p].hi
  /\ LET f == scan[p].id
         last == f + 1 >= ChunkEnd(scan[p].at)
     IN  /\ requested' = IF Wanted(f) THEN requested \cup {f} ELSE requested
         /\ scan' = [scan EXCEPT
              ![p].map = IF Wanted(f) THEN Extend(@, Entry(f)) ELSE @,
              ![p].at = IF last THEN @ + 1 ELSE @,
              ![p].id = IF last THEN ChunkStart(scan[p].at + 1) ELSE f + 1]
  /\ UNCHANGED <<inputs, npc, rows, local, distinct>>

Scanned(p) == scan[p].at = scan[p].hi

\* @mutant of Reduced: the smaller map is dropped.
ReducedLarger(a, b) ==
  IF Cardinality(DOMAIN a) < Cardinality(DOMAIN b) THEN b ELSE a

\* `if a.len() < b.len() { swap }  a.extend(b)`
Reduced(a, b) ==
  IF Cardinality(DOMAIN a) < Cardinality(DOMAIN b) THEN Extend(b, a) ELSE Extend(a, b)

ReduceMaps(p) ==
  /\ p < Len(scan) /\ Scanned(p) /\ Scanned(p + 1)
  /\ scan' = Joined(scan, p,
               [scan[p + 1] EXCEPT !.map = Reduced(scan[p].map, @)])
  /\ UNCHANGED <<inputs, npc, rows, local, distinct, requested>>

Done == npc = "scan" /\ Len(scan) = 1 /\ Scanned(1)

\* What build_names returns, with requested.
ComponentFid == scan[1].map

Next ==
  \/ OpenFile \/ ReadBatch \/ ReadFails \/ MergeBatch \/ StartScan
  \/ \E p \in DOMAIN local : CollectRow(p) \/ ReduceSets(p)
  \/ \E p \in DOMAIN scan : ScanId(p) \/ ReduceMaps(p)

-----------------------------------------------------------------------------

TypeOK ==
  /\ npc \in {"open", "collect", "scan", "failed"} /\ rows \in 0 .. Len(file)
  /\ \A p \in DOMAIN local :
       local[p].at \in rows .. local[p].hi /\ local[p].hi <= Len(file)
  /\ distinct \subseteq Name /\ requested \subseteq LabelId
  /\ \A p \in DOMAIN scan :
       /\ scan[p].at \in 0 .. scan[p].hi /\ scan[p].hi <= NChunks
       /\ \A n \in DOMAIN scan[p].map : n \in Name /\ scan[p].map[n] \in LabelId

\* The two outputs agree at every moment: hydrate keeps an entry's name exactly
\* when seeds may look that name up, so no name a row asks for is filtered out
\* and none is kept in vain.
RequestedMatchesMap ==
  requested = UNION {{scan[p].map[n] : n \in DOMAIN scan[p].map} : p \in DOMAIN scan}

\* When the reduction ends, every component of every row that the archive has,
\* and nothing else, has its own id, however batches and chunks were cut,
\* folded and reduced.
NamesExact ==
  Done =>
    LET asked == UNION {Components(r) : r \in DOMAIN file}
        found == {f \in LabelId : LabelName[f] \in asked}
    IN  ComponentFid = [n \in {LabelName[f] : f \in found} |->
                          CHOOSE f \in found : LabelName[f] = n]
=============================================================================
