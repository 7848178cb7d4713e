---------------------------- MODULE PrefixIndex -----------------------------
(***************************************************************************)
(* ntf::scratch B0, build_rev_prefix_index: a rayon fold of the node range *)
(* into sharded maps `prefix -> revisions`, and the reduction of those     *)
(* maps into one.  The cut is chosen in Init, and every order of the folds *)
(* and reductions is a behaviour (see Rayon).  Resolve runs this module as *)
(* its first phase.                                                        *)
(***************************************************************************)
EXTENDS RevHash, Rayon

CONSTANTS
  Shards,      \* 0 .. NUM_SHARDS - 1
  ShardOf,     \* shard_of: key -> shard, any function of the whole key
  Cuts         \* the ways to cut the node range: sets of positions

Key == {HashPrefix(r) : r \in Revision}

IndexAssumption ==
  /\ ShardOf \in [Key -> Shards]
  /\ Cuts \subseteq SUBSET (1 .. NumNodes - 1)

VARIABLE parts     \* the pieces of the range, left to right, with their maps

EmptyShards == [s \in Shards |-> [k \in Key |-> <<>>]]

Pieces(cuts) ==
  LET cut == Cut(0, NumNodes, cuts) IN
  [p \in DOMAIN cut |-> [at |-> cut[p].at, hi |-> cut[p].hi, map |-> EmptyShards]]

Init == \E cuts \in Cuts : parts = Pieces(cuts)

Unfinished(p) == parts[p].at < parts[p].hi

\* `shards[si].entry(key).or_default().push(node)`
Push(map, n) ==
  LET k == HashPrefix(n) IN [map EXCEPT ![ShardOf[k]][k] = Append(@, n)]

Fold(p) ==
  /\ Unfinished(p)
  /\ LET n == parts[p].at IN
     parts' = [parts EXCEPT
       ![p].at = n + 1,
       ![p].map = IF NodeType[n] = "revision" THEN Push(@, n) ELSE @]

\* @mutant of Merge: an entry already there is kept as it is.
MergeKeepFirst(a, b) ==
  [s \in Shards |-> [k \in Key |-> IF a[s][k] # <<>> THEN a[s][k] ELSE b[s][k]]]

\* `sa.entry(k).or_default().append(&mut v)`, shard by shard
Merge(a, b) == [s \in Shards |-> [k \in Key |-> a[s][k] \o b[s][k]]]

Reduce(p) ==
  /\ p < Len(parts)
  /\ ~Unfinished(p) /\ ~Unfinished(p + 1)
  /\ parts' = Joined(parts, p,
                [parts[p + 1] EXCEPT !.map = Merge(parts[p].map, @)])

Built == Len(parts) = 1 /\ ~Unfinished(1)

\* lookup_prefix, on the finished index
Lookup(key) == IF key \in Key THEN parts[1].map[ShardOf[key]][key] ELSE <<>>

Next == \E p \in DOMAIN parts : Fold(p) \/ Reduce(p)

-----------------------------------------------------------------------------

TypeOK ==
  /\ parts \in Seq([at : 0 .. NumNodes, hi : 0 .. NumNodes,
                    map : [Shards -> [Key -> Seq(Revision)]]])
  /\ \A p \in DOMAIN parts : parts[p].at <= parts[p].hi

\* The candidates of a prefix do not depend on how rayon cut the range or in
\* which order it reduced: each revision with that prefix, once, in node order.
IndexExact ==
  Built => \A k \in Key :
    /\ {Lookup(k)[j] : j \in DOMAIN Lookup(k)} = Matching(k)
    /\ \A j \in 2 .. Len(Lookup(k)) : Lookup(k)[j - 1] < Lookup(k)[j]
=============================================================================
