--------------------------- MODULE ResolveProofs ----------------------------
(***************************************************************************)
(* Proofs about B0 and B1, for every graph, every assignment of hashes,    *)
(* every prefix length, every table of rows and every way rayon cuts,      *)
(* folds and reduces the node range.                                       *)
(***************************************************************************)
EXTENDS Resolve, FiniteSetTheorems, FunctionTheorems, SequenceTheorems, TLAPS

-----------------------------------------------------------------------------
(* Least elements.                                                           *)

\* A set of naturals with a member has a least one.
LEMMA LeastOf ==
  ASSUME NEW T \in SUBSET Nat, T # {}
  PROVE  \E m \in T : \A k \in T : m <= k
<1>1. PICK m \in T : \A k \in T : <<k, m>> \notin OpToRel(<, Nat)
  BY NatLessThanWellFounded, WFMin
<1>2. ASSUME NEW k \in T
      PROVE  m <= k
  <2>1. ~(k < m)
    BY <1>1 DEF OpToRel
  <2>2. QED
    BY <2>1
<1>3. QED
  BY <1>2

-----------------------------------------------------------------------------
(* The members of a set in ascending order.                                  *)

Sorted(s, S) ==
  /\ s \in Seq(S)
  /\ \A n \in S : \E p \in DOMAIN s : s[p] = n
  /\ \A p, q \in DOMAIN s : p < q => s[p] < s[q]

Rank(S, n) == Cardinality({m \in S : m <= n})

\* The rank orders a finite set of naturals as its members are ordered.
LEMMA RankOrders ==
  ASSUME NEW S \in SUBSET Nat, IsFiniteSet(S)
  PROVE  /\ \A n \in S : Rank(S, n) \in 1 .. Cardinality(S)
         /\ \A m, n \in S : m < n => Rank(S, m) < Rank(S, n)
<1> DEFINE upto(n) == {m \in S : m <= n}
<1>1. Cardinality(S) \in Nat
  BY FS_CardinalityType
<1>2. ASSUME NEW n \in S
      PROVE  /\ IsFiniteSet(upto(n)) /\ Rank(S, n) = Cardinality(upto(n))
             /\ Rank(S, n) \in Nat /\ Rank(S, n) <= Cardinality(S)
  <2>1. upto(n) \in SUBSET S
    OBVIOUS
  <2>2. Rank(S, n) = Cardinality(upto(n))
    BY DEF Rank
  <2> HIDE DEF upto
  <2>3. IsFiniteSet(upto(n)) /\ Cardinality(upto(n)) <= Cardinality(S)
    BY <2>1, FS_Subset
  <2>4. Cardinality(upto(n)) \in Nat
    BY <2>3, FS_CardinalityType
  <2>5. QED
    BY <2>2, <2>3, <2>4
<1>3. ASSUME NEW n \in S
      PROVE  Rank(S, n) # 0
  <2>1. n \in upto(n)
    OBVIOUS
  <2> HIDE DEF upto
  <2>2. Cardinality(upto(n)) # 0
    BY <1>2, <2>1, FS_EmptySet
  <2>3. QED
    BY <1>2, <2>2
<1>4. ASSUME NEW m \in S, NEW n \in S, m < n
      PROVE  Rank(S, m) < Rank(S, n)
  <2>1. upto(m) \in SUBSET upto(n) /\ n \in upto(n) /\ n \notin upto(m)
    <3>1. m \in Nat /\ n \in Nat /\ \A k \in S : k \in Nat
      OBVIOUS
    <3>2. \A k \in S : k <= m => k <= n
      BY <1>4, <3>1
    <3>3. n <= n /\ ~(n <= m)
      BY <1>4, <3>1
    <3>4. QED
      BY <3>2, <3>3
  <2> HIDE DEF upto
  <2>2. /\ Cardinality(upto(m)) <= Cardinality(upto(n))
        /\ Cardinality(upto(n)) = Cardinality(upto(m)) => upto(n) = upto(m)
    BY <1>2, <2>1, FS_Subset
  <2>3. Rank(S, m) <= Rank(S, n) /\ Rank(S, m) # Rank(S, n)
    BY <1>2, <2>1, <2>2
  <2>4. Rank(S, m) \in Nat /\ Rank(S, n) \in Nat
    BY <1>2
  <2>5. QED
    BY <2>3, <2>4
<1>5. \A n \in S : Rank(S, n) \in 1 .. Cardinality(S)
  <2> HIDE DEF upto
  <2>1. QED
    BY <1>1, <1>2, <1>3
<1>6. QED
  BY <1>4, <1>5

\* Each rank up to the size of the set is that of one member.
LEMMA RankReached ==
  ASSUME NEW S \in SUBSET Nat, IsFiniteSet(S), NEW p \in 1 .. Cardinality(S)
  PROVE  \E n \in S : Rank(S, n) = p /\ \A m \in S : Rank(S, m) = p => m = n
<1> DEFINE R == [n \in S |-> Rank(S, n)]
           C == 1 .. Cardinality(S)
<1>1. Cardinality(S) \in Nat
  BY FS_CardinalityType
<1>2. \A m, n \in S : Rank(S, m) = Rank(S, n) => m = n
  <2> SUFFICES ASSUME NEW m \in S, NEW n \in S, Rank(S, m) = Rank(S, n), m # n
               PROVE  FALSE
    OBVIOUS
  <2>1. m < n \/ n < m
    OBVIOUS
  <2>2. Rank(S, m) < Rank(S, n) \/ Rank(S, n) < Rank(S, m)
    BY <2>1, RankOrders
  <2>3. Rank(S, m) \in Nat /\ Rank(S, n) \in Nat
    BY <1>1, RankOrders
  <2>4. QED
    BY <2>2, <2>3
<1>3. R \in [S -> C]
  BY RankOrders
<1>4. \A m, n \in S : R[m] = R[n] => m = n
  BY <1>2
<1>5. IsFiniteSet(C) /\ Cardinality(C) = Cardinality(S)
  BY <1>1, FS_Interval
<1> HIDE DEF R, C
<1>6. R \in Injection(S, C)
  BY <1>3, <1>4, Fun_IsInj
<1>7. R \in Surjection(S, C)
  BY <1>5, <1>6, FS_Injection
<1>8. p \in C
  BY DEF C
<1>9. PICK n \in S : R[n] = p
  BY <1>7, <1>8 DEF Surjection
<1>10. QED
  BY <1>2, <1>9 DEF R

LEMMA AscendingSorts ==
  ASSUME NEW S \in SUBSET Nat, IsFiniteSet(S)
  PROVE  Sorted(Ascending(S), S) /\ DOMAIN Ascending(S) = 1 .. Cardinality(S)
<1>1. Cardinality(S) \in Nat
  BY FS_CardinalityType
<1>2. \A p \in 1 .. Cardinality(S) :
        Ascending(S)[p] = CHOOSE n \in S : Rank(S, n) = p
  BY DEF Ascending, Rank
<1>3. \A p \in 1 .. Cardinality(S) :
        Ascending(S)[p] \in S /\ Rank(S, Ascending(S)[p]) = p
  BY <1>2, RankReached
<1>4. DOMAIN Ascending(S) = 1 .. Cardinality(S)
  BY DEF Ascending
<1>5. Ascending(S) \in Seq(S)
  <2>1. Ascending(S) = [p \in 1 .. Cardinality(S) |-> Ascending(S)[p]]
    BY DEF Ascending
  <2>2. Ascending(S) \in [1 .. Cardinality(S) -> S]
    BY <1>3, <2>1
  <2>3. QED
    BY <1>1, <2>2
<1>6. ASSUME NEW n \in S
      PROVE  \E p \in DOMAIN Ascending(S) : Ascending(S)[p] = n
  <2>1. Rank(S, n) \in 1 .. Cardinality(S)
    BY RankOrders
  <2>2. PICK m \in S : \A o \in S : Rank(S, o) = Rank(S, n) => o = m
    BY <2>1, RankReached
  <2>3. Ascending(S)[Rank(S, n)] = n
    BY <1>3, <2>1, <2>2
  <2>4. QED
    BY <1>4, <2>1, <2>3
<1>7. ASSUME NEW p \in DOMAIN Ascending(S), NEW q \in DOMAIN Ascending(S), p < q
      PROVE  Ascending(S)[p] < Ascending(S)[q]
  <2> DEFINE x == Ascending(S)[p]
             y == Ascending(S)[q]
  <2>1. x \in S /\ y \in S /\ Rank(S, x) = p /\ Rank(S, y) = q
    BY <1>3, <1>4
  <2>2. p \in Nat /\ q \in Nat
    BY <1>1, <1>4
  <2>3. x \in Nat /\ y \in Nat
    BY <2>1
  <2> HIDE DEF x, y
  <2>4. ~(y < x) /\ x # y
    <3>1. y < x => q < p
      BY <2>1, RankOrders
    <3>2. QED
      BY <1>7, <2>1, <2>2, <3>1
  <2>5. x < y
    BY <2>3, <2>4
  <2>6. QED
    BY <2>5 DEF x, y
<1>8. QED
  BY <1>4, <1>5, <1>6, <1>7 DEF Sorted

LEMMA SortedNone == Sorted(<<>>, {})
BY EmptySeq DEF Sorted

\* A greater element goes to the end.
LEMMA SortedAppend ==
  ASSUME NEW S \in SUBSET Nat, NEW s, Sorted(s, S),
         NEW x \in Nat, \A y \in S : y < x
  PROVE  Sorted(Append(s, x), S \cup {x})
<1> DEFINE t == Append(s, x)
           T == S \cup {x}
<1>1. s \in Seq(S) /\ s \in Seq(T)
  BY DEF Sorted
<1>2. /\ t \in Seq(T) /\ Len(t) = Len(s) + 1 /\ Len(s) \in Nat
      /\ \A p \in 1 .. Len(s) : t[p] = s[p]
      /\ t[Len(s) + 1] = x
  <2>1. x \in T
    OBVIOUS
  <2> HIDE DEF T
  <2>2. QED
    BY <1>1, <2>1, AppendProperties, LenProperties
<1>3. DOMAIN s = 1 .. Len(s) /\ DOMAIN t = 1 .. Len(s) + 1
  BY <1>1, <1>2
<1>4. ASSUME NEW n \in T
      PROVE  \E p \in DOMAIN t : t[p] = n
  <2>1. CASE n = x
    <3>1. Len(s) + 1 \in DOMAIN t
      BY <1>2, <1>3
    <3>2. QED
      BY <1>2, <2>1, <3>1
  <2>2. CASE n \in S
    <3>1. PICK p \in DOMAIN s : s[p] = n
      BY <2>2 DEF Sorted
    <3>2. p \in DOMAIN t /\ t[p] = n
      BY <1>2, <1>3, <3>1
    <3>3. QED
      BY <3>2
  <2>3. QED
    BY <2>1, <2>2
<1>5. ASSUME NEW p \in DOMAIN t, NEW q \in DOMAIN t, p < q
      PROVE  t[p] < t[q]
  <2>1. p \in 1 .. Len(s) /\ t[p] = s[p] /\ s[p] \in S
    BY <1>1, <1>2, <1>3, <1>5
  <2>2. CASE q = Len(s) + 1
    BY <1>2, <2>1, <2>2
  <2>3. CASE q \in 1 .. Len(s)
    BY <1>2, <1>3, <1>5, <2>1, <2>3 DEF Sorted
  <2>4. QED
    BY <1>2, <1>3, <2>2, <2>3
<1> HIDE DEF t, T
<1>6. Sorted(t, T)
  BY <1>2, <1>4, <1>5 DEF Sorted
<1>7. QED
  BY <1>6 DEF t, T

\* Greater elements follow in their order.
LEMMA SortedConcat ==
  ASSUME NEW S \in SUBSET Nat, NEW T \in SUBSET Nat, NEW s, NEW t,
         Sorted(s, S), Sorted(t, T), \A x \in S, y \in T : x < y
  PROVE  Sorted(s \o t, S \cup T)
<1> DEFINE c == s \o t
           C == S \cup T
<1>1. s \in Seq(S) /\ t \in Seq(T) /\ s \in Seq(C) /\ t \in Seq(C)
  BY DEF Sorted
<1>2. /\ Len(s) \in Nat /\ DOMAIN s = 1 .. Len(s)
      /\ Len(t) \in Nat /\ DOMAIN t = 1 .. Len(t)
  BY <1>1
<1>3. /\ c \in Seq(C) /\ Len(c) = Len(s) + Len(t)
      /\ \A p \in 1 .. Len(s) + Len(t) :
           c[p] = IF p <= Len(s) THEN s[p] ELSE t[p - Len(s)]
  <2> HIDE DEF C
  <2>1. QED
    BY <1>1, ConcatProperties
<1> HIDE DEF c, C
<1>4. DOMAIN c = 1 .. Len(s) + Len(t)
  BY <1>3
<1>5. ASSUME NEW n \in C
      PROVE  \E p \in DOMAIN c : c[p] = n
  <2>1. CASE n \in S
    <3>1. PICK p \in DOMAIN s : s[p] = n
      BY <2>1 DEF Sorted
    <3>2. p \in 1 .. Len(s) + Len(t) /\ p <= Len(s)
      BY <1>2
    <3>3. QED
      BY <1>3, <1>4, <3>1, <3>2
  <2>2. CASE n \in T
    <3>1. PICK p \in DOMAIN t : t[p] = n
      BY <2>2 DEF Sorted
    <3>2. /\ p + Len(s) \in 1 .. Len(s) + Len(t) /\ ~(p + Len(s) <= Len(s))
          /\ (p + Len(s)) - Len(s) = p
      BY <1>2
    <3>3. c[p + Len(s)] = n
      BY <1>3, <3>1, <3>2
    <3>4. QED
      BY <1>4, <3>2, <3>3
  <2>3. QED
    BY <2>1, <2>2 DEF C
<1>6. ASSUME NEW p \in DOMAIN c, NEW q \in DOMAIN c, p < q
      PROVE  c[p] < c[q]
  <2>1. p \in 1 .. Len(s) + Len(t) /\ q \in 1 .. Len(s) + Len(t)
    BY <1>4
  <2>2. CASE q <= Len(s)
    <3>1. p \in DOMAIN s /\ q \in DOMAIN s /\ p <= Len(s)
      BY <1>2, <1>6, <2>1, <2>2
    <3>2. s[p] < s[q]
      BY <1>6, <3>1 DEF Sorted
    <3>3. QED
      BY <1>3, <2>1, <2>2, <3>1, <3>2
  <2>3. CASE ~(p <= Len(s))
    <3>1. /\ p - Len(s) \in DOMAIN t /\ q - Len(s) \in DOMAIN t
          /\ p - Len(s) < q - Len(s) /\ ~(q <= Len(s))
      BY <1>2, <1>6, <2>1, <2>3
    <3>2. t[p - Len(s)] < t[q - Len(s)]
      BY <3>1 DEF Sorted
    <3>3. QED
      BY <1>3, <2>1, <2>3, <3>1, <3>2
  <2>4. CASE p <= Len(s) /\ ~(q <= Len(s))
    <3>1. p \in DOMAIN s /\ q - Len(s) \in DOMAIN t
      BY <1>2, <2>1, <2>4
    <3>2. s[p] \in S /\ t[q - Len(s)] \in T
      BY <1>1, <3>1
    <3>3. c[p] = s[p] /\ c[q] = t[q - Len(s)]
      BY <1>3, <2>1, <2>4
    <3>4. QED
      BY <3>2, <3>3
  <2>5. QED
    BY <2>2, <2>3, <2>4
<1>7. Sorted(c, C)
  BY <1>3, <1>5, <1>6 DEF Sorted
<1>8. QED
  BY <1>7 DEF c, C

-----------------------------------------------------------------------------
(* B0: the index.                                                            *)

LEMMA NodesNatural ==
  /\ Node \in SUBSET Nat /\ IsFiniteSet(Node)
  /\ Revision \in SUBSET Node /\ Revision \in SUBSET Nat
<1>1. NumNodes \in Nat
  BY GraphAssumption
<1>2. Node \in SUBSET Nat
  BY <1>1 DEF Node
<1>3. IsFiniteSet(Node)
  BY <1>1, FS_Interval DEF Node
<1>4. QED
  BY <1>2, <1>3 DEF Revision

\* The index talks of the same revisions and prefixes.
LEMMA SameHashes ==
  /\ Index!Revision = Revision
  /\ \A r : Index!HashPrefix(r) = HashPrefix(r)
  /\ Index!Key = {HashPrefix(r) : r \in Revision}
  /\ \A k : Index!Matching(k) = Matching(k)
<1>1. Index!Revision = Revision
  BY DEF Index!Revision, Revision, Index!Node, Node
<1>2. \A r : Index!HashPrefix(r) = HashPrefix(r)
  BY DEF Index!HashPrefix, HashPrefix, Index!Take, Take
<1>3. QED
  BY <1>1, <1>2 DEF Index!Key, Index!Matching, Matching

Maps == [Shards -> [Index!Key -> Seq(Revision)]]
Piece == [at : 0 .. NumNodes, hi : 0 .. NumNodes, map : Maps]

\* Where the p-th piece of the range started.
Start(p) == IF p = 1 THEN 0 ELSE parts[p - 1].hi

Between(k, lo, at) == {r \in Matching(k) : lo <= r /\ r < at}

\* A piece's map holds the revisions from lo up to at, in node order.
Holds(map, lo, at) ==
  \A k \in Index!Key : Sorted(map[ShardOf[k]][k], Between(k, lo, at))

\* The pieces lie side by side over the whole range, and each has indexed its
\* nodes up to where it is.
IndexInv ==
  /\ parts \in Seq(Piece)
  /\ Len(parts) # 0 /\ parts[Len(parts)].hi = NumNodes
  /\ \A p \in DOMAIN parts :
       /\ Start(p) <= parts[p].at /\ parts[p].at <= parts[p].hi
       /\ Holds(parts[p].map, Start(p), parts[p].at)

LEMMA MatchingNatural == \A k, lo, at : Between(k, lo, at) \in SUBSET Nat
BY NodesNatural DEF Between, Matching

LEMMA NoneBetween ==
  ASSUME NEW k, NEW lo \in Nat
  PROVE  Between(k, lo, lo) = {}
<1>1. \A r \in Matching(k) : ~(lo <= r /\ r < lo)
  BY NodesNatural DEF Matching
<1>2. QED
  BY <1>1 DEF Between

LEMMA EmptyHolds ==
  ASSUME NEW lo \in Nat
  PROVE  Holds(Index!EmptyShards, lo, lo) /\ Index!EmptyShards \in Maps
<1>1. \A k \in Index!Key : ShardOf[k] \in Shards
  BY ResolveAssumption DEF Index!IndexAssumption
<1>2. \A k \in Index!Key : Index!EmptyShards[ShardOf[k]][k] = <<>>
  BY <1>1 DEF Index!EmptyShards
<1>3. Index!EmptyShards \in Maps
  BY EmptySeq DEF Index!EmptyShards, Maps
<1>4. QED
  BY <1>2, <1>3, SortedNone, NoneBetween DEF Holds

\* The next node of a piece, a revision.
LEMMA PushHolds ==
  ASSUME NEW map \in Maps, NEW lo \in Nat, NEW at \in Revision, lo <= at,
         Holds(map, lo, at)
  PROVE  Holds(Index!Push(map, at), lo, at + 1) /\ Index!Push(map, at) \in Maps
<1>1. at \in Nat
  BY NodesNatural
<1>2. HashPrefix(at) \in Index!Key
  BY SameHashes
<1>3. \A k \in Index!Key : ShardOf[k] \in Shards /\ map[ShardOf[k]][k] \in Seq(Revision)
  BY ResolveAssumption DEF Index!IndexAssumption, Maps
<1>4. PICK key : key = HashPrefix(at)
  OBVIOUS
<1>5. key \in Index!Key
  BY <1>2, <1>4
<1>6. PICK list : list = Append(map[ShardOf[key]][key], at)
  OBVIOUS
<1>7. list \in Seq(Revision)
  BY <1>3, <1>5, <1>6, AppendProperties
<1>8. Index!Push(map, at) = [map EXCEPT ![ShardOf[key]][key] = list]
  BY <1>4, <1>6, SameHashes DEF Index!Push
<1>9. PICK new : new = Index!Push(map, at)
  OBVIOUS
<1>10. new = [map EXCEPT ![ShardOf[key]] = [map[ShardOf[key]] EXCEPT ![key] = list]]
  BY <1>8, <1>9
<1>11. /\ new[ShardOf[key]][key] = list
       /\ \A k \in Index!Key : k # key => new[ShardOf[k]][k] = map[ShardOf[k]][k]
  BY <1>3, <1>5, <1>10 DEF Maps
<1>12. new \in Maps
  BY <1>3, <1>5, <1>7, <1>10 DEF Maps
<1>13. Sorted(list, Between(key, lo, at + 1))
  <2>1. Sorted(map[ShardOf[key]][key], Between(key, lo, at))
    BY <1>5 DEF Holds
  <2>2. \A y \in Between(key, lo, at) : y < at
    BY DEF Between
  <2>3. Between(key, lo, at) \cup {at} = Between(key, lo, at + 1)
    <3>1. at \in Matching(key)
      BY <1>4 DEF Matching
    <3>2. \A r \in Matching(key) : r < at + 1 <=> r < at \/ r = at
      BY <1>1, NodesNatural DEF Matching
    <3>3. QED
      BY <3>1, <3>2 DEF Between
  <2>4. Sorted(list, Between(key, lo, at) \cup {at})
    BY <1>1, <1>6, <2>1, <2>2, MatchingNatural, SortedAppend
  <2>5. QED
    BY <2>3, <2>4
<1>14. ASSUME NEW k \in Index!Key, k # key
       PROVE  Between(k, lo, at + 1) = Between(k, lo, at)
  <2>1. at \notin Matching(k)
    BY <1>4, <1>14 DEF Matching
  <2>2. \A r \in Matching(k) : r < at + 1 <=> r < at
    BY <1>1, <2>1, NodesNatural DEF Matching
  <2>3. QED
    BY <2>2 DEF Between
<1>15. Holds(new, lo, at + 1)
  <2> SUFFICES ASSUME NEW k \in Index!Key
               PROVE  Sorted(new[ShardOf[k]][k], Between(k, lo, at + 1))
    BY DEF Holds
  <2>1. CASE k = key
    BY <1>11, <1>13, <2>1
  <2>2. CASE k # key
    BY <1>11, <1>14, <2>2 DEF Holds
  <2>3. QED
    BY <2>1, <2>2
<1>16. QED
  BY <1>9, <1>12, <1>15

\* The next node of a piece, no revision.
LEMMA SkipHolds ==
  ASSUME NEW map, NEW lo \in Nat, NEW at \in Nat, at \notin Revision,
         Holds(map, lo, at)
  PROVE  Holds(map, lo, at + 1)
<1>1. ASSUME NEW k \in Index!Key
      PROVE  Between(k, lo, at + 1) = Between(k, lo, at)
  <2>1. at \notin Matching(k)
    BY DEF Matching
  <2>2. \A r \in Matching(k) : r < at + 1 <=> r < at
    BY <2>1, NodesNatural DEF Matching
  <2>3. QED
    BY <2>2 DEF Between
<1>2. QED
  BY <1>1 DEF Holds

\* Two neighbours become one.
LEMMA MergeHolds ==
  ASSUME NEW a \in Maps, NEW b \in Maps,
         NEW lo \in Nat, NEW mid \in Nat, NEW hi \in Nat, lo <= mid, mid <= hi,
         Holds(a, lo, mid), Holds(b, mid, hi)
  PROVE  Holds(Index!Merge(a, b), lo, hi) /\ Index!Merge(a, b) \in Maps
<1>1. \A k \in Index!Key : ShardOf[k] \in Shards
  BY ResolveAssumption DEF Index!IndexAssumption
<1>2. \A s \in Shards, k \in Index!Key : Index!Merge(a, b)[s][k] = a[s][k] \o b[s][k]
  BY DEF Index!Merge
<1>3. Index!Merge(a, b) \in Maps
  <2>1. ASSUME NEW s \in Shards, NEW k \in Index!Key
        PROVE  a[s][k] \o b[s][k] \in Seq(Revision)
    <3>1. a[s][k] \in Seq(Revision) /\ b[s][k] \in Seq(Revision)
      BY DEF Maps
    <3>2. QED
      BY <3>1, ConcatProperties
  <2>2. QED
    BY <2>1 DEF Index!Merge, Maps
<1>4. ASSUME NEW k \in Index!Key
      PROVE  Sorted(a[ShardOf[k]][k] \o b[ShardOf[k]][k], Between(k, lo, hi))
  <2>1. /\ Sorted(a[ShardOf[k]][k], Between(k, lo, mid))
        /\ Sorted(b[ShardOf[k]][k], Between(k, mid, hi))
    BY DEF Holds
  <2>2. \A x \in Between(k, lo, mid), y \in Between(k, mid, hi) : x < y
    <3>1. ASSUME NEW x \in Nat, NEW y \in Nat, x < mid, mid <= y
          PROVE  x < y
      BY <3>1
    <3>2. QED
      BY <3>1, MatchingNatural DEF Between
  <2>3. Between(k, lo, mid) \cup Between(k, mid, hi) = Between(k, lo, hi)
    <3>1. \A r \in Matching(k) :
            lo <= r /\ r < hi <=> (lo <= r /\ r < mid) \/ (mid <= r /\ r < hi)
      BY NodesNatural DEF Matching
    <3>2. QED
      BY <3>1 DEF Between
  <2>4. PICK s, t : s = a[ShardOf[k]][k] /\ t = b[ShardOf[k]][k]
    OBVIOUS
  <2>5. Sorted(s \o t, Between(k, lo, mid) \cup Between(k, mid, hi))
    <3>1. Sorted(s, Between(k, lo, mid)) /\ Sorted(t, Between(k, mid, hi))
      BY <2>1, <2>4
    <3>2. QED
      BY <2>2, <3>1, MatchingNatural, SortedConcat
  <2>6. QED
    BY <2>3, <2>4, <2>5
<1>5. QED
  BY <1>1, <1>2, <1>3, <1>4 DEF Holds

\* The member of rank p.
Nth(S, p) == CHOOSE n \in S : Cardinality({m \in S : m <= n}) = p

LEMMA CutAt ==
  ASSUME NEW lo, NEW hi, NEW cuts
  PROVE  LET ends == cuts \cup {hi} IN
         Index!Cut(lo, hi, cuts) =
           [p \in 1 .. Cardinality(ends) |->
              [at |-> IF p = 1 THEN lo ELSE Nth(ends, p - 1), hi |-> Nth(ends, p)]]
<1>1. \A S : Index!Cardinality(S) = Cardinality(S)
  BY DEF Index!Cardinality, Cardinality
<1>2. QED
  BY <1>1 DEF Index!Cut, Nth

\* However the range is cut, the pieces cover it.
LEMMA IndexStarts == Index!Init => IndexInv
<1> SUFFICES ASSUME Index!Init PROVE IndexInv
  OBVIOUS
<1>1. NumNodes \in Nat
  BY GraphAssumption
<1>2. PICK cuts \in Cuts : parts = Index!Pieces(cuts)
  BY DEF Index!Init
<1>3. PICK ends : ends = cuts \cup {NumNodes}
  OBVIOUS
<1>4. /\ ends \in SUBSET Nat /\ IsFiniteSet(ends)
      /\ NumNodes \in ends /\ \A e \in ends : e <= NumNodes
  <2>1. cuts \in SUBSET (1 .. NumNodes - 1)
    BY ResolveAssumption DEF Index!IndexAssumption
  <2>2. \A e \in ends : e \in Nat /\ e <= NumNodes
    BY <1>1, <1>3, <2>1
  <2>3. IsFiniteSet(ends)
    BY <1>1, <2>2, FS_BoundedSetOfNaturals
  <2>4. QED
    BY <1>3, <2>2, <2>3
<1>5. PICK size : size = Cardinality(ends)
  OBVIOUS
<1>6. PICK a : a = Ascending(ends)
  OBVIOUS
<1>7. /\ size \in Nat \ {0}
      /\ Sorted(a, ends) /\ DOMAIN a = 1 .. size
  BY <1>4, <1>5, <1>6, AscendingSorts, FS_CardinalityType, FS_EmptySet
<1>8. /\ DOMAIN parts = 1 .. size
      /\ \A p \in 1 .. size :
           parts[p] = [at |-> IF p = 1 THEN 0 ELSE a[p - 1], hi |-> a[p],
                       map |-> Index!EmptyShards]
  <2>1. \A p \in 1 .. size : a[p] = Nth(ends, p)
    BY <1>5, <1>6 DEF Ascending, Nth
  <2>2. PICK cut : cut = Index!Cut(0, NumNodes, cuts)
    OBVIOUS
  <2>3. cut = [p \in 1 .. size |->
                 [at |-> IF p = 1 THEN 0 ELSE Nth(ends, p - 1), hi |-> Nth(ends, p)]]
    BY <1>3, <1>5, <2>2, CutAt
  <2>4. /\ DOMAIN cut = 1 .. size
        /\ \A p \in 1 .. size : cut[p].hi = a[p] /\ cut[p].at = IF p = 1 THEN 0 ELSE a[p - 1]
    <3> SUFFICES ASSUME NEW p \in 1 .. size
                 PROVE  cut[p].hi = a[p] /\ cut[p].at = IF p = 1 THEN 0 ELSE a[p - 1]
      BY <2>3
    <3>1. p # 1 => p - 1 \in 1 .. size
      BY <1>7
    <3>2. QED
      BY <2>1, <2>3, <3>1
  <2>5. parts = [p \in DOMAIN cut |->
                   [at |-> cut[p].at, hi |-> cut[p].hi, map |-> Index!EmptyShards]]
    BY <1>2, <2>2 DEF Index!Pieces
  <2>6. QED
    BY <2>4, <2>5
<1>9. \A p \in 1 .. size : a[p] \in ends /\ a[p] \in Nat /\ a[p] <= NumNodes
  <2>1. \A p \in 1 .. size : a[p] \in ends
    BY <1>7 DEF Sorted
  <2>2. QED
    BY <1>4, <2>1
<1>10. \A p \in 1 .. size : parts[p].at = Start(p) /\ parts[p].at <= parts[p].hi
                           /\ parts[p].at \in 0 .. NumNodes
  <2> SUFFICES ASSUME NEW p \in 1 .. size
               PROVE  parts[p].at = Start(p) /\ parts[p].at <= parts[p].hi
                      /\ parts[p].at \in 0 .. NumNodes
    OBVIOUS
  <2>1. CASE p = 1
    BY <1>1, <1>8, <1>9, <2>1 DEF Start
  <2>2. CASE p # 1
    <3>1. p - 1 \in 1 .. size /\ p - 1 < p
      BY <1>7, <2>2
    <3>2. parts[p].at = a[p - 1] /\ parts[p].hi = a[p] /\ parts[p - 1].hi = a[p - 1]
      BY <1>8, <2>2, <3>1
    <3>3. a[p - 1] < a[p]
      BY <1>7, <3>1 DEF Sorted
    <3>4. QED
      BY <1>1, <1>9, <2>2, <3>1, <3>2, <3>3 DEF Start
  <2>3. QED
    BY <2>1, <2>2
<1>11. parts \in Seq(Piece) /\ Len(parts) = size
  <2>1. \A p \in 1 .. size : parts[p] \in Piece
    <3> SUFFICES ASSUME NEW p \in 1 .. size PROVE parts[p] \in Piece
      OBVIOUS
    <3>1. Index!EmptyShards \in Maps
      BY EmptyHolds
    <3>2. parts[p] = [at |-> parts[p].at, hi |-> parts[p].hi, map |-> Index!EmptyShards]
      BY <1>8
    <3>3. parts[p].at \in 0 .. NumNodes /\ parts[p].hi \in 0 .. NumNodes
      BY <1>1, <1>8, <1>9, <1>10
    <3>4. QED
      BY <3>1, <3>2, <3>3 DEF Piece
  <2>2. parts = [p \in 1 .. size |-> parts[p]]
    BY <1>2, <1>8 DEF Index!Pieces
  <2>3. parts \in [1 .. size -> Piece]
    BY <2>1, <2>2
  <2>4. QED
    BY <1>7, <2>3
<1>12. a[size] = NumNodes
  <2>1. PICK p \in 1 .. size : a[p] = NumNodes
    BY <1>4, <1>7 DEF Sorted
  <2>2. ~(p < size)
    <3>1. p < size => a[p] < a[size]
      BY <1>7 DEF Sorted
    <3>2. QED
      BY <1>1, <1>7, <1>9, <2>1, <3>1
  <2>3. QED
    BY <1>7, <2>1, <2>2
<1>13. parts[Len(parts)].hi = NumNodes /\ Len(parts) # 0
  BY <1>7, <1>8, <1>11, <1>12
<1>14. ASSUME NEW p \in DOMAIN parts
       PROVE  /\ Start(p) <= parts[p].at /\ parts[p].at <= parts[p].hi
              /\ Holds(parts[p].map, Start(p), parts[p].at)
  <2>1. Start(p) = parts[p].at /\ Start(p) \in Nat /\ parts[p].at <= parts[p].hi
    BY <1>1, <1>8, <1>10
  <2>2. Holds(Index!EmptyShards, Start(p), Start(p))
    BY <2>1, EmptyHolds
  <2>3. parts[p].map = Index!EmptyShards
    BY <1>8
  <2>4. QED
    BY <2>1, <2>2, <2>3
<1>15. QED
  BY <1>11, <1>13, <1>14 DEF IndexInv

\* A piece as the invariant sees it.
LEMMA PieceHolds ==
  ASSUME IndexInv, NEW p \in DOMAIN parts
  PROVE  /\ parts[p].at \in Nat /\ parts[p].hi \in Nat /\ parts[p].map \in Maps
         /\ parts[p].at <= parts[p].hi /\ parts[p].hi <= NumNodes
         /\ Start(p) \in Nat /\ Start(p) <= parts[p].at
         /\ Holds(parts[p].map, Start(p), parts[p].at)
<1>1. NumNodes \in Nat
  BY GraphAssumption
<1>2. parts \in Seq(Piece)
  BY DEF IndexInv
<1>3. p \in 1 .. Len(parts) /\ parts[p] \in Piece
  BY <1>2
<1>4. Start(p) \in Nat
  <2>1. CASE p = 1
    BY <2>1 DEF Start
  <2>2. CASE p # 1
    <3>1. p - 1 \in 1 .. Len(parts)
      BY <1>2, <1>3, <2>2
    <3>2. parts[p - 1] \in Piece
      BY <1>2, <3>1
    <3>3. QED
      BY <1>1, <2>2, <3>2 DEF Start, Piece
  <2>3. QED
    BY <2>1, <2>2
<1>5. parts[p].at \in Nat /\ parts[p].hi \in Nat /\ parts[p].hi <= NumNodes
      /\ parts[p].map \in Maps
  BY <1>1, <1>3 DEF Piece
<1>6. QED
  BY <1>4, <1>5 DEF IndexInv

LEMMA FoldKeepsIndex ==
  ASSUME IndexInv, NEW p \in DOMAIN parts, Index!Fold(p)
  PROVE  IndexInv'
<1>1. NumNodes \in Nat
  BY GraphAssumption
<1>2. parts \in Seq(Piece) /\ p \in 1 .. Len(parts) /\ DOMAIN parts = 1 .. Len(parts)
  BY DEF IndexInv
<1>3. PICK at : at = parts[p].at
  OBVIOUS
<1>4. at \in Nat /\ at < parts[p].hi /\ at \in Node
  BY <1>1, <1>3, PieceHolds DEF Index!Fold, Index!Unfinished, Node
<1>5. PICK map : map = IF NodeType[at] = "revision"
                         THEN Index!Push(parts[p].map, at) ELSE parts[p].map
  OBVIOUS
<1>6. map \in Maps /\ Holds(map, Start(p), at + 1)
  <2>1. CASE at \in Revision
    <3>1. map = Index!Push(parts[p].map, at)
      BY <1>5, <2>1 DEF Revision
    <3>2. QED
      BY <1>3, <2>1, <3>1, PieceHolds, PushHolds
  <2>2. CASE at \notin Revision
    <3>1. map = parts[p].map
      BY <1>4, <1>5, <2>2 DEF Revision
    <3>2. QED
      BY <1>3, <1>4, <2>2, <3>1, PieceHolds, SkipHolds
  <2>3. QED
    BY <2>1, <2>2
<1>7. PICK one : one = [at |-> at + 1, hi |-> parts[p].hi, map |-> map]
  OBVIOUS
<1>8. parts[p] \in Piece
  BY <1>2
<1>9. one \in Piece
  <2>1. at + 1 \in 0 .. NumNodes
    BY <1>1, <1>4, PieceHolds
  <2>2. QED
    BY <1>6, <1>7, <1>8, <2>1 DEF Piece
<1>10. parts' = [parts EXCEPT ![p] = one]
  <2>1. parts' = [parts EXCEPT ![p].at = at + 1, ![p].map = map]
    BY <1>3, <1>5 DEF Index!Fold
  <2>2. one = [parts[p] EXCEPT !.at = at + 1, !.map = map]
    <3>1. PICK o : o = parts[p]
      OBVIOUS
    <3>2. o \in [at : 0 .. NumNodes, hi : 0 .. NumNodes, map : Maps]
      BY <1>8, <3>1 DEF Piece
    <3>3. PICK moved : moved = [o EXCEPT !.at = at + 1]
      OBVIOUS
    <3>4. moved = [at |-> at + 1, hi |-> o.hi, map |-> o.map]
      BY <3>2, <3>3
    <3>5. [moved EXCEPT !.map = map] = [at |-> at + 1, hi |-> o.hi, map |-> map]
      BY <3>4
    <3>6. QED
      BY <1>7, <3>1, <3>3, <3>5
  <2>3. QED
    BY <1>2, <2>1, <2>2
<1>11. parts' \in Seq(Piece) /\ Len(parts') = Len(parts)
  BY <1>2, <1>9, <1>10, ExceptSeq
<1>12. /\ parts'[p] = one
       /\ \A q \in 1 .. Len(parts) : q # p => parts'[q] = parts[q]
       /\ \A q \in 1 .. Len(parts) : parts'[q].hi = parts[q].hi
  BY <1>2, <1>7, <1>10
<1>13. ASSUME NEW q \in 1 .. Len(parts)
       PROVE  Start(q)' = Start(q)
  <2>1. CASE q = 1
    BY <2>1 DEF Start
  <2>2. CASE q # 1
    <3>1. q - 1 \in 1 .. Len(parts)
      BY <1>2, <2>2
    <3>2. QED
      BY <1>12, <2>2, <3>1 DEF Start
  <2>3. QED
    BY <2>1, <2>2
<1>14. Len(parts') # 0 /\ parts'[Len(parts')].hi = NumNodes
  BY <1>2, <1>11, <1>12 DEF IndexInv
<1>15. ASSUME NEW q \in 1 .. Len(parts)
       PROVE  /\ Start(q)' <= parts'[q].at /\ parts'[q].at <= parts'[q].hi
              /\ Holds(parts'[q].map, Start(q)', parts'[q].at)
  <2>1. CASE q = p
    <3>1. parts'[q].at = at + 1 /\ parts'[q].hi = parts[p].hi /\ parts'[q].map = map
      BY <1>7, <1>12, <2>1
    <3>2. Start(p) \in Nat /\ Start(p) <= at /\ parts[p].hi \in Nat
      BY <1>3, PieceHolds
    <3>3. Start(p) <= at + 1 /\ at + 1 <= parts[p].hi
      BY <1>4, <3>2
    <3>4. QED
      BY <1>6, <1>13, <2>1, <3>1, <3>3
  <2>2. CASE q # p
    BY <1>2, <1>12, <1>13, <2>2, PieceHolds
  <2>3. QED
    BY <2>1, <2>2
<1>16. DOMAIN parts' = 1 .. Len(parts)
  BY <1>11
<1>17. QED
  <2>1. \A q \in DOMAIN parts' :
          /\ Start(q)' <= parts'[q].at /\ parts'[q].at <= parts'[q].hi
          /\ Holds(parts'[q].map, Start(q)', parts'[q].at)
    BY <1>15, <1>16
  <2>2. QED
    BY <1>11, <1>14, <2>1 DEF IndexInv, Holds

LEMMA ReduceKeepsIndex ==
  ASSUME IndexInv, NEW p \in DOMAIN parts, Index!Reduce(p)
  PROVE  IndexInv'
<1>1. /\ parts \in Seq(Piece) /\ DOMAIN parts = 1 .. Len(parts) /\ Len(parts) \in Nat
      /\ p \in Nat /\ p >= 1 /\ p < Len(parts)
      /\ p \in 1 .. Len(parts) /\ p + 1 \in 1 .. Len(parts)
  BY DEF IndexInv, Index!Reduce
<1>2. PICK l, r : l = parts[p] /\ r = parts[p + 1]
  OBVIOUS
<1>3. PICK map : map = Index!Merge(l.map, r.map)
  OBVIOUS
<1>4. PICK one : one = [at |-> r.at, hi |-> r.hi, map |-> map]
  OBVIOUS
<1>5. PICK len : len = Len(parts) - 1
  OBVIOUS
<1>6. parts' = [q \in 1 .. len |->
                  IF q < p THEN parts[q] ELSE IF q > p THEN parts[q + 1] ELSE one]
  <2>1. r \in Piece
    BY <1>1, <1>2
  <2>2. [r EXCEPT !.map = map] = one
    BY <1>4, <2>1 DEF Piece
  <2>3. parts' = Index!Joined(parts, p, one)
    BY <1>2, <1>3, <2>2 DEF Index!Reduce
  <2>4. Index!Cardinality(DOMAIN parts) = Len(parts)
    <3>1. Index!Cardinality(DOMAIN parts) = Cardinality(DOMAIN parts)
      BY DEF Index!Cardinality, Cardinality
    <3>2. Cardinality(1 .. Len(parts)) = Len(parts)
      <4>1. \A n \in Nat : n >= 1 => Cardinality(1 .. n) = n
        BY FS_Interval
      <4>2. QED
        BY <1>1, <4>1
    <3>3. QED
      BY <1>1, <3>1, <3>2
  <2>5. QED
    BY <1>5, <2>3, <2>4 DEF Index!Joined
<1>7. l.at = l.hi /\ r.at = r.hi
  <2>1. ~(l.at < l.hi) /\ ~(r.at < r.hi)
    BY <1>2 DEF Index!Reduce, Index!Unfinished
  <2>2. l.at \in Nat /\ l.hi \in Nat /\ l.at <= l.hi
        /\ r.at \in Nat /\ r.hi \in Nat /\ r.at <= r.hi
    BY <1>1, <1>2, PieceHolds
  <2>3. QED
    BY <2>1, <2>2
<1>8. Start(p + 1) = l.hi
  BY <1>1, <1>2 DEF Start
<1>9. map \in Maps /\ Holds(map, Start(p), r.at)
  <2>1. /\ l.map \in Maps /\ Start(p) \in Nat /\ l.at \in Nat /\ Start(p) <= l.at
        /\ Holds(l.map, Start(p), l.at)
    BY <1>1, <1>2, PieceHolds
  <2>2. /\ r.map \in Maps /\ r.at \in Nat /\ l.at <= r.at
        /\ Holds(r.map, l.at, r.at)
    BY <1>1, <1>2, <1>7, <1>8, PieceHolds
  <2>3. QED
    BY <1>3, <2>1, <2>2, MergeHolds
<1>10. one \in Piece
  <2>1. r \in Piece
    BY <1>1, <1>2
  <2>2. QED
    BY <1>4, <1>9, <2>1 DEF Piece
<1>11. len \in Nat /\ len # 0 /\ p \in 1 .. len
  BY <1>1, <1>5
<1>12. \A q \in 1 .. len :
         /\ q < p => parts'[q] = parts[q] /\ q \in 1 .. Len(parts)
         /\ q = p => parts'[q] = one
         /\ q > p => parts'[q] = parts[q + 1] /\ q + 1 \in 1 .. Len(parts)
  BY <1>1, <1>5, <1>6
<1>13. parts' \in Seq(Piece) /\ Len(parts') = len /\ DOMAIN parts' = 1 .. len
  <2>1. \A q \in 1 .. len : parts'[q] \in Piece
    <3> SUFFICES ASSUME NEW q \in 1 .. len PROVE parts'[q] \in Piece
      OBVIOUS
    <3>1. q < p \/ q = p \/ q > p
      BY <1>1
    <3>2. QED
      BY <1>1, <1>10, <1>12, <3>1
  <2>2. parts' \in [1 .. len -> Piece]
    BY <1>6, <2>1
  <2>3. QED
    BY <1>11, <2>2
<1>14. parts'[len].hi = NumNodes
  <2>1. parts[Len(parts)].hi = NumNodes
    BY DEF IndexInv
  <2>2. CASE len = p
    <3>1. parts'[len] = one /\ p + 1 = Len(parts)
      BY <1>1, <1>5, <1>11, <1>12, <2>2
    <3>2. QED
      BY <1>2, <1>4, <2>1, <3>1
  <2>3. CASE len > p
    <3>1. parts'[len] = parts[len + 1] /\ len + 1 = Len(parts)
      BY <1>1, <1>5, <1>11, <1>12, <2>3
    <3>2. QED
      BY <2>1, <3>1
  <2>4. QED
    BY <1>1, <1>11, <2>2, <2>3
<1>15. ASSUME NEW q \in 1 .. len
       PROVE  Start(q)' = IF q <= p THEN Start(q) ELSE Start(q + 1)
  <2>1. CASE q = 1
    BY <1>1, <2>1 DEF Start
  <2>2. CASE q # 1
    <3>1. q - 1 \in 1 .. len /\ Start(q)' = parts'[q - 1].hi
      <4>1. q - 1 \in 1 .. len
        BY <1>11, <2>2
      <4>2. QED
        BY <2>2, <4>1 DEF Start
    <3>2. CASE q <= p
      <4>1. parts'[q - 1] = parts[q - 1]
        BY <1>1, <1>12, <3>1, <3>2
      <4>2. QED
        BY <2>2, <3>1, <3>2, <4>1 DEF Start
    <3>3. CASE q = p + 1
      <4>1. q - 1 = p /\ q # 0
        BY <1>1, <3>3
      <4>2. parts'[q - 1] = one
        BY <1>12, <3>1, <4>1
      <4>3. one.hi = parts[q].hi
        BY <1>2, <1>4, <3>3
      <4>4. Start(q + 1) = parts[q].hi /\ ~(q <= p)
        BY <1>1, <3>3 DEF Start
      <4>5. QED
        BY <3>1, <4>2, <4>3, <4>4
    <3>4. CASE q > p + 1
      <4>1. q - 1 > p /\ (q - 1) + 1 = q /\ ~(q <= p)
        BY <1>1, <3>4
      <4>2. parts'[q - 1] = parts[q]
        BY <1>12, <3>1, <4>1
      <4>3. Start(q + 1) = parts[q].hi
        BY <1>1 DEF Start
      <4>4. QED
        BY <3>1, <4>1, <4>2, <4>3
    <3>5. QED
      BY <1>1, <3>2, <3>3, <3>4
  <2>3. QED
    BY <2>1, <2>2
<1>16. ASSUME NEW q \in 1 .. len
       PROVE  /\ Start(q)' <= parts'[q].at /\ parts'[q].at <= parts'[q].hi
              /\ Holds(parts'[q].map, Start(q)', parts'[q].at)
  <2>1. CASE q < p
    <3>1. parts'[q] = parts[q] /\ q \in DOMAIN parts /\ Start(q)' = Start(q)
      BY <1>1, <1>12, <1>15, <2>1
    <3>2. QED
      BY <3>1, PieceHolds
  <2>2. CASE q = p
    <3>1. parts'[q] = one /\ Start(q)' = Start(p)
      BY <1>1, <1>12, <1>15, <2>2
    <3>2. Start(p) <= r.at
      <4>1. Start(p) \in Nat /\ Start(p) <= l.at /\ l.at \in Nat
        BY <1>1, <1>2, PieceHolds
      <4>2. Start(p + 1) <= r.at /\ r.at \in Nat
        BY <1>1, <1>2, PieceHolds
      <4>3. QED
        BY <1>7, <1>8, <4>1, <4>2
    <3>3. r.at \in Nat
      BY <1>1, <1>2, PieceHolds
    <3>4. one.at <= one.hi /\ one.at = r.at /\ one.map = map
      BY <1>4, <1>7, <3>3
    <3>5. QED
      BY <1>9, <3>1, <3>2, <3>4
  <2>3. CASE q > p
    <3>1. parts'[q] = parts[q + 1] /\ q + 1 \in DOMAIN parts /\ Start(q)' = Start(q + 1)
      BY <1>1, <1>12, <1>15, <2>3
    <3>2. QED
      BY <3>1, PieceHolds
  <2>4. QED
    BY <1>1, <2>1, <2>2, <2>3
<1>17. \A q \in DOMAIN parts' :
         /\ Start(q)' <= parts'[q].at /\ parts'[q].at <= parts'[q].hi
         /\ Holds(parts'[q].map, Start(q)', parts'[q].at)
  BY <1>13, <1>16
<1>18. QED
  BY <1>11, <1>13, <1>14, <1>17 DEF IndexInv, Holds

LEMMA IndexKept == IndexInv /\ Index!Next => IndexInv'
BY FoldKeepsIndex, ReduceKeepsIndex DEF Index!Next

\* The finished index: what it returns for a key.
LEMMA LookupSorted ==
  ASSUME IndexInv, Index!Built, NEW k \in Index!Key
  PROVE  Sorted(Index!Lookup(k), Matching(k))
<1>1. Len(parts) = 1 /\ 1 \in DOMAIN parts /\ parts[1].hi = NumNodes
  BY DEF IndexInv, Index!Built
<1>2. parts[1].at = NumNodes
  <2>1. ~(parts[1].at < parts[1].hi)
    BY DEF Index!Built, Index!Unfinished
  <2>2. parts[1].at \in Nat /\ parts[1].hi \in Nat /\ parts[1].at <= parts[1].hi
    BY <1>1, PieceHolds
  <2>3. QED
    BY <1>1, <2>1, <2>2
<1>3. Start(1) = 0
  BY DEF Start
<1>4. Sorted(parts[1].map[ShardOf[k]][k], Between(k, 0, NumNodes))
  BY <1>1, <1>2, <1>3, PieceHolds DEF Holds
<1>5. Between(k, 0, NumNodes) = Matching(k)
  <2>1. \A r \in Matching(k) : 0 <= r /\ r < NumNodes
    BY GraphAssumption DEF Matching, Revision, Node
  <2>2. QED
    BY <2>1 DEF Between
<1>6. QED
  BY <1>4, <1>5 DEF Index!Lookup

\* The members of an ascending list.
LEMMA SortedMembers ==
  ASSUME NEW s, NEW S \in SUBSET Nat, Sorted(s, S)
  PROVE  /\ {s[j] : j \in DOMAIN s} = S
         /\ \A j \in 2 .. Len(s) : s[j - 1] < s[j]
<1>1. s \in Seq(S) /\ Len(s) \in Nat /\ DOMAIN s = 1 .. Len(s)
  BY DEF Sorted
<1>2. \A j \in DOMAIN s : s[j] \in S
  BY <1>1
<1>3. \A j \in 2 .. Len(s) : j - 1 \in DOMAIN s /\ j \in DOMAIN s /\ j - 1 < j
  BY <1>1
<1>4. QED
  BY <1>2, <1>3 DEF Sorted

LEMMA IndexIsExact == IndexInv => Index!IndexExact
<1> SUFFICES ASSUME IndexInv, Index!Built, NEW k \in Index!Key
             PROVE  /\ {Index!Lookup(k)[j] : j \in DOMAIN Index!Lookup(k)} = Index!Matching(k)
                    /\ \A j \in 2 .. Len(Index!Lookup(k)) :
                         Index!Lookup(k)[j - 1] < Index!Lookup(k)[j]
  BY DEF Index!IndexExact
<1>1. PICK s : s = Index!Lookup(k)
  OBVIOUS
<1>2. Sorted(s, Matching(k))
  BY <1>1, LookupSorted
<1>3. Matching(k) \in SUBSET Nat
  BY NodesNatural DEF Matching
<1>4. {s[j] : j \in DOMAIN s} = Matching(k) /\ \A j \in 2 .. Len(s) : s[j - 1] < s[j]
  BY <1>2, <1>3, SortedMembers
<1>5. QED
  BY <1>1, <1>4, SameHashes

LEMMA IndexTyped == IndexInv => Index!TypeOK
<1> SUFFICES ASSUME IndexInv PROVE Index!TypeOK
  OBVIOUS
<1>1. Piece = [at : 0 .. NumNodes, hi : 0 .. NumNodes,
               map : [Shards -> [Index!Key -> Seq(Index!Revision)]]]
  BY SameHashes DEF Piece, Maps
<1>2. QED
  BY <1>1 DEF Index!TypeOK, IndexInv

-----------------------------------------------------------------------------
(* The order of hashes.                                                      *)

LEMMA Digits ==
  ASSUME NEW r \in Revision, NEW d \in 1 .. HashLen
  PROVE  Hash[r][d] \in Nat
<1>1. Hash[r] \in Seq(HexDigit) /\ Len(Hash[r]) = HashLen
  BY HashAssumption
<1>2. Hash[r][d] \in HexDigit
  BY <1>1
<1>3. QED
  BY <1>2 DEF HexDigit

LEMMA HashIrreflexive ==
  ASSUME NEW r \in Revision
  PROVE  ~HashLess(r, r)
BY Digits DEF HashLess

LEMMA HashTransitive ==
  ASSUME NEW p \in Revision, NEW q \in Revision, NEW r \in Revision,
         HashLess(p, q), HashLess(q, r)
  PROVE  HashLess(p, r)
<1>1. PICK c \in 1 .. HashLen :
        Hash[p][c] < Hash[q][c] /\ \A e \in 1 .. c - 1 : Hash[p][e] = Hash[q][e]
  BY DEF HashLess
<1>2. PICK d \in 1 .. HashLen :
        Hash[q][d] < Hash[r][d] /\ \A e \in 1 .. d - 1 : Hash[q][e] = Hash[r][e]
  BY DEF HashLess
<1>3. HashLen \in Nat /\ c \in Nat /\ d \in Nat
  BY HashAssumption
<1>4. CASE c < d
  <2>1. c \in 1 .. d - 1 /\ \A e \in 1 .. c - 1 : e \in 1 .. d - 1
    BY <1>3, <1>4
  <2>2. Hash[q][c] = Hash[r][c] /\ \A e \in 1 .. c - 1 : Hash[p][e] = Hash[r][e]
    BY <1>1, <1>2, <2>1
  <2>3. Hash[p][c] < Hash[r][c]
    BY <1>1, <2>2
  <2>4. QED
    BY <2>2, <2>3 DEF HashLess
<1>5. CASE d < c
  <2>1. d \in 1 .. c - 1 /\ \A e \in 1 .. d - 1 : e \in 1 .. c - 1
    BY <1>3, <1>5
  <2>2. Hash[p][d] = Hash[q][d] /\ \A e \in 1 .. d - 1 : Hash[p][e] = Hash[r][e]
    BY <1>1, <1>2, <2>1
  <2>3. Hash[p][d] < Hash[r][d]
    BY <1>2, <2>2
  <2>4. QED
    BY <2>2, <2>3 DEF HashLess
<1>6. CASE c = d
  <2>1. Hash[p][c] < Hash[r][c]
    BY <1>1, <1>2, <1>6, Digits
  <2>2. \A e \in 1 .. c - 1 : Hash[p][e] = Hash[r][e]
    BY <1>1, <1>2, <1>6
  <2>3. QED
    BY <2>1, <2>2 DEF HashLess
<1>7. QED
  BY <1>3, <1>4, <1>5, <1>6

\* Two revisions differ in a digit, so one is below the other.
LEMMA HashTotal ==
  ASSUME NEW q \in Revision, NEW r \in Revision, q # r
  PROVE  HashLess(q, r) \/ HashLess(r, q)
<1> DEFINE D == {d \in 1 .. HashLen : Hash[q][d] # Hash[r][d]}
<1>1. HashLen \in Nat
  BY HashAssumption
<1>2. D # {}
  <2> SUFFICES ASSUME \A d \in 1 .. HashLen : Hash[q][d] = Hash[r][d]
               PROVE  FALSE
    OBVIOUS
  <2>1. Hash[q] \in Seq(HexDigit) /\ Hash[r] \in Seq(HexDigit)
        /\ Len(Hash[q]) = HashLen /\ Len(Hash[r]) = HashLen
    BY HashAssumption
  <2>2. Hash[q] = Hash[r]
    BY <2>1, SeqEqual
  <2>3. QED
    BY <2>2, HashAssumption
<1>3. D \in SUBSET Nat
  BY <1>1
<1>4. PICK d \in D : \A e \in D : d <= e
  <2> HIDE DEF D
  <2>1. QED
    BY <1>2, <1>3, LeastOf
<1>5. \A e \in 1 .. d - 1 : Hash[q][e] = Hash[r][e]
  <2> SUFFICES ASSUME NEW e \in 1 .. d - 1, Hash[q][e] # Hash[r][e]
               PROVE  FALSE
    OBVIOUS
  <2>1. e \in 1 .. HashLen /\ ~(d <= e)
    BY <1>1
  <2>2. e \in D
    BY <2>1
  <2>3. QED
    BY <1>4, <2>1, <2>2
<1>6. Hash[q][d] < Hash[r][d] \/ Hash[r][d] < Hash[q][d]
  BY Digits
<1>7. QED
  BY <1>5, <1>6 DEF HashLess

\* Some revision of a pool is above all others.
LEMMA GreatestHash ==
  ASSUME NEW P \in SUBSET Revision, P # {}
  PROVE  \E r \in P : \A q \in P : q = r \/ HashLess(q, r)
<1> DEFINE over(r) == {q \in P : HashLess(r, q)}
           Sizes == {Cardinality(over(r)) : r \in P}
<1>1. IsFiniteSet(P)
  BY NodesNatural, FS_Subset
<1>2. \A r \in P : IsFiniteSet(over(r)) /\ Cardinality(over(r)) \in Nat
  <2> SUFFICES ASSUME NEW r \in P
               PROVE  IsFiniteSet(over(r)) /\ Cardinality(over(r)) \in Nat
    OBVIOUS
  <2>1. over(r) \in SUBSET P
    OBVIOUS
  <2> HIDE DEF over
  <2>2. QED
    BY <1>1, <2>1, FS_Subset, FS_CardinalityType
<1>3. Sizes \in SUBSET Nat /\ Sizes # {}
  BY <1>2
<1>4. PICK m \in Sizes : \A k \in Sizes : m <= k
  <2> HIDE DEF Sizes
  <2>1. QED
    BY <1>3, LeastOf
<1>5. PICK r \in P : m = Cardinality(over(r))
  OBVIOUS
<1>6. ASSUME NEW q \in P, HashLess(r, q)
      PROVE  FALSE
  <2>1. over(q) \in SUBSET over(r)
    <3> SUFFICES ASSUME NEW o \in P, HashLess(q, o) PROVE HashLess(r, o)
      OBVIOUS
    <3>1. r \in Revision /\ q \in Revision /\ o \in Revision
      OBVIOUS
    <3>2. QED
      BY <1>6, <3>1, HashTransitive
  <2>2. q \in over(r) /\ q \notin over(q)
    BY <1>6, HashIrreflexive
  <2>3. m <= Cardinality(over(q))
    BY <1>4
  <2> HIDE DEF over, Sizes
  <2>4. Cardinality(over(q)) <= Cardinality(over(r)) /\ over(q) # over(r)
        /\ (Cardinality(over(r)) = Cardinality(over(q)) => over(r) = over(q))
    BY <1>2, <2>1, <2>2, FS_Subset
  <2>5. Cardinality(over(q)) < m
    BY <1>2, <1>5, <2>4
  <2>6. QED
    BY <1>2, <1>5, <2>3, <2>5
<1>7. \A q \in P : q = r \/ HashLess(q, r)
  BY <1>6, HashTotal
<1>8. QED
  BY <1>7

-----------------------------------------------------------------------------
(* The nodes above a node.                                                   *)

LEMMA PredNodes == \A n \in Node : Pred[n] \in SUBSET Node
BY DEF Pred

LEMMA AboveIs ==
  ASSUME NEW r \in Node
  PROVE  /\ r \in Above[r] /\ Above[r] \in SUBSET Node
         /\ \A n \in Above[r] : Pred[n] \subseteq Above[r]
         /\ \A S \in ClosedAbove : r \in S => Above[r] \subseteq S
<1>1. Above[r] = {n \in Node : \A S \in ClosedAbove : r \in S => n \in S}
  BY DEF Above
<1>2. ASSUME NEW n \in Above[r], NEW m \in Pred[n]
      PROVE  m \in Above[r]
  <2>1. m \in Node
    BY <1>1, PredNodes
  <2>2. ASSUME NEW S \in ClosedAbove, r \in S
        PROVE  m \in S
    <3>1. n \in S
      BY <1>1, <2>2
    <3>2. QED
      BY <3>1 DEF ClosedAbove
  <2>3. QED
    BY <1>1, <2>1, <2>2
<1>3. QED
  BY <1>1, <1>2

\* What is above r, r apart, is a predecessor of something above r.
LEMMA AboveSteps ==
  ASSUME NEW r \in Node, NEW n \in Above[r], n # r
  PROVE  \E m \in Above[r] : n \in Pred[m]
<1> DEFINE S == {k \in Above[r] : k = r \/ \E m \in Above[r] : k \in Pred[m]}
<1>1. S \in SUBSET Node
  BY AboveIs
<1>2. \A k \in S : Pred[k] \subseteq S
  BY AboveIs
<1>3. S \in ClosedAbove
  <2> HIDE DEF S
  <2>1. QED
    BY <1>1, <1>2 DEF ClosedAbove
<1>4. r \in S
  BY AboveIs
<1>5. n \in S
  <2> HIDE DEF S
  <2>1. QED
    BY <1>3, <1>4, AboveIs
<1>6. QED
  BY <1>5

-----------------------------------------------------------------------------
(* Sequences without repetition.                                             *)

Members(s) == {s[j] : j \in DOMAIN s}
Distinct(s) == \A a, b \in DOMAIN s : a # b => s[a] # s[b]

LEMMA NoMembers == Members(<<>>) = {} /\ Distinct(<<>>)
BY DEF Members, Distinct

LEMMA SortedDistinct ==
  ASSUME NEW s, NEW S \in SUBSET Nat, Sorted(s, S)
  PROVE  s \in Seq(S) /\ Members(s) = S /\ Distinct(s)
<1>1. s \in Seq(S) /\ DOMAIN s = 1 .. Len(s) /\ Len(s) \in Nat
  BY DEF Sorted
<1>2. Members(s) = S
  BY SortedMembers DEF Members
<1>3. ASSUME NEW a \in DOMAIN s, NEW b \in DOMAIN s, a < b
      PROVE  s[a] # s[b]
  <2>1. s[a] < s[b]
    BY <1>3 DEF Sorted
  <2>2. s[a] \in S
    BY <1>1
  <2>3. s[a] \in Nat
    BY <2>2
  <2>4. QED
    BY <2>1, <2>3
<1>4. \A a, b \in DOMAIN s : a # b => a < b \/ b < a
  BY <1>1
<1>5. QED
  BY <1>1, <1>2, <1>3, <1>4 DEF Distinct

LEMMA TailDistinct ==
  ASSUME NEW S, NEW s \in Seq(S), s # <<>>, Distinct(s)
  PROVE  /\ Tail(s) \in Seq(S) /\ Head(s) \in S
         /\ Distinct(Tail(s)) /\ Head(s) \in Members(s)
         /\ Members(Tail(s)) = Members(s) \ {Head(s)}
<1>1. /\ Head(s) \in S /\ Tail(s) \in Seq(S) /\ Len(Tail(s)) = Len(s) - 1
      /\ \A i \in 1 .. Len(Tail(s)) : Tail(s)[i] = s[i + 1]
      /\ Len(s) \in Nat /\ Len(s) # 0 /\ Head(s) = s[1]
  BY HeadTailProperties, EmptySeq
<1>2. DOMAIN s = 1 .. Len(s) /\ DOMAIN Tail(s) = 1 .. Len(s) - 1
  BY <1>1
<1>3. PICK t : t = Tail(s)
  OBVIOUS
<1>4. DOMAIN t = 1 .. Len(s) - 1 /\ \A i \in 1 .. Len(s) - 1 : t[i] = s[i + 1]
  BY <1>1, <1>2, <1>3
<1>5. \A i \in 1 .. Len(s) - 1 : i + 1 \in 1 .. Len(s) /\ i + 1 # 1
  BY <1>1
<1>6. 1 \in DOMAIN s
  BY <1>1, <1>2
<1>7. Distinct(t)
  <2> SUFFICES ASSUME NEW a \in DOMAIN t, NEW b \in DOMAIN t, a # b
               PROVE  t[a] # t[b]
    BY DEF Distinct
  <2>1. a + 1 # b + 1
    BY <1>1, <1>4
  <2>2. QED
    BY <1>2, <1>4, <1>5, <2>1 DEF Distinct
<1>8. ASSUME NEW x \in Members(s), x # s[1]
      PROVE  x \in Members(t)
  <2>1. PICK j \in DOMAIN s : x = s[j]
    BY DEF Members
  <2>2. j - 1 \in 1 .. Len(s) - 1 /\ (j - 1) + 1 = j
    BY <1>1, <1>2, <1>8, <2>1
  <2>3. t[j - 1] = x
    BY <1>4, <2>1, <2>2
  <2>4. QED
    BY <1>4, <2>2, <2>3 DEF Members
<1>9. ASSUME NEW x \in Members(t)
      PROVE  x \in Members(s) /\ x # s[1]
  <2>1. PICK i \in DOMAIN t : x = t[i]
    BY DEF Members
  <2>2. x = s[i + 1] /\ i + 1 \in DOMAIN s /\ i + 1 # 1
    BY <1>2, <1>4, <1>5, <2>1
  <2>3. QED
    BY <1>6, <2>2 DEF Members, Distinct
<1>10. Members(t) = Members(s) \ {s[1]}
  BY <1>8, <1>9
<1>11. s[1] \in Members(s)
  BY <1>6 DEF Members
<1>12. QED
  BY <1>1, <1>3, <1>7, <1>10, <1>11

LEMMA ConcatDistinct ==
  ASSUME NEW S, NEW s \in Seq(S), NEW t \in Seq(S), Distinct(s), Distinct(t),
         Members(s) \cap Members(t) = {}
  PROVE  /\ s \o t \in Seq(S) /\ Distinct(s \o t)
         /\ Members(s \o t) = Members(s) \cup Members(t)
<1>1. /\ Len(s) \in Nat /\ DOMAIN s = 1 .. Len(s)
      /\ Len(t) \in Nat /\ DOMAIN t = 1 .. Len(t)
  OBVIOUS
<1>2. PICK c : c = s \o t
  OBVIOUS
<1>3. /\ c \in Seq(S) /\ Len(c) = Len(s) + Len(t)
      /\ \A p \in 1 .. Len(s) + Len(t) :
           c[p] = IF p <= Len(s) THEN s[p] ELSE t[p - Len(s)]
  BY <1>2, ConcatProperties
<1>4. DOMAIN c = 1 .. Len(s) + Len(t)
  BY <1>3
<1>5. \A p \in DOMAIN s : p \in DOMAIN c /\ c[p] = s[p]
  <2>1. \A p \in 1 .. Len(s) : p \in 1 .. Len(s) + Len(t) /\ p <= Len(s)
    BY <1>1
  <2>2. QED
    BY <1>1, <1>3, <1>4, <2>1
<1>6. \A p \in DOMAIN t : p + Len(s) \in DOMAIN c /\ c[p + Len(s)] = t[p]
  <2>1. \A p \in 1 .. Len(t) :
          /\ p + Len(s) \in 1 .. Len(s) + Len(t) /\ ~(p + Len(s) <= Len(s))
          /\ (p + Len(s)) - Len(s) = p
    BY <1>1
  <2>2. QED
    BY <1>1, <1>3, <1>4, <2>1
<1>7. \A p \in DOMAIN c :
        \/ p \in DOMAIN s /\ c[p] = s[p]
        \/ p - Len(s) \in DOMAIN t /\ c[p] = t[p - Len(s)]
  <2>1. \A p \in 1 .. Len(s) + Len(t) :
          (p <= Len(s) => p \in 1 .. Len(s)) /\ (~(p <= Len(s)) => p - Len(s) \in 1 .. Len(t))
    BY <1>1
  <2>2. QED
    BY <1>1, <1>3, <1>4, <2>1
<1>8. Members(c) = Members(s) \cup Members(t)
  <2>1. ASSUME NEW p \in DOMAIN c
        PROVE  c[p] \in Members(s) \cup Members(t)
    BY <1>7 DEF Members
  <2>2. ASSUME NEW p \in DOMAIN s
        PROVE  s[p] \in Members(c)
    BY <1>5 DEF Members
  <2>3. ASSUME NEW p \in DOMAIN t
        PROVE  t[p] \in Members(c)
    BY <1>6 DEF Members
  <2>4. QED
    BY <2>1, <2>2, <2>3 DEF Members
<1>9. Distinct(c)
  <2> SUFFICES ASSUME NEW a \in DOMAIN c, NEW b \in DOMAIN c, a # b, c[a] = c[b]
               PROVE  FALSE
    BY DEF Distinct
  <2>1. CASE a \in DOMAIN s /\ c[a] = s[a] /\ b \in DOMAIN s /\ c[b] = s[b]
    BY <2>1 DEF Distinct
  <2>2. CASE /\ a - Len(s) \in DOMAIN t /\ c[a] = t[a - Len(s)]
             /\ b - Len(s) \in DOMAIN t /\ c[b] = t[b - Len(s)]
    <3>1. a - Len(s) # b - Len(s)
      BY <1>1, <1>4
    <3>2. QED
      BY <2>2, <3>1 DEF Distinct
  <2>3. CASE /\ a \in DOMAIN s /\ c[a] = s[a]
             /\ b - Len(s) \in DOMAIN t /\ c[b] = t[b - Len(s)]
    BY <2>3 DEF Members
  <2>4. CASE /\ a - Len(s) \in DOMAIN t /\ c[a] = t[a - Len(s)]
             /\ b \in DOMAIN s /\ c[b] = s[b]
    BY <2>4 DEF Members
  <2>5. QED
    BY <1>7, <2>1, <2>2, <2>3, <2>4
<1>10. QED
  BY <1>2, <1>3, <1>8, <1>9

-----------------------------------------------------------------------------
(* The candidates of a group.                                                *)

Agreeing(g) == {r \in Revision : Agrees(r, g[2])}

Passing(g) == {r \in Agreeing(g) : HasProvenance(g, r)}

IndexState == IF FullHash THEN parts = <<>> ELSE IndexInv

\* Once the index is ready, the lookup finds just the revisions that agree
\* with the commit_id.
LEMMA CandidatesAgree ==
  ASSUME IndexState, IndexReady, NEW g
  PROVE  Candidates(g) = Agreeing(g)
<1>1. CASE FullHash
  BY <1>1 DEF Candidates, Agreeing, Agrees
<1>2. CASE ~FullHash
  <2>1. IndexInv /\ Index!Built
    BY <1>2 DEF IndexState, IndexReady
  <2>2. PICK key : key = PrefixKey(g[2])
    OBVIOUS
  <2>3. PICK found : found = Index!Lookup(key)
    OBVIOUS
  <2>4. Agreeing(g) = Matching(key)
    BY <1>2, <2>2 DEF Agreeing, Agrees, Matching, PrefixKey
  <2>5. {found[j] : j \in DOMAIN found} = Matching(key)
    <3>1. CASE key \in Index!Key
      <4>1. Sorted(found, Matching(key))
        BY <2>1, <2>3, <3>1, LookupSorted
      <4>2. Matching(key) \in SUBSET Nat
        BY NodesNatural DEF Matching
      <4>3. QED
        BY <4>1, <4>2, SortedMembers
    <3>2. CASE key \notin Index!Key
      <4>1. found = <<>>
        BY <2>3, <3>2 DEF Index!Lookup
      <4>2. Matching(key) = {}
        BY <3>2, SameHashes DEF Matching
      <4>3. QED
        BY <4>1, <4>2
    <3>3. QED
      BY <3>1, <3>2
  <2>6. Candidates(g) = {found[j] : j \in DOMAIN found}
    BY <1>2, <2>2, <2>3 DEF Candidates
  <2>7. QED
    BY <2>4, <2>5, <2>6
<1>3. QED
  BY <1>1, <1>2

-----------------------------------------------------------------------------
(* B1: the inductive invariant of a group.                                   *)

\* What is left to search from is some of the candidates, each once.
TodoInv(g) ==
  /\ Distinct(todo[g]) /\ Unsearched(g) \in SUBSET Agreeing(g)
  /\ gpc[g] \in {"absent", "origin"} => todo[g] = <<>>

\* The queue holds nodes seen, each once.
QueueInv(g) == Distinct(queue[g]) /\ Members(queue[g]) \in SUBSET seen[g]

\* The search has seen nodes above its candidate only, and of those not queued
\* any more it knows every predecessor, none of them a snapshot of the origin.
SearchInv(g) ==
  gpc[g] = "search" =>
    /\ todo[g] # <<>>
    /\ Head(todo[g]) \in seen[g] /\ seen[g] \in SUBSET Above[Head(todo[g])]
    /\ \A n \in seen[g] \ Members(queue[g]) :
         Pred[n] \in SUBSET seen[g] /\ Proof(g, n) = {}

\* The candidates searched from are told apart by provenance.
PassingInv(g) ==
  /\ gpc[g] \in {"absent", "origin"} => passing[g] = {}
  /\ gpc[g] \in {"filter", "search"} => passing[g] = Passing(g) \ Unsearched(g)

WinnerInv(g) ==
  gpc[g] = "resolved" =>
    /\ passing[g] = Passing(g) /\ HasRoot(winner[g]) /\ winner[g] \in Pool(g)
    /\ \A q \in Pool(g) : q = winner[g] \/ HashLess(q, winner[g])

DroppedInv(g) ==
  gpc[g] = "dropped" =>
    \A r \in Passing(g) : HasRoot(r) =>
      \E q \in Passing(g) : ~HasRoot(q) /\ Better(g, q, r)

GroupInv(g) ==
  /\ TodoInv(g) /\ QueueInv(g) /\ SearchInv(g)
  /\ PassingInv(g) /\ WinnerInv(g) /\ DroppedInv(g)

ControlPoints == {"absent", "origin", "filter", "search", "dropped", "resolved"}

Typed ==
  /\ repo \in [Rows -> Repos] /\ commit \in [Rows -> CommitIds]
  /\ gpc \in [Group -> ControlPoints]
  /\ todo \in [Group -> Seq(Revision)]
  /\ queue \in [Group -> Seq(Node)] /\ seen \in [Group -> SUBSET Node]
  /\ passing \in [Group -> SUBSET Revision]
  /\ winner \in [Group -> Revision \cup {NoNode}]

\* No group is looked at before the index is ready.
NotYet == ~IndexReady => \A g \in Group : gpc[g] \in {"absent", "origin"}

Inv == Typed /\ IndexState /\ NotYet /\ \A g \in Group : GroupInv(g)

LEMMA InitEstablishesInv == Init => Inv
<1> SUFFICES ASSUME Init PROVE Inv
  OBVIOUS
<1>1. Typed
  <2>1. gpc \in [Group -> ControlPoints]
    BY DEF Init, ControlPoints
  <2>2. QED
    BY <2>1, EmptySeq DEF Init, Typed
<1>2. IndexState
  BY IndexStarts DEF Init, IndexState
<1>3. \A g \in Group : gpc[g] \in {"absent", "origin"}
  BY DEF Init
<1>4. ASSUME NEW g \in Group
      PROVE  GroupInv(g)
  <2>1. todo[g] = <<>> /\ queue[g] = <<>> /\ passing[g] = {}
    BY DEF Init
  <2>2. Unsearched(g) = {}
    BY <2>1 DEF Unsearched
  <2>3. TodoInv(g) /\ QueueInv(g)
    BY <2>1, <2>2, NoMembers DEF TodoInv, QueueInv
  <2>4. QED
    BY <1>3, <2>1, <2>3
       DEF GroupInv, SearchInv, PassingInv, WinnerInv, DroppedInv
<1>5. QED
  BY <1>1, <1>2, <1>3, <1>4 DEF Inv, NotYet

LEMMA GroupsAreGroup ==
  ASSUME Typed
  PROVE  Groups \in SUBSET Group
BY DEF Typed, Groups, GroupOf, Group

-----------------------------------------------------------------------------
(* B1: what a step does not change.                                          *)

OthersKept(g) ==
  /\ UNCHANGED inputs
  /\ \A h \in Group \ {g} :
       /\ gpc'[h] = gpc[h] /\ todo'[h] = todo[h] /\ queue'[h] = queue[h]
       /\ seen'[h] = seen[h] /\ passing'[h] = passing[h] /\ winner'[h] = winner[h]

\* The rows say which revisions agree and which have provenance.
LEMMA PassingKept ==
  ASSUME UNCHANGED commit, NEW g
  PROVE  /\ FullHash' = FullHash /\ Agreeing(g)' = Agreeing(g)
         /\ Passing(g)' = Passing(g)
<1>1. FullHash' = FullHash
  BY DEF FullHash
<1>2. Agreeing(g)' = Agreeing(g)
  BY <1>1 DEF Agreeing, Agrees
<1>3. QED
  BY <1>1, <1>2 DEF Passing

LEMMA GroupFrame ==
  ASSUME NEW g, NEW h \in Group \ {g}, OthersKept(g), GroupInv(h)
  PROVE  GroupInv(h)'
<1>1. /\ gpc'[h] = gpc[h] /\ todo'[h] = todo[h] /\ queue'[h] = queue[h]
      /\ seen'[h] = seen[h] /\ passing'[h] = passing[h] /\ winner'[h] = winner[h]
  BY DEF OthersKept
<1>2. Agreeing(h)' = Agreeing(h) /\ Passing(h)' = Passing(h)
  BY PassingKept DEF OthersKept, inputs
<1>3. Unsearched(h)' = Unsearched(h)
  BY <1>1 DEF Unsearched
<1>4. Heads(h)' = Heads(h)
  BY <1>1 DEF Heads
<1>5. Pool(h)' = Pool(h)
  BY <1>1, <1>4 DEF Pool
<1>6. TodoInv(h)'
  BY <1>1, <1>2, <1>3 DEF GroupInv, TodoInv
<1>7. QueueInv(h)'
  BY <1>1 DEF GroupInv, QueueInv
<1>8. SearchInv(h)'
  <2>1. \A n : Proof(h, n)' = Proof(h, n)
    BY DEF Proof
  <2>2. QED
    BY <1>1, <2>1 DEF GroupInv, SearchInv
<1>9. PassingInv(h)'
  BY <1>1, <1>2, <1>3 DEF GroupInv, PassingInv
<1>10. WinnerInv(h)'
  BY <1>1, <1>2, <1>5 DEF GroupInv, WinnerInv
<1>11. DroppedInv(h)'
  BY <1>1, <1>2 DEF GroupInv, DroppedInv
<1>12. QED
  BY <1>6, <1>7, <1>8, <1>9, <1>10, <1>11 DEF GroupInv

\* What each action of a group has to show.
Kept(g) == Typed' /\ OthersKept(g) /\ GroupInv(g)'

-----------------------------------------------------------------------------
(* B1: the steps of a group.                                                 *)

\* A group is dropped once every candidate with provenance has a rootless one
\* beside it.
LEMMA DropKeeps ==
  ASSUME Inv, NEW g \in Group, Drop(g),
         \A r \in Passing(g) : HasRoot(r) =>
           \E q \in Passing(g) : ~HasRoot(q) /\ Better(g, q, r)
  PROVE  Kept(g)
<1>1. Typed /\ GroupInv(g)
  BY DEF Inv
<1>2. gpc' = [gpc EXCEPT ![g] = "dropped"]
      /\ UNCHANGED <<repo, commit, parts, todo, queue, seen, passing, winner>>
  BY DEF Drop, inputs, search
<1>3. gpc'[g] = "dropped" /\ \A h \in Group \ {g} : gpc'[h] = gpc[h]
  BY <1>1, <1>2 DEF Typed
<1>4. Typed'
  <2>1. gpc' \in [Group -> ControlPoints]
    BY <1>1, <1>2 DEF Typed, ControlPoints
  <2>2. QED
    BY <1>1, <1>2, <2>1 DEF Typed
<1>5. OthersKept(g)
  BY <1>2, <1>3 DEF OthersKept, inputs
<1>6. Agreeing(g)' = Agreeing(g) /\ Passing(g)' = Passing(g)
  BY <1>2, PassingKept
<1>7. Unsearched(g)' = Unsearched(g)
  BY <1>2 DEF Unsearched
<1>8. TodoInv(g)' /\ QueueInv(g)'
  BY <1>1, <1>2, <1>3, <1>6, <1>7 DEF GroupInv, TodoInv, QueueInv
<1>9. SearchInv(g)' /\ PassingInv(g)' /\ WinnerInv(g)'
  BY <1>3 DEF SearchInv, PassingInv, WinnerInv
<1>10. DroppedInv(g)'
  BY <1>6 DEF DroppedInv
<1>11. QED
  BY <1>4, <1>5, <1>8, <1>9, <1>10 DEF Kept, GroupInv

LEMMA NoSnapshotKeeps ==
  ASSUME Inv, NEW g \in Group, NoSnapshot(g)
  PROVE  Kept(g)
<1>1. Passing(g) = {}
  BY DEF NoSnapshot, Passing, HasProvenance
<1>2. QED
  BY <1>1, DropKeeps DEF NoSnapshot

LEMMA NoCandidateKeeps ==
  ASSUME Inv, IndexReady, NEW g \in Group, NoCandidate(g)
  PROVE  Kept(g)
<1>1. Agreeing(g) = {}
  BY CandidatesAgree DEF Inv, NoCandidate
<1>2. Passing(g) = {}
  BY <1>1 DEF Passing
<1>3. QED
  BY <1>2, DropKeeps DEF NoCandidate

LEMMA FindCandidatesKeeps ==
  ASSUME Inv, IndexReady, NEW g \in Group, FindCandidates(g)
  PROVE  Kept(g)
<1>1. Typed /\ GroupInv(g) /\ gpc[g] = "origin"
  BY DEF Inv, FindCandidates
<1>2. PICK list : list = Ascending(Agreeing(g))
  OBVIOUS
<1>3. /\ todo' = [todo EXCEPT ![g] = list] /\ gpc' = [gpc EXCEPT ![g] = "filter"]
      /\ UNCHANGED <<repo, commit, parts, queue, seen, passing, winner>>
  <2>1. Candidates(g) = Agreeing(g)
    BY CandidatesAgree DEF Inv
  <2>2. QED
    BY <1>2, <2>1 DEF FindCandidates, inputs, search
<1>4. list \in Seq(Revision) /\ Members(list) = Agreeing(g) /\ Distinct(list)
  <2>1. Agreeing(g) \in SUBSET Nat /\ IsFiniteSet(Agreeing(g))
        /\ Agreeing(g) \in SUBSET Revision
    <3>1. Agreeing(g) \in SUBSET Revision
      BY DEF Agreeing
    <3>2. QED
      BY <3>1, NodesNatural, FS_Subset
  <2>2. Sorted(list, Agreeing(g))
    BY <1>2, <2>1, AscendingSorts
  <2>3. list \in Seq(Agreeing(g)) /\ Members(list) = Agreeing(g) /\ Distinct(list)
    BY <2>1, <2>2, SortedDistinct
  <2>4. QED
    BY <2>1, <2>3
<1>5. /\ gpc'[g] = "filter" /\ todo'[g] = list
      /\ \A h \in Group \ {g} : gpc'[h] = gpc[h] /\ todo'[h] = todo[h]
  BY <1>1, <1>3 DEF Typed
<1>6. Typed'
  <2>1. gpc' \in [Group -> ControlPoints] /\ todo' \in [Group -> Seq(Revision)]
    BY <1>1, <1>3, <1>4 DEF Typed, ControlPoints
  <2>2. QED
    BY <1>1, <1>3, <2>1 DEF Typed
<1>7. OthersKept(g)
  BY <1>3, <1>5 DEF OthersKept, inputs
<1>8. Agreeing(g)' = Agreeing(g) /\ Passing(g)' = Passing(g)
  BY <1>3, PassingKept
<1>9. Unsearched(g)' = Agreeing(g)
  BY <1>4, <1>5 DEF Unsearched, Members
<1>10. TodoInv(g)'
  BY <1>4, <1>5, <1>8, <1>9 DEF TodoInv
<1>11. QueueInv(g)'
  BY <1>1, <1>3 DEF GroupInv, QueueInv
<1>12. PassingInv(g)'
  <2>1. passing'[g] = {}
    BY <1>1, <1>3 DEF GroupInv, PassingInv
  <2>2. Passing(g) \ Agreeing(g) = {}
    BY DEF Passing
  <2>3. QED
    BY <1>5, <1>8, <1>9, <2>1, <2>2 DEF PassingInv
<1>13. SearchInv(g)' /\ WinnerInv(g)' /\ DroppedInv(g)'
  BY <1>5 DEF SearchInv, WinnerInv, DroppedInv
<1>14. QED
  BY <1>6, <1>7, <1>10, <1>11, <1>12, <1>13 DEF Kept, GroupInv

LEMMA StartSearchKeeps ==
  ASSUME Inv, NEW g \in Group, StartSearch(g)
  PROVE  Kept(g)
<1>1. Typed /\ GroupInv(g) /\ gpc[g] = "filter" /\ todo[g] # <<>>
  BY DEF Inv, StartSearch
<1>2. PICK r : r = Head(todo[g])
  OBVIOUS
<1>3. r \in Revision /\ r \in Node
  <2>1. todo[g] \in Seq(Revision)
    BY <1>1 DEF Typed
  <2>2. QED
    BY <1>1, <1>2, <2>1, HeadTailProperties, NodesNatural
<1>4. /\ queue' = [queue EXCEPT ![g] = <<r>>] /\ seen' = [seen EXCEPT ![g] = {r}]
      /\ gpc' = [gpc EXCEPT ![g] = "search"]
      /\ UNCHANGED <<repo, commit, parts, todo, passing, winner>>
  BY <1>2 DEF StartSearch, inputs
<1>5. /\ gpc'[g] = "search" /\ queue'[g] = <<r>> /\ seen'[g] = {r}
      /\ \A h \in Group \ {g} :
           gpc'[h] = gpc[h] /\ queue'[h] = queue[h] /\ seen'[h] = seen[h]
  BY <1>1, <1>4 DEF Typed
<1>6. Typed'
  <2>1. gpc' \in [Group -> ControlPoints]
    BY <1>1, <1>4 DEF Typed, ControlPoints
  <2>2. queue' \in [Group -> Seq(Node)]
    BY <1>1, <1>3, <1>4 DEF Typed
  <2>3. seen' \in [Group -> SUBSET Node]
    BY <1>1, <1>3, <1>4 DEF Typed
  <2>4. QED
    BY <1>1, <1>4, <2>1, <2>2, <2>3 DEF Typed
<1>7. OthersKept(g)
  BY <1>4, <1>5 DEF OthersKept, inputs
<1>8. Agreeing(g)' = Agreeing(g) /\ Passing(g)' = Passing(g)
  BY <1>4, PassingKept
<1>9. Unsearched(g)' = Unsearched(g)
  BY <1>4 DEF Unsearched
<1>10. TodoInv(g)'
  BY <1>1, <1>4, <1>5, <1>8, <1>9 DEF GroupInv, TodoInv
<1>11. Members(queue'[g]) = {r} /\ Distinct(queue'[g])
  <2>1. \A j \in DOMAIN <<r>> : j = 1
    OBVIOUS
  <2>2. 1 \in DOMAIN <<r>> /\ <<r>>[1] = r
    OBVIOUS
  <2>3. QED
    BY <1>5, <2>1, <2>2 DEF Members, Distinct
<1>12. QueueInv(g)'
  BY <1>5, <1>11 DEF QueueInv
<1>13. SearchInv(g)'
  <2>1. todo'[g] = todo[g] /\ Head(todo'[g]) = r
    BY <1>2, <1>4
  <2>2. r \in Above[r]
    BY <1>3, AboveIs
  <2>3. seen'[g] \ Members(queue'[g]) = {}
    BY <1>5, <1>11
  <2>4. seen'[g] \in SUBSET Above[r] /\ r \in seen'[g]
    BY <1>5, <2>2
  <2>5. QED
    BY <1>1, <2>1, <2>3, <2>4 DEF SearchInv
<1>14. PassingInv(g)'
  BY <1>1, <1>4, <1>5, <1>8, <1>9 DEF GroupInv, PassingInv
<1>15. WinnerInv(g)' /\ DroppedInv(g)'
  BY <1>5 DEF WinnerInv, DroppedInv
<1>16. QED
  BY <1>6, <1>7, <1>10, <1>12, <1>13, <1>14, <1>15 DEF Kept, GroupInv

\* A search ends: its candidate leaves todo, and has passed if it has
\* provenance.
LEMMA EndSearchKeeps ==
  ASSUME Inv, NEW g \in Group, gpc[g] = "search", EndSearch(g),
         NEW P \in SUBSET {Head(todo[g])},
         passing' = [passing EXCEPT ![g] = @ \cup P],
         Head(todo[g]) \in P <=> HasProvenance(g, Head(todo[g]))
  PROVE  Kept(g)
<1>1. Typed /\ GroupInv(g) /\ todo[g] # <<>> /\ todo[g] \in Seq(Revision)
  BY DEF Inv, GroupInv, SearchInv, Typed
<1>2. PICK r : r = Head(todo[g])
  OBVIOUS
<1>3. PICK rest : rest = Tail(todo[g])
  OBVIOUS
<1>4. /\ rest \in Seq(Revision) /\ r \in Revision /\ Distinct(rest)
      /\ r \in Members(todo[g]) /\ Members(rest) = Members(todo[g]) \ {r}
  BY <1>1, <1>2, <1>3, TailDistinct DEF GroupInv, TodoInv
<1>5. /\ todo' = [todo EXCEPT ![g] = rest] /\ gpc' = [gpc EXCEPT ![g] = "filter"]
      /\ UNCHANGED <<repo, commit, parts, queue, seen, winner>>
  BY <1>3 DEF EndSearch, inputs, search
<1>6. /\ todo'[g] = rest /\ gpc'[g] = "filter" /\ passing'[g] = passing[g] \cup P
      /\ \A h \in Group \ {g} :
           gpc'[h] = gpc[h] /\ todo'[h] = todo[h] /\ passing'[h] = passing[h]
  BY <1>1, <1>5 DEF Typed
<1>7. Typed'
  <2>1. gpc' \in [Group -> ControlPoints] /\ todo' \in [Group -> Seq(Revision)]
    BY <1>1, <1>4, <1>5 DEF Typed, ControlPoints
  <2>2. passing' \in [Group -> SUBSET Revision]
    <3>1. P \in SUBSET Revision
      BY <1>2, <1>4
    <3>2. QED
      BY <1>1, <3>1 DEF Typed
  <2>3. QED
    BY <1>1, <1>5, <2>1, <2>2 DEF Typed
<1>8. OthersKept(g)
  BY <1>5, <1>6 DEF OthersKept, inputs
<1>9. Agreeing(g)' = Agreeing(g) /\ Passing(g)' = Passing(g)
  BY <1>5, PassingKept
<1>10. Unsearched(g) = Members(todo[g]) /\ Unsearched(g)' = Unsearched(g) \ {r}
  BY <1>4, <1>6 DEF Unsearched, Members
<1>11. r \in Agreeing(g) /\ r \in Unsearched(g)
  BY <1>1, <1>4, <1>10 DEF GroupInv, TodoInv
<1>12. TodoInv(g)'
  BY <1>1, <1>4, <1>6, <1>9, <1>10 DEF GroupInv, TodoInv
<1>13. QueueInv(g)'
  BY <1>1, <1>5 DEF GroupInv, QueueInv
<1>14. PassingInv(g)'
  <2>1. passing[g] = Passing(g) \ Unsearched(g)
    BY <1>1 DEF GroupInv, PassingInv
  <2>2. r \in P <=> r \in Passing(g)
    BY <1>2, <1>11 DEF Passing
  <2>3. P \in SUBSET {r}
    BY <1>2
  <2>4. passing[g] \cup P = Passing(g) \ (Unsearched(g) \ {r})
    BY <1>11, <2>1, <2>2, <2>3
  <2>5. QED
    BY <1>6, <1>9, <1>10, <2>4 DEF PassingInv
<1>15. SearchInv(g)' /\ WinnerInv(g)' /\ DroppedInv(g)'
  BY <1>6 DEF SearchInv, WinnerInv, DroppedInv
<1>16. QED
  BY <1>7, <1>8, <1>12, <1>13, <1>14, <1>15 DEF Kept, GroupInv

LEMMA FoundKeeps ==
  ASSUME Inv, NEW g \in Group, Found(g)
  PROVE  Kept(g)
<1>1. Typed /\ GroupInv(g) /\ gpc[g] = "search" /\ queue[g] # <<>>
  BY DEF Inv, Found, Searching
<1>2. PICK r : r = Head(todo[g])
  OBVIOUS
<1>3. PICK n : n = Head(queue[g])
  OBVIOUS
<1>4. r \in Node /\ seen[g] \in SUBSET Above[r]
  <2>1. todo[g] \in Seq(Revision) /\ todo[g] # <<>>
    BY <1>1 DEF GroupInv, SearchInv, Typed
  <2>2. r \in Revision
    BY <1>2, <2>1, HeadTailProperties
  <2>3. QED
    BY <1>1, <1>2, <2>2, NodesNatural DEF GroupInv, SearchInv
<1>5. n \in Above[r]
  <2>1. queue[g] \in Seq(Node) /\ Distinct(queue[g]) /\ Members(queue[g]) \in SUBSET seen[g]
    BY <1>1 DEF GroupInv, QueueInv, Typed
  <2>2. n \in Members(queue[g])
    BY <1>1, <1>3, <2>1, TailDistinct
  <2>3. QED
    BY <1>4, <2>1, <2>2
<1>6. HasProvenance(g, r)
  <2>1. PICK s : s \in Pred[n] /\ s \in SnapshotSet(g)
    BY <1>3 DEF Found, Proof
  <2>2. s \in Above[r]
    BY <1>4, <1>5, <2>1, AboveIs
  <2>3. QED
    BY <2>1, <2>2 DEF HasProvenance
<1>7. passing' = [passing EXCEPT ![g] = @ \cup {r}] /\ EndSearch(g)
  BY <1>2 DEF Found
<1>8. {r} \in SUBSET {Head(todo[g])} /\ (Head(todo[g]) \in {r} <=> HasProvenance(g, Head(todo[g])))
  BY <1>2, <1>6
<1>9. QED
  BY <1>1, <1>7, <1>8, EndSearchKeeps

\* Nothing is queued any more, so everything above the candidate is seen.
LEMMA NotFoundKeeps ==
  ASSUME Inv, NEW g \in Group, NotFound(g)
  PROVE  Kept(g)
<1>1. Typed /\ GroupInv(g) /\ gpc[g] = "search" /\ queue[g] = <<>>
  BY DEF Inv, NotFound
<1>2. PICK r : r = Head(todo[g])
  OBVIOUS
<1>3. r \in Revision /\ r \in Node
  <2>1. todo[g] \in Seq(Revision) /\ todo[g] # <<>>
    BY <1>1 DEF GroupInv, SearchInv, Typed
  <2>2. QED
    BY <1>2, <2>1, HeadTailProperties, NodesNatural
<1>4. r \in seen[g] /\ seen[g] \in SUBSET Node
  BY <1>1, <1>2 DEF GroupInv, SearchInv, Typed
<1>5. \A n \in seen[g] : Pred[n] \in SUBSET seen[g] /\ Proof(g, n) = {}
  <2>1. Members(queue[g]) = {}
    BY <1>1, NoMembers
  <2>2. QED
    BY <1>1, <2>1 DEF GroupInv, SearchInv
<1>6. Above[r] \in SUBSET seen[g]
  <2>1. seen[g] \in ClosedAbove
    BY <1>4, <1>5 DEF ClosedAbove
  <2>2. QED
    BY <1>3, <1>4, <2>1, AboveIs
<1>7. ~HasProvenance(g, r)
  <2> SUFFICES ASSUME NEW s \in Above[r], s \in SnapshotSet(g)
               PROVE  FALSE
    BY DEF HasProvenance
  <2>1. NodeType[s] = "snapshot"
    BY DEF SnapshotSet
  <2>2. s # r
    BY <1>3, <2>1 DEF Revision
  <2>3. PICK m \in Above[r] : s \in Pred[m]
    BY <1>3, <2>2, AboveSteps
  <2>4. s \in Proof(g, m)
    BY <2>3 DEF Proof
  <2>5. QED
    BY <1>5, <1>6, <2>3, <2>4
<1>8. passing' = [passing EXCEPT ![g] = @ \cup {}] /\ EndSearch(g)
  BY <1>1 DEF NotFound, Typed
<1>9. {} \in SUBSET {Head(todo[g])} /\ (Head(todo[g]) \in {} <=> HasProvenance(g, Head(todo[g])))
  BY <1>2, <1>7
<1>10. QED
  BY <1>1, <1>8, <1>9, EndSearchKeeps

\* The node taken from the queue is the only one whose predecessors become
\* known, and they are.
LEMMA ExpandKeeps ==
  ASSUME Inv, NEW g \in Group, Expand(g)
  PROVE  Kept(g)
<1>1. /\ Typed /\ GroupInv(g) /\ gpc[g] = "search" /\ queue[g] # <<>>
      /\ queue[g] \in Seq(Node) /\ Distinct(queue[g])
      /\ Members(queue[g]) \in SUBSET seen[g] /\ seen[g] \in SUBSET Node
  BY DEF Inv, Expand, Searching, GroupInv, QueueInv, Typed
<1>2. PICK n : n = Head(queue[g])
  OBVIOUS
<1>3. PICK rest : rest = Tail(queue[g])
  OBVIOUS
<1>4. /\ n \in Node /\ rest \in Seq(Node) /\ Distinct(rest)
      /\ n \in Members(queue[g]) /\ Members(rest) = Members(queue[g]) \ {n}
  BY <1>1, <1>2, <1>3, TailDistinct
<1>5. PICK new : new = Ascending(Unseen(g, n))
  OBVIOUS
<1>6. new \in Seq(Node) /\ Members(new) = Pred[n] \ seen[g] /\ Distinct(new)
  <2>1. Unseen(g, n) \in SUBSET Node /\ Unseen(g, n) = Pred[n] \ seen[g]
    BY <1>4, PredNodes DEF Unseen
  <2>2. Unseen(g, n) \in SUBSET Nat /\ IsFiniteSet(Unseen(g, n))
    BY <2>1, NodesNatural, FS_Subset
  <2>3. Sorted(new, Unseen(g, n))
    BY <1>5, <2>2, AscendingSorts
  <2>4. new \in Seq(Unseen(g, n)) /\ Members(new) = Unseen(g, n) /\ Distinct(new)
    BY <2>2, <2>3, SortedDistinct
  <2>5. QED
    BY <2>1, <2>4
<1>7. PICK all : all = rest \o new
  OBVIOUS
<1>8. all \in Seq(Node) /\ Distinct(all) /\ Members(all) = Members(rest) \cup Members(new)
  <2>1. Members(rest) \cap Members(new) = {}
    BY <1>1, <1>4, <1>6
  <2>2. QED
    BY <1>4, <1>6, <1>7, <2>1, ConcatDistinct
<1>9. /\ queue' = [queue EXCEPT ![g] = all] /\ seen' = [seen EXCEPT ![g] = @ \cup Pred[n]]
      /\ Proof(g, n) = {}
      /\ UNCHANGED <<repo, commit, parts, gpc, todo, passing, winner>>
  BY <1>2, <1>3, <1>5, <1>7 DEF Expand, inputs
<1>10. /\ queue'[g] = all /\ seen'[g] = seen[g] \cup Pred[n]
       /\ \A h \in Group \ {g} : queue'[h] = queue[h] /\ seen'[h] = seen[h]
  BY <1>1, <1>9 DEF Typed
<1>11. Typed'
  <2>1. queue' \in [Group -> Seq(Node)]
    BY <1>1, <1>8, <1>9 DEF Typed
  <2>2. seen' \in [Group -> SUBSET Node]
    BY <1>1, <1>4, <1>9, PredNodes DEF Typed
  <2>3. QED
    BY <1>1, <1>9, <2>1, <2>2 DEF Typed
<1>12. OthersKept(g)
  BY <1>9, <1>10 DEF OthersKept, inputs
<1>13. Agreeing(g)' = Agreeing(g) /\ Passing(g)' = Passing(g)
  BY <1>9, PassingKept
<1>14. Unsearched(g)' = Unsearched(g)
  BY <1>9 DEF Unsearched
<1>15. TodoInv(g)' /\ PassingInv(g)'
  BY <1>1, <1>9, <1>13, <1>14 DEF GroupInv, TodoInv, PassingInv
<1>16. QueueInv(g)'
  <2>1. Members(all) \in SUBSET (seen[g] \cup Pred[n])
    BY <1>1, <1>4, <1>6, <1>8
  <2>2. QED
    BY <1>8, <1>10, <2>1 DEF QueueInv
<1>17. SearchInv(g)'
  <2>1. PICK r : r = Head(todo[g])
    OBVIOUS
  <2>2. todo[g] # <<>> /\ r \in seen[g] /\ seen[g] \in SUBSET Above[r]
    BY <1>1, <2>1 DEF GroupInv, SearchInv
  <2>3. r \in Node
    BY <1>1, <2>2
  <2>4. Pred[n] \in SUBSET Above[r]
    <3>1. n \in Above[r]
      BY <1>1, <1>4, <2>2
    <3>2. QED
      BY <2>3, <3>1, AboveIs
  <2>5. ASSUME NEW m \in seen'[g] \ Members(queue'[g])
        PROVE  Pred[m] \in SUBSET seen'[g] /\ Proof(g, m)' = {}
    <3>1. Proof(g, m)' = Proof(g, m)
      BY DEF Proof
    <3>2. CASE m = n
      BY <1>9, <1>10, <3>1, <3>2
    <3>3. CASE m # n
      <4>1. m \in seen[g] \ Members(queue[g])
        BY <1>4, <1>6, <1>8, <1>10, <2>5, <3>3
      <4>2. Pred[m] \in SUBSET seen[g] /\ Proof(g, m) = {}
        BY <1>1, <4>1 DEF GroupInv, SearchInv
      <4>3. QED
        BY <1>10, <3>1, <4>2
    <3>4. QED
      BY <3>2, <3>3
  <2>6. todo'[g] = todo[g] /\ Head(todo'[g]) = r /\ todo'[g] # <<>>
    BY <1>9, <2>1, <2>2
  <2>7. r \in seen'[g] /\ seen'[g] \in SUBSET Above[r]
    BY <1>10, <2>2, <2>4
  <2>8. QED
    BY <2>5, <2>6, <2>7 DEF SearchInv
<1>18. WinnerInv(g)' /\ DroppedInv(g)'
  BY <1>1, <1>9 DEF WinnerInv, DroppedInv
<1>19. QED
  BY <1>11, <1>12, <1>15, <1>16, <1>17, <1>18 DEF Kept, GroupInv

\* After the last search passing is complete, and its best member exists.
LEMMA BestPassing ==
  ASSUME Inv, NEW g \in Group, AllSearched(g), passing[g] # {}
  PROVE  /\ passing[g] = Passing(g) /\ Best(g) \in Pool(g) /\ Best(g) \in Passing(g)
         /\ \A q \in Pool(g) : q = Best(g) \/ HashLess(q, Best(g))
<1>1. Typed /\ GroupInv(g) /\ gpc[g] = "filter" /\ todo[g] = <<>>
  BY DEF Inv, AllSearched
<1>2. Unsearched(g) = {}
  BY <1>1 DEF Unsearched
<1>3. passing[g] = Passing(g) /\ passing[g] \in SUBSET Revision
  BY <1>1, <1>2 DEF GroupInv, PassingInv, Typed
<1>4. Pool(g) # {} /\ Pool(g) \in SUBSET passing[g]
  BY DEF Pool, Heads
<1>5. Pool(g) \in SUBSET Revision
  BY <1>3, <1>4
<1>6. PICK P : P = Pool(g)
  OBVIOUS
<1>7. \E r \in P : \A q \in P : q = r \/ HashLess(q, r)
  BY <1>4, <1>5, <1>6, GreatestHash
<1>8. Best(g) = CHOOSE r \in P : \A q \in P : q = r \/ HashLess(q, r)
  BY <1>6 DEF Best
<1>9. Best(g) \in P /\ \A q \in P : q = Best(g) \/ HashLess(q, Best(g))
  BY <1>7, <1>8
<1>10. QED
  BY <1>3, <1>4, <1>6, <1>9

\* The best of the pool is better than every other candidate that passes: the
\* pool is all of them, or the heads, which come before the rest.
LEMMA BestOfPool ==
  ASSUME NEW g, NEW w \in Pool(g), \A q \in Pool(g) : q = w \/ HashLess(q, w),
         NEW r \in passing[g], r # w
  PROVE  Better(g, w, r)
<1> DEFINE IsHead(x) == \E s \in SnapshotSet(g) : IsBranchHead(s, x)
<1>1. Heads(g) = {x \in passing[g] : IsHead(x)}
  BY DEF Heads
<1> HIDE DEF IsHead
<1>2. CASE Heads(g) = {}
  <2>1. Pool(g) = passing[g]
    BY <1>2 DEF Pool
  <2>2. ~IsHead(w) /\ ~IsHead(r) /\ HashLess(r, w)
    BY <1>1, <1>2, <2>1
  <2>3. QED
    BY <2>2 DEF Better, IsHead
<1>3. CASE Heads(g) # {}
  <2>1. Pool(g) = Heads(g)
    BY <1>3 DEF Pool
  <2>2. IsHead(w) /\ (IsHead(r) => HashLess(r, w))
    BY <1>1, <2>1
  <2>3. QED
    BY <2>2 DEF Better, IsHead
<1>4. QED
  BY <1>2, <1>3

LEMMA NonePassesKeeps ==
  ASSUME Inv, NEW g \in Group, NonePasses(g)
  PROVE  Kept(g)
<1>1. GroupInv(g) /\ gpc[g] = "filter" /\ todo[g] = <<>> /\ passing[g] = {} /\ Drop(g)
  BY DEF Inv, NonePasses, AllSearched
<1>2. Unsearched(g) = {}
  BY <1>1 DEF Unsearched
<1>3. Passing(g) = {}
  BY <1>1, <1>2 DEF GroupInv, PassingInv
<1>4. QED
  BY <1>1, <1>3, DropKeeps

LEMMA WinnerRootlessKeeps ==
  ASSUME Inv, NEW g \in Group, WinnerRootless(g)
  PROVE  Kept(g)
<1>1. AllSearched(g) /\ passing[g] # {} /\ ~HasRoot(Best(g)) /\ Drop(g)
  BY DEF WinnerRootless
<1>2. PICK w : w = Best(g)
  OBVIOUS
<1>3. /\ passing[g] = Passing(g) /\ w \in Pool(g) /\ w \in Passing(g) /\ ~HasRoot(w)
      /\ \A q \in Pool(g) : q = w \/ HashLess(q, w)
  BY <1>1, <1>2, BestPassing
<1>4. ASSUME NEW r \in Passing(g), HasRoot(r)
      PROVE  ~HasRoot(w) /\ Better(g, w, r)
  <2>1. r \in passing[g] /\ r # w
    BY <1>3, <1>4
  <2>2. QED
    BY <1>3, <2>1, BestOfPool
<1>5. QED
  BY <1>1, <1>3, <1>4, DropKeeps

LEMMA WinKeeps ==
  ASSUME Inv, NEW g \in Group, Win(g)
  PROVE  Kept(g)
<1>1. /\ Typed /\ GroupInv(g) /\ AllSearched(g) /\ passing[g] # {} /\ HasRoot(Best(g))
      /\ gpc[g] = "filter" /\ todo[g] = <<>>
  BY DEF Inv, Win, AllSearched
<1>2. PICK r : r = Best(g)
  OBVIOUS
<1>3. /\ passing[g] = Passing(g) /\ r \in Pool(g) /\ r \in Passing(g)
      /\ \A q \in Pool(g) : q = r \/ HashLess(q, r)
  BY <1>1, <1>2, BestPassing
<1>4. r \in Revision
  BY <1>3 DEF Passing, Agreeing
<1>5. /\ winner' = [winner EXCEPT ![g] = r] /\ gpc' = [gpc EXCEPT ![g] = "resolved"]
      /\ UNCHANGED <<repo, commit, parts, todo, queue, seen, passing>>
  BY <1>2 DEF Win, inputs, search
<1>6. /\ gpc'[g] = "resolved" /\ winner'[g] = r
      /\ \A h \in Group \ {g} : gpc'[h] = gpc[h] /\ winner'[h] = winner[h]
  BY <1>1, <1>5 DEF Typed
<1>7. Typed'
  <2>1. gpc' \in [Group -> ControlPoints] /\ winner' \in [Group -> Revision \cup {NoNode}]
    BY <1>1, <1>4, <1>5 DEF Typed, ControlPoints
  <2>2. QED
    BY <1>1, <1>5, <2>1 DEF Typed
<1>8. OthersKept(g)
  BY <1>5, <1>6 DEF OthersKept, inputs
<1>9. Agreeing(g)' = Agreeing(g) /\ Passing(g)' = Passing(g)
  BY <1>5, PassingKept
<1>10. Unsearched(g)' = Unsearched(g)
  BY <1>5 DEF Unsearched
<1>11. Heads(g)' = Heads(g)
  BY <1>5 DEF Heads
<1>12. Pool(g)' = Pool(g)
  BY <1>5, <1>11 DEF Pool
<1>13. TodoInv(g)' /\ QueueInv(g)'
  BY <1>1, <1>5, <1>6, <1>9, <1>10 DEF GroupInv, TodoInv, QueueInv
<1>14. WinnerInv(g)'
  BY <1>1, <1>2, <1>3, <1>5, <1>6, <1>9, <1>12 DEF WinnerInv
<1>15. SearchInv(g)' /\ PassingInv(g)' /\ DroppedInv(g)'
  BY <1>6 DEF SearchInv, PassingInv, DroppedInv
<1>16. QED
  BY <1>7, <1>8, <1>13, <1>14, <1>15 DEF Kept, GroupInv

LEMMA GroupStepKeeps ==
  ASSUME Inv, IndexReady, NEW g \in Group, ResolveGroup(g)
  PROVE  Inv'
<1>1. Kept(g)
  BY NoSnapshotKeeps, NoCandidateKeeps, FindCandidatesKeeps, StartSearchKeeps, FoundKeeps,
     ExpandKeeps, NotFoundKeeps, NonePassesKeeps, WinnerRootlessKeeps, WinKeeps
     DEF ResolveGroup
<1>2. UNCHANGED <<repo, commit, parts>>
  BY <1>1 DEF Kept, OthersKept, inputs
<1>3. FullHash' = FullHash
  BY <1>2 DEF FullHash
<1>4. IndexInv' = IndexInv
  BY <1>2 DEF IndexInv, Start, Holds
<1>5. IndexState'
  BY <1>2, <1>3, <1>4 DEF Inv, IndexState
<1>6. IndexReady'
  BY <1>2, <1>3 DEF IndexReady, Index!Built, Index!Unfinished
<1>7. \A h \in Group : GroupInv(h)'
  BY <1>1, GroupFrame DEF Inv, Kept
<1>8. QED
  BY <1>1, <1>5, <1>6, <1>7 DEF Inv, Kept, NotYet

\* While the index is built no group has done anything.
LEMMA BuildIndexKeeps ==
  ASSUME Inv, BuildIndex
  PROVE  Inv'
<1>1. ~FullHash /\ IndexInv /\ Index!Next
  BY DEF Inv, IndexState, BuildIndex, IndexReady
<1>2. UNCHANGED <<repo, commit, gpc, todo, queue, seen, passing, winner>>
  BY DEF BuildIndex, search
<1>3. FullHash' = FullHash
  BY <1>2 DEF FullHash
<1>4. IndexInv'
  BY <1>1, IndexKept
<1>5. Typed'
  BY <1>2 DEF Inv, Typed
<1>6. \A g \in Group : gpc[g] \in {"absent", "origin"}
  BY DEF Inv, NotYet, BuildIndex
<1>7. ASSUME NEW g \in Group
      PROVE  GroupInv(g)'
  <2>1. GroupInv(g) /\ gpc'[g] \in {"absent", "origin"}
    BY <1>2, <1>6 DEF Inv
  <2>2. Agreeing(g)' = Agreeing(g)
    BY <1>2, PassingKept
  <2>3. Unsearched(g)' = Unsearched(g)
    BY <1>2 DEF Unsearched
  <2>4. TodoInv(g)' /\ QueueInv(g)'
    BY <1>2, <2>1, <2>2, <2>3 DEF GroupInv, TodoInv, QueueInv
  <2>5. PassingInv(g)'
    BY <1>2, <2>1 DEF GroupInv, PassingInv
  <2>6. SearchInv(g)' /\ WinnerInv(g)' /\ DroppedInv(g)'
    BY <2>1 DEF SearchInv, WinnerInv, DroppedInv
  <2>7. QED
    BY <2>4, <2>5, <2>6 DEF GroupInv
<1>8. NotYet'
  BY <1>2, <1>6 DEF NotYet
<1>9. QED
  BY <1>1, <1>3, <1>4, <1>5, <1>7, <1>8 DEF Inv, IndexState

LEMMA StutterKeeps ==
  ASSUME Inv, UNCHANGED vars
  PROVE  Inv'
<1>1. UNCHANGED <<repo, commit, parts, gpc, todo, queue, seen, passing, winner>>
  BY DEF vars
<1>2. FullHash' = FullHash
  BY <1>1 DEF FullHash
<1>3. IndexInv' = IndexInv
  BY <1>1 DEF IndexInv, Start, Holds
<1>4. IndexState' = IndexState
  BY <1>1, <1>2, <1>3 DEF IndexState
<1>5. NotYet' = NotYet
  BY <1>1, <1>2 DEF NotYet, IndexReady, Index!Built, Index!Unfinished
<1>6. Typed' = Typed
  BY <1>1 DEF Typed
<1>7. ASSUME NEW g \in Group
      PROVE  GroupInv(g)'
  <2>1. OthersKept(<<>>)
    BY <1>1 DEF OthersKept, inputs
  <2>2. g # <<>>
    BY DEF Group
  <2>3. QED
    BY <2>1, <2>2, GroupFrame DEF Inv
<1>8. QED
  BY <1>4, <1>5, <1>6, <1>7 DEF Inv

\* The inductive invariant of B0 and B1.
THEOREM Invariance == Spec => []Inv
<1>1. Init => Inv
  BY InitEstablishesInv
<1>2. Inv /\ [Next]_vars => Inv'
  <2> SUFFICES ASSUME Inv, [Next]_vars PROVE Inv'
    OBVIOUS
  <2>1. CASE BuildIndex
    BY <2>1, BuildIndexKeeps
  <2>2. CASE IndexReady /\ \E g \in Groups : ResolveGroup(g)
    <3>1. Typed
      BY DEF Inv
    <3>2. PICK g \in Group : ResolveGroup(g)
      BY <2>2, <3>1, GroupsAreGroup
    <3>3. QED
      BY <2>2, <3>2, GroupStepKeeps
  <2>3. CASE Written
    BY <2>3, StutterKeeps DEF Written
  <2>4. CASE UNCHANGED vars
    BY <2>4, StutterKeeps
  <2>5. QED
    BY <2>1, <2>2, <2>3, <2>4 DEF Next
<1>3. QED
  BY <1>1, <1>2, PTL DEF Spec

-----------------------------------------------------------------------------
(* The properties.                                                           *)

LEMMA ReadyOnceStarted ==
  ASSUME Inv, NEW g \in Group, gpc[g] \notin {"absent", "origin"}
  PROVE  IndexReady /\ Candidates(g) = Agreeing(g)
<1>1. IndexReady
  BY DEF Inv, NotYet
<1>2. QED
  BY <1>1, CandidatesAgree DEF Inv

\* resolve_candidates keeps index, work lists and search state well-typed, and
\* the search of a candidate never has one node in its queue twice.
THEOREM TypeCorrect == Spec => []TypeOK
<1>1. Inv => TypeOK
  <2> SUFFICES ASSUME Inv PROVE TypeOK
    OBVIOUS
  <2>1. Typed
    BY DEF Inv
  <2>2. IF FullHash THEN parts = <<>> ELSE Index!TypeOK
    BY IndexTyped DEF Inv, IndexState
  <2>3. ASSUME NEW g \in Group
        PROVE  \A a \in DOMAIN queue[g] :
                 /\ queue[g][a] \in seen[g]
                 /\ \A b \in DOMAIN queue[g] : a # b => queue[g][a] # queue[g][b]
    BY DEF Inv, GroupInv, QueueInv, Members, Distinct
  <2>4. QED
    BY <2>1, <2>2, <2>3 DEF TypeOK, Typed, ControlPoints
<1>2. QED
  BY <1>1, Invariance, PTL

\* build_rev_prefix_index: wherever rayon cuts the node range and in whichever
\* order it folds and reduces, a prefix is looked up as all its revisions, once
\* each, in node order.
THEOREM IndexIndependentOfCut == Spec => []IndexExact
<1>1. Inv => IndexExact
  BY IndexIsExact DEF Inv, IndexState, IndexExact
<1>2. QED
  BY <1>1, Invariance, PTL

\* reaches_origin_snapshot: of the candidates searched from, just those pass
\* that a snapshot of the origin reaches, though the search stops early and
\* visits no node twice.
THEOREM SearchIsExact == Spec => []ProvenanceExact
<1>1. Inv => ProvenanceExact
  <2> SUFFICES ASSUME Inv, NEW g \in Groups, gpc[g] \in {"filter", "search"}
               PROVE  passing[g] =
                        {r \in Candidates(g) \ Unsearched(g) : HasProvenance(g, r)}
    BY DEF ProvenanceExact
  <2>1. g \in Group
    BY GroupsAreGroup DEF Inv
  <2>2. Candidates(g) = Agreeing(g)
    BY <2>1, ReadyOnceStarted
  <2>3. passing[g] = Passing(g) \ Unsearched(g)
    BY <2>1 DEF Inv, GroupInv, PassingInv
  <2>4. QED
    BY <2>2, <2>3 DEF Passing
<1>2. QED
  BY <1>1, Invariance, PTL

\* resolve_candidates: the revision written for a group is a candidate with
\* provenance and has a root directory; of all candidates with provenance it is
\* a branch head if one is, and of these the one of greatest hash.
THEOREM WinnerIsBest == Spec => []WinnerBest
<1>1. Inv => WinnerBest
  <2> SUFFICES ASSUME Inv, NEW g \in Groups, gpc[g] = "resolved"
               PROVE  /\ winner[g] \in Candidates(g) /\ HasProvenance(g, winner[g])
                      /\ HasRoot(winner[g])
                      /\ \A r \in Candidates(g) \ {winner[g]} :
                           HasProvenance(g, r) => Better(g, winner[g], r)
    BY DEF WinnerBest
  <2>1. g \in Group
    BY GroupsAreGroup DEF Inv
  <2>2. Candidates(g) = Agreeing(g)
    BY <2>1, ReadyOnceStarted
  <2>3. PICK w : w = winner[g]
    OBVIOUS
  <2>4. /\ passing[g] = Passing(g) /\ HasRoot(w) /\ w \in Pool(g)
        /\ \A q \in Pool(g) : q = w \/ HashLess(q, w)
    BY <2>1, <2>3 DEF Inv, GroupInv, WinnerInv
  <2>5. w \in Candidates(g) /\ HasProvenance(g, w)
    <3>1. w \in Passing(g)
      BY <2>4 DEF Pool, Heads
    <3>2. QED
      BY <2>2, <3>1 DEF Passing
  <2>6. ASSUME NEW r \in Candidates(g), r # w, HasProvenance(g, r)
        PROVE  Better(g, w, r)
    <3>1. r \in passing[g]
      BY <2>2, <2>4, <2>6 DEF Passing
    <3>2. QED
      BY <2>4, <2>6, <3>1, BestOfPool
  <2>7. QED
    BY <2>3, <2>4, <2>5, <2>6
<1>2. QED
  BY <1>1, Invariance, PTL

\* resolve_candidates: the rows of a group are dropped only if each rooted
\* revision that agrees with the commit_id and that a snapshot of the origin
\* reaches is beaten in the tie-break by one without root directory.
THEOREM DropsAreJustified == Spec => []DropsJustified
<1>1. Inv => DropsJustified
  <2> SUFFICES ASSUME Inv, NEW g \in Groups, gpc[g] = "dropped",
                      NEW r \in Revision, Agrees(r, g[2]), HasProvenance(g, r), HasRoot(r)
               PROVE  \E q \in Revision :
                        /\ Agrees(q, g[2]) /\ HasProvenance(g, q) /\ ~HasRoot(q)
                        /\ Better(g, q, r)
    BY DEF DropsJustified
  <2>1. g \in Group
    BY GroupsAreGroup DEF Inv
  <2>2. r \in Passing(g)
    BY DEF Passing, Agreeing
  <2>3. PICK q \in Passing(g) : ~HasRoot(q) /\ Better(g, q, r)
    BY <2>1, <2>2 DEF Inv, GroupInv, DroppedInv
  <2>4. QED
    BY <2>3 DEF Passing, Agreeing
<1>2. QED
  BY <1>1, Invariance, PTL
=============================================================================
