--------------------------- MODULE PipelineProofs ---------------------------
(***************************************************************************)
(* Proofs about names, seeds and the shared core they belong to, for every *)
(* graph, every label list, every candidates file, every batch and chunk   *)
(* size, every way rayon cuts and reduces, every interleaving of threads.  *)
(***************************************************************************)
EXTENDS Pipeline, FiniteSetTheorems, FunctionTheorems, SequenceTheorems, TLAPS

TP == INSTANCE TraverseProofs
        WITH root <- seeds.root, path <- [r \in DOMAIN seeds.root |-> Se!PathOf(r)],
             pc <- tpc

-----------------------------------------------------------------------------
(* The inductive invariant: names.                                           *)

\* Where piece p of a range that starts at lo begins.
Start(s, lo, p) == IF p = 1 THEN lo ELSE s[p - 1].hi

\* The pieces lie side by side and cover the range; each is folded up to `at`.
Pieces(s, lo, hi) ==
  /\ s # <<>> /\ s[Len(s)].hi = hi
  /\ \A p \in DOMAIN s :
       /\ lo <= Start(s, lo, p) /\ Start(s, lo, p) <= s[p].at
       /\ s[p].at <= s[p].hi /\ s[p].hi <= hi

\* The components of the rows after lo, up to hi.
Asked(lo, hi) == UNION {Na!Components(r) : r \in lo + 1 .. hi}

SetPiece == [at : Nat, hi : Nat, set : SUBSET Name]

CollectInv ==
  /\ local \in Seq(SetPiece)
  /\ local # <<>> =>
       /\ npc = "collect" /\ Pieces(local, rows, Na!EndOfBatch)
       /\ \A p \in DOMAIN local :
            local[p].set = Asked(Start(local, rows, p), local[p].at)

\* The map of a set of ids.
MapOf(S) == [n \in {LabelName[f] : f \in S} |-> CHOOSE f \in S : LabelName[f] = n]

\* The wanted ids from chunk c up to the id g.
WantedIn(c, g) == {f \in Na!LabelId : Na!ChunkStart(c) <= f /\ f < g /\ Na!Wanted(f)}

MapPiece ==
  [at : Nat, hi : Nat, id : Nat, map : {MapOf(S) : S \in SUBSET Na!LabelId}]

\* The next id lies in the chunk at hand, or at the end of the piece.
AtId(one) ==
  /\ one.at < one.hi =>
       Na!ChunkStart(one.at) <= one.id /\ one.id < Na!ChunkEnd(one.at)
  /\ one.at = one.hi => one.id = Na!ChunkStart(one.hi)

ScanInv ==
  /\ scan \in Seq(MapPiece) /\ Pieces(scan, 0, Na!NChunks)
  /\ \A p \in DOMAIN scan :
       AtId(scan[p]) /\ scan[p].map = MapOf(WantedIn(Start(scan, 0, p), scan[p].id))
  /\ requested = UNION {WantedIn(Start(scan, 0, p), scan[p].id) : p \in DOMAIN scan}

NamesInv ==
  /\ npc \in {"open", "collect", "scan", "failed"}
  /\ rows \in 0 .. Len(file) /\ (npc = "open" => rows = 0)
  /\ distinct = Asked(0, rows)
  /\ CollectInv
  /\ npc # "scan" => scan = <<>> /\ requested = {}
  /\ npc = "scan" => rows = Len(file) /\ ScanInv

\* The ids of all components of all rows.
AskedIds == {f \in Na!LabelId : LabelName[f] \in Asked(0, Len(file))}

\* What names leaves behind.
NamesLeft ==
  /\ npc = "scan" /\ rows = Len(file)
  /\ local = <<>> /\ distinct = {} /\ scan = <<>>
  /\ component_fid = MapOf(AskedIds) /\ requested = AskedIds

-----------------------------------------------------------------------------
(* The inductive invariant: seeds.                                           *)

FidOrMissing == Na!LabelId \cup {Se!FidMissing}

SeedsRecord ==
  [root : Seq(Se!Root), path_off : Seq(Nat), path_fids : Seq(FidOrMissing),
   bin : Seq(0 .. Se!MaxBin)]

RowRight(r) == Se!RowOut(r, Se!RootOf(Se!Key(r)))

\* The vectors describe the first n rows.
Describes(s, n) ==
  /\ s \in SeedsRecord
  /\ Len(s.root) = n /\ Len(s.bin) = n /\ Len(s.path_off) = n + 1
  /\ s.path_off[n + 1] = Len(s.path_fids)
  /\ \A r \in 1 .. n : s.path_off[r] <= s.path_off[r + 1]
  /\ \A r \in 1 .. n + 1 : s.path_off[r] <= Len(s.path_fids)
  /\ \A r \in 1 .. n :
       [root |-> s.root[r],
        fids |-> SubSeq(s.path_fids, s.path_off[r] + 1, s.path_off[r + 1]),
        bin |-> s.bin[r]] = RowRight(r)

SeedsInv ==
  /\ spc \in {"open", "read", "resolve", "done", "failed"}
  /\ Se!ReadRows \in 0 .. Len(file) /\ Describes(seeds, Se!ReadRows)
  /\ spc = "resolve" =>
       batch = {r \in DOMAIN file : r > Se!ReadRows /\ r <= Se!ReadRows + BatchRows}
  /\ spc # "resolve" => batch = {}
  /\ phase \in [batch -> {"idle", "missed", "filled"}]
  /\ DOMAIN slot = {r \in batch : phase[r] = "filled"}
  /\ \A r \in DOMAIN slot : slot[r] = RowRight(r)
  /\ \A k \in DOMAIN memo : memo[k] = Se!RootOf(k)
  /\ spc = "done" => Se!ReadRows = Len(file)

-----------------------------------------------------------------------------
(* The inductive invariant: from phase to phase.                             *)

InNames == NamesInv /\ component_fid = << >> /\ Se!Init

AfterNames == NamesLeft /\ SeedsInv

StageInv ==
  /\ stage \in {"names", "seeds", "reach", "hydrate", "traverse", "emit", "failed"}
  /\ stage \in {"reach", "hydrate", "traverse", "emit"} => spc = "done"
  /\ stage \in {"hydrate", "traverse", "emit"} =>
       reached = DirsBelow(Tr!DistinctRoots(seeds.root))
  /\ stage \notin {"traverse", "emit"} => leaf = <<>>
  /\ stage \in {"traverse", "emit"} => TP!IInv

IInv ==
  /\ file \in Files /\ StageInv
  /\ IF stage = "names" \/ npc = "failed" THEN InNames ELSE AfterNames
  /\ npc = "failed" => stage \in {"names", "failed"}

-----------------------------------------------------------------------------
(* The members of a set of naturals by rank.                                 *)

Rank(S, n) == Cardinality({m \in S : m <= n})

\* The rank orders a finite set of naturals as its members are ordered.
LEMMA RankOrders ==
  ASSUME NEW S \in SUBSET Nat, IsFiniteSet(S)
  PROVE  /\ \A n \in S : Rank(S, n) \in 1 .. Cardinality(S)
         /\ \A m, n \in S : m < n => Rank(S, m) < Rank(S, n)
<1> DEFINE upto(n) == {m \in S : m <= n}
<1>1. Cardinality(S) \in Nat
  BY FS_CardinalityType
<1>2. ASSUME NEW n \in S
      PROVE  /\ IsFiniteSet(upto(n)) /\ Rank(S, n) = Cardinality(upto(n))
             /\ Rank(S, n) \in Nat /\ Rank(S, n) <= Cardinality(S)
  <2>1. upto(n) \in SUBSET S
    OBVIOUS
  <2>2. Rank(S, n) = Cardinality(upto(n))
    BY DEF Rank
  <2> HIDE DEF upto
  <2>3. IsFiniteSet(upto(n)) /\ Cardinality(upto(n)) <= Cardinality(S)
    BY <2>1, FS_Subset
  <2>4. Cardinality(upto(n)) \in Nat
    BY <2>3, FS_CardinalityType
  <2>5. QED
    BY <2>2, <2>3, <2>4
<1>3. ASSUME NEW n \in S
      PROVE  Rank(S, n) # 0
  <2>1. n \in upto(n)
    OBVIOUS
  <2> HIDE DEF upto
  <2>2. Cardinality(upto(n)) # 0
    BY <1>2, <2>1, FS_EmptySet
  <2>3. QED
    BY <1>2, <2>2
<1>4. ASSUME NEW m \in S, NEW n \in S, m < n
      PROVE  Rank(S, m) < Rank(S, n)
  <2>1. upto(m) \in SUBSET upto(n) /\ n \in upto(n) /\ n \notin upto(m)
    <3>1. m \in Nat /\ n \in Nat /\ \A k \in S : k \in Nat
      OBVIOUS
    <3>2. \A k \in S : k <= m => k <= n
      BY <1>4, <3>1
    <3>3. n <= n /\ ~(n <= m)
      BY <1>4, <3>1
    <3>4. QED
      BY <3>2, <3>3
  <2> HIDE DEF upto
  <2>2. /\ Cardinality(upto(m)) <= Cardinality(upto(n))
        /\ Cardinality(upto(n)) = Cardinality(upto(m)) => upto(n) = upto(m)
    BY <1>2, <2>1, FS_Subset
  <2>3. Rank(S, m) <= Rank(S, n) /\ Rank(S, m) # Rank(S, n)
    BY <1>2, <2>1, <2>2
  <2>4. Rank(S, m) \in Nat /\ Rank(S, n) \in Nat
    BY <1>2
  <2>5. QED
    BY <2>3, <2>4
<1>5. \A n \in S : Rank(S, n) \in 1 .. Cardinality(S)
  <2> HIDE DEF upto
  <2>1. QED
    BY <1>1, <1>2, <1>3
<1>6. QED
  BY <1>4, <1>5

\* Each rank up to the size of the set is that of one member.
LEMMA RankReached ==
  ASSUME NEW S \in SUBSET Nat, IsFiniteSet(S), NEW p \in 1 .. Cardinality(S)
  PROVE  \E n \in S : Rank(S, n) = p /\ \A m \in S : Rank(S, m) = p => m = n
<1> DEFINE R == [n \in S |-> Rank(S, n)]
           C == 1 .. Cardinality(S)
<1>1. Cardinality(S) \in Nat
  BY FS_CardinalityType
<1>2. \A m, n \in S : Rank(S, m) = Rank(S, n) => m = n
  <2> SUFFICES ASSUME NEW m \in S, NEW n \in S, Rank(S, m) = Rank(S, n), m # n
               PROVE  FALSE
    OBVIOUS
  <2>1. m < n \/ n < m
    OBVIOUS
  <2>2. Rank(S, m) < Rank(S, n) \/ Rank(S, n) < Rank(S, m)
    BY <2>1, RankOrders
  <2>3. Rank(S, m) \in Nat /\ Rank(S, n) \in Nat
    BY <1>1, RankOrders
  <2>4. QED
    BY <2>2, <2>3
<1>3. R \in [S -> C]
  BY RankOrders
<1>4. \A m, n \in S : R[m] = R[n] => m = n
  BY <1>2
<1>5. IsFiniteSet(C) /\ Cardinality(C) = Cardinality(S)
  BY <1>1, FS_Interval
<1> HIDE DEF R, C
<1>6. R \in Injection(S, C)
  BY <1>3, <1>4, Fun_IsInj
<1>7. R \in Surjection(S, C)
  BY <1>5, <1>6, FS_Injection
<1>8. p \in C
  BY DEF C
<1>9. PICK n \in S : R[n] = p
  BY <1>7, <1>8 DEF Surjection
<1>10. QED
  BY <1>2, <1>9 DEF R

-----------------------------------------------------------------------------
(* Pieces of a range.                                                        *)

\* The member of rank p.
Nth(S, p) == CHOOSE n \in S : Cardinality({m \in S : m <= n}) = p

LEMMA NthMember ==
  ASSUME NEW S \in SUBSET Nat, IsFiniteSet(S), NEW p \in 1 .. Cardinality(S)
  PROVE  Nth(S, p) \in S /\ Rank(S, Nth(S, p)) = p
<1>1. Nth(S, p) = CHOOSE n \in S : Rank(S, n) = p
  BY DEF Nth, Rank
<1>2. QED
  BY <1>1, RankReached

LEMMA CutAt ==
  ASSUME NEW lo, NEW hi, NEW cuts
  PROVE  LET ends == cuts \cup {hi} IN
         Na!Cut(lo, hi, cuts) =
           [p \in 1 .. Cardinality(ends) |->
              [at |-> IF p = 1 THEN lo ELSE Nth(ends, p - 1), hi |-> Nth(ends, p)]]
<1>1. \A S : Na!Cardinality(S) = Cardinality(S)
  BY DEF Na!Cardinality, Cardinality
<1>2. QED
  BY <1>1 DEF Na!Cut, Nth

\* The ends of the pieces, in order, cover the range.
Covers(cut, lo, hi) ==
  \E size \in Nat \ {0} :
    /\ DOMAIN cut = 1 .. size /\ cut[size].hi = hi
    /\ \A p \in 1 .. size :
         /\ cut[p].at = Start(cut, lo, p)
         /\ cut[p].at \in Nat /\ cut[p].hi \in Nat
         /\ lo <= cut[p].at /\ cut[p].at <= cut[p].hi /\ cut[p].hi <= hi

\* However a range is cut, its pieces lie side by side and cover it.
LEMMA CutCovers ==
  ASSUME NEW lo \in Nat, NEW hi \in Nat, lo <= hi,
         NEW cuts \in Na!CutsOf(lo, hi), NEW cut, cut = Na!Cut(lo, hi, cuts)
  PROVE  Covers(cut, lo, hi)
<1>1. PICK ends : ends = cuts \cup {hi}
  OBVIOUS
<1>2. cuts \in SUBSET (lo + 1 .. hi - 1)
  BY DEF Na!CutsOf
<1>3. /\ ends \in SUBSET Nat /\ hi \in ends
      /\ \A e \in ends : lo <= e /\ e <= hi
  BY <1>1, <1>2
<1>4. IsFiniteSet(ends)
  BY <1>3, FS_BoundedSetOfNaturals
<1>5. PICK size : size = Cardinality(ends)
  OBVIOUS
<1>6. size \in Nat \ {0}
  BY <1>3, <1>4, <1>5, FS_CardinalityType, FS_EmptySet
<1>7. \A p \in 1 .. size : Nth(ends, p) \in ends /\ Rank(ends, Nth(ends, p)) = p
  BY <1>3, <1>4, <1>5, NthMember
<1>8. \A p, q \in 1 .. size : p < q => Nth(ends, p) < Nth(ends, q)
  <2> SUFFICES ASSUME NEW p \in 1 .. size, NEW q \in 1 .. size, p < q
               PROVE  Nth(ends, p) < Nth(ends, q)
    OBVIOUS
  <2>1. PICK x, y : x = Nth(ends, p) /\ y = Nth(ends, q)
    OBVIOUS
  <2>2. x \in ends /\ y \in ends /\ Rank(ends, x) = p /\ Rank(ends, y) = q
    BY <1>7, <2>1
  <2>3. x # y /\ (y < x => q < p)
    BY <1>3, <1>4, <2>2, RankOrders
  <2>4. x \in Nat /\ y \in Nat /\ p \in Int /\ q \in Int
    BY <1>3, <2>2
  <2>5. QED
    BY <2>1, <2>3, <2>4
<1>9. Nth(ends, size) = hi
  <2>1. PICK p : p = Rank(ends, hi)
    OBVIOUS
  <2>2. p \in 1 .. size
    BY <1>3, <1>4, <1>5, <2>1, RankOrders
  <2>3. Nth(ends, p) = hi
    <3>1. PICK n \in ends : \A m \in ends : Rank(ends, m) = p => m = n
      BY <1>3, <1>4, <1>5, <2>2, RankReached
    <3>2. QED
      BY <1>3, <1>7, <2>1, <2>2, <3>1
  <2>4. size \in 1 .. size
    BY <1>6
  <2>5. p < size => Nth(ends, p) < Nth(ends, size)
    BY <1>8, <2>2, <2>4
  <2>6. Nth(ends, size) <= hi /\ Nth(ends, size) \in Nat
    BY <1>3, <1>7, <2>4
  <2>7. QED
    BY <1>6, <2>2, <2>3, <2>5, <2>6
<1>10. cut = [p \in 1 .. size |->
                [at |-> IF p = 1 THEN lo ELSE Nth(ends, p - 1), hi |-> Nth(ends, p)]]
  BY <1>1, <1>5, CutAt
<1>11. /\ DOMAIN cut = 1 .. size
       /\ \A p \in 1 .. size :
            /\ cut[p].hi = Nth(ends, p)
            /\ p = 1 => cut[p].at = lo
            /\ p # 1 => cut[p].at = Nth(ends, p - 1)
  BY <1>10
<1>12. cut[size].hi = hi
  BY <1>6, <1>9, <1>11
<1>13. ASSUME NEW p \in 1 .. size
       PROVE  /\ cut[p].at = Start(cut, lo, p)
              /\ cut[p].at \in Nat /\ cut[p].hi \in Nat
              /\ lo <= cut[p].at /\ cut[p].at <= cut[p].hi /\ cut[p].hi <= hi
  <2>1. cut[p].hi \in Nat /\ lo <= cut[p].hi /\ cut[p].hi <= hi
    BY <1>3, <1>7, <1>11
  <2>2. CASE p = 1
    BY <1>11, <2>1, <2>2 DEF Start
  <2>3. CASE p # 1
    <3>1. p - 1 \in 1 .. size /\ p - 1 < p
      BY <1>6, <2>3
    <3>2. cut[p].at = Nth(ends, p - 1) /\ cut[p - 1].hi = Nth(ends, p - 1)
      BY <1>11, <2>3, <3>1
    <3>3. Nth(ends, p - 1) < Nth(ends, p)
      BY <1>8, <3>1
    <3>4. Nth(ends, p - 1) \in Nat /\ lo <= Nth(ends, p - 1)
      BY <1>3, <1>7, <3>1
    <3>5. QED
      BY <1>11, <2>1, <2>3, <3>2, <3>3, <3>4 DEF Start
  <2>4. QED
    BY <2>2, <2>3
<1>14. QED
  BY <1>6, <1>11, <1>12, <1>13 DEF Covers

\* What is known of a piece.
LEMMA PieceIs ==
  ASSUME NEW S, \A e \in S : e.at \in Nat /\ e.hi \in Nat,
         NEW s \in Seq(S), NEW lo \in Nat, NEW hi, Pieces(s, lo, hi),
         NEW p \in DOMAIN s
  PROVE  /\ DOMAIN s = 1 .. Len(s) /\ Len(s) \in Nat /\ p \in 1 .. Len(s)
         /\ s[p] \in S /\ s[p].at \in Nat /\ s[p].hi \in Nat /\ Start(s, lo, p) \in Nat
         /\ lo <= Start(s, lo, p) /\ Start(s, lo, p) <= s[p].at
         /\ s[p].at <= s[p].hi /\ s[p].hi <= hi
         /\ p < Len(s) => p + 1 \in DOMAIN s /\ Start(s, lo, p + 1) = s[p].hi
<1>1. DOMAIN s = 1 .. Len(s) /\ Len(s) \in Nat /\ p \in 1 .. Len(s)
  BY LenProperties
<1>2. \A q \in 1 .. Len(s) : s[q] \in S /\ s[q].at \in Nat /\ s[q].hi \in Nat
  BY ElementOfSeq
<1>3. Start(s, lo, p) \in Nat
  <2>1. p # 1 => p - 1 \in 1 .. Len(s)
    BY <1>1
  <2>2. QED
    BY <1>2, <2>1 DEF Start
<1>4. p < Len(s) => p + 1 \in DOMAIN s /\ Start(s, lo, p + 1) = s[p].hi
  <2>1. p + 1 # 1 /\ (p + 1) - 1 = p /\ (p < Len(s) => p + 1 \in 1 .. Len(s))
    BY <1>1
  <2>2. QED
    BY <1>1, <2>1 DEF Start
<1>5. QED
  BY <1>1, <1>2, <1>3, <1>4 DEF Pieces

LEMMA MadeSequence ==
  ASSUME NEW cut, NEW lo, NEW hi, Covers(cut, lo, hi), NEW S
  PROVE  [DOMAIN cut -> S] \subseteq Seq(S)
<1>1. PICK size \in Nat \ {0} : DOMAIN cut = 1 .. size
  BY DEF Covers
<1>2. QED
  BY <1>1

\* A fold starts with the pieces of a cut, none of them begun.
LEMMA MadePieces ==
  ASSUME NEW cut, NEW lo, NEW hi, Covers(cut, lo, hi),
         NEW S, NEW s \in Seq(S), DOMAIN s = DOMAIN cut,
         \A p \in DOMAIN cut : s[p].at = cut[p].at /\ s[p].hi = cut[p].hi
  PROVE  /\ Pieces(s, lo, hi)
         /\ \A p \in DOMAIN s : s[p].at = Start(s, lo, p)
<1>1. PICK size \in Nat \ {0} :
        /\ DOMAIN cut = 1 .. size /\ cut[size].hi = hi
        /\ \A p \in 1 .. size :
             /\ cut[p].at = Start(cut, lo, p)
             /\ cut[p].at \in Nat /\ cut[p].hi \in Nat
             /\ lo <= cut[p].at /\ cut[p].at <= cut[p].hi /\ cut[p].hi <= hi
  BY DEF Covers
<1>2. DOMAIN s = 1 .. size
  BY <1>1
<1>3. Len(s) = size
  BY <1>2, LenProperties
<1>4. ASSUME NEW p \in 1 .. size
      PROVE  Start(s, lo, p) = Start(cut, lo, p)
  <2>1. p # 1 => p - 1 \in 1 .. size
    OBVIOUS
  <2>2. p # 1 => s[p - 1].hi = cut[p - 1].hi
    BY <1>1, <2>1
  <2>3. QED
    BY <2>2 DEF Start
<1>5. ASSUME NEW p \in 1 .. size
      PROVE  /\ s[p].at = Start(s, lo, p) /\ s[p].at \in Nat
             /\ lo <= Start(s, lo, p) /\ Start(s, lo, p) <= s[p].at
             /\ s[p].at <= s[p].hi /\ s[p].hi <= hi
  <2>1. s[p].at = cut[p].at /\ s[p].hi = cut[p].hi /\ Start(s, lo, p) = Start(cut, lo, p)
    BY <1>1, <1>4
  <2>2. /\ cut[p].at = Start(cut, lo, p) /\ cut[p].at \in Nat
        /\ lo <= cut[p].at /\ cut[p].at <= cut[p].hi /\ cut[p].hi <= hi
    BY <1>1
  <2>3. s[p].at <= s[p].at
    BY <2>1, <2>2
  <2>4. QED
    BY <2>1, <2>2, <2>3
<1>6. s # <<>> /\ s[Len(s)].hi = hi
  <2>1. size \in 1 .. size /\ size # 0
    OBVIOUS
  <2>2. s[size].hi = hi
    BY <1>1, <2>1
  <2>3. QED
    BY <1>3, <2>1, <2>2, EmptySeq
<1>7. QED
  BY <1>1, <1>2, <1>3, <1>5, <1>6 DEF Pieces

LEMMA SameStarts ==
  ASSUME NEW S, NEW s \in Seq(S), NEW t \in Seq(S), DOMAIN t = DOMAIN s, NEW lo,
         \A q \in DOMAIN s : t[q].hi = s[q].hi
  PROVE  \A q \in DOMAIN s : Start(t, lo, q) = Start(s, lo, q)
<1> SUFFICES ASSUME NEW q \in DOMAIN s
             PROVE  Start(t, lo, q) = Start(s, lo, q)
  OBVIOUS
<1>1. DOMAIN s = 1 .. Len(s) /\ Len(s) \in Nat
  BY LenProperties
<1>2. q # 1 => q - 1 \in DOMAIN s
  BY <1>1
<1>3. QED
  BY <1>2 DEF Start

\* A piece is folded further.
LEMMA AdvancePieces ==
  ASSUME NEW S, \A e \in S : e.at \in Nat /\ e.hi \in Nat,
         NEW s \in Seq(S), NEW lo \in Nat, NEW hi, Pieces(s, lo, hi),
         NEW t \in Seq(S), DOMAIN t = DOMAIN s, NEW p \in DOMAIN s,
         t[p].hi = s[p].hi, s[p].at <= t[p].at, t[p].at <= t[p].hi,
         \A q \in DOMAIN s : q # p => t[q] = s[q]
  PROVE  Pieces(t, lo, hi)
<1>1. DOMAIN s = 1 .. Len(s) /\ Len(s) \in Nat /\ p \in 1 .. Len(s)
  BY LenProperties
<1>2. Len(t) = Len(s)
  BY <1>1, LenProperties
<1>3. \A q \in DOMAIN s : t[q].hi = s[q].hi
  OBVIOUS
<1>4. \A q \in DOMAIN s : Start(t, lo, q) = Start(s, lo, q)
  BY <1>3, SameStarts
<1>5. t # <<>> /\ t[Len(t)].hi = hi
  <2>1. Len(s) # 0 /\ Len(s) \in DOMAIN s
    BY <1>1
  <2>2. QED
    BY <1>2, <1>3, <2>1, EmptySeq DEF Pieces
<1>6. ASSUME NEW q \in DOMAIN s
      PROVE  /\ lo <= Start(t, lo, q) /\ Start(t, lo, q) <= t[q].at
             /\ t[q].at <= t[q].hi /\ t[q].hi <= hi
  <2>1. /\ s[q].at \in Nat /\ Start(s, lo, q) \in Nat
        /\ lo <= Start(s, lo, q) /\ Start(s, lo, q) <= s[q].at
        /\ s[q].at <= s[q].hi /\ s[q].hi <= hi
    BY PieceIs
  <2>2. CASE q # p
    BY <1>2, <1>4, <2>1, <2>2
  <2>3. CASE q = p
    <3>1. t[q].at \in Nat
      BY ElementOfSeq, LenProperties
    <3>2. Start(s, lo, q) <= t[q].at
      BY <2>1, <2>3, <3>1
    <3>3. QED
      BY <1>2, <1>4, <2>1, <2>3, <3>2
  <2>4. QED
    BY <2>2, <2>3
<1>7. QED
  BY <1>2, <1>4, <1>5, <1>6 DEF Pieces

\* The pieces are one fewer once two of them are joined.
LEMMA JoinedIs ==
  ASSUME NEW S, NEW s \in Seq(S), NEW p \in DOMAIN s, NEW one,
         NEW len, len = Len(s) - 1, NEW t, t = Na!Joined(s, p, one)
  PROVE  /\ DOMAIN t = 1 .. len /\ t = [q \in 1 .. len |-> t[q]]
         /\ \A q \in 1 .. len :
              /\ q < p => t[q] = s[q]
              /\ q > p => t[q] = s[q + 1]
              /\ q = p => t[q] = one
<1>1. DOMAIN s = 1 .. Len(s) /\ Len(s) \in Nat /\ p \in 1 .. Len(s)
  BY LenProperties
<1>2. Na!Cardinality(DOMAIN s) = Cardinality(DOMAIN s)
  BY DEF Na!Cardinality, Cardinality
<1>3. \A n \in Nat : n >= 1 => Cardinality(1 .. n) = n
  BY FS_Interval
<1>4. Na!Cardinality(DOMAIN s) = Len(s)
  BY <1>1, <1>2, <1>3
<1>5. t = [q \in 1 .. len |-> IF q < p THEN s[q] ELSE IF q > p THEN s[q + 1] ELSE one]
  BY <1>4 DEF Na!Joined
<1>6. QED
  BY <1>1, <1>5

\* Two neighbours of s joined into one: t holds it at p, what comes before p as it
\* was, and what comes after one place earlier.
Joins(S, s, lo, hi, p, one, t) ==
  /\ t \in Seq(S) /\ p \in DOMAIN t
  /\ Pieces(t, lo, hi)
  /\ t[p] = one /\ Start(t, lo, p) = Start(s, lo, p)
  /\ \A q \in DOMAIN t :
       /\ q < p => /\ q \in DOMAIN s /\ t[q] = s[q]
                   /\ Start(t, lo, q) = Start(s, lo, q)
       /\ q > p => /\ q + 1 \in DOMAIN s /\ t[q] = s[q + 1]
                   /\ Start(t, lo, q) = Start(s, lo, q + 1)

\* A piece and its right neighbour, both folded through, become one.
LEMMA JoinPieces ==
  ASSUME NEW S, \A e \in S : e.at \in Nat /\ e.hi \in Nat,
         NEW s \in Seq(S), NEW lo \in Nat, NEW hi, Pieces(s, lo, hi),
         NEW p \in DOMAIN s, p < Len(s), NEW one \in S,
         one.hi = s[p + 1].hi, one.at = s[p + 1].at,
         NEW t, t = Na!Joined(s, p, one)
  PROVE  Joins(S, s, lo, hi, p, one, t)
<1> SUFFICES /\ t \in Seq(S) /\ p \in DOMAIN t
             /\ Pieces(t, lo, hi)
             /\ t[p] = one /\ Start(t, lo, p) = Start(s, lo, p)
             /\ \A q \in DOMAIN t :
                  /\ q < p => /\ q \in DOMAIN s /\ t[q] = s[q]
                              /\ Start(t, lo, q) = Start(s, lo, q)
                  /\ q > p => /\ q + 1 \in DOMAIN s /\ t[q] = s[q + 1]
                              /\ Start(t, lo, q) = Start(s, lo, q + 1)
  BY DEF Joins
<1>1. /\ DOMAIN s = 1 .. Len(s) /\ Len(s) \in Nat /\ p \in 1 .. Len(s)
      /\ p + 1 \in DOMAIN s /\ Start(s, lo, p + 1) = s[p].hi
  BY PieceIs
<1>2. PICK len : len = Len(s) - 1
  OBVIOUS
<1>3. len \in Nat /\ len # 0 /\ p \in 1 .. len
  BY <1>1, <1>2
<1>4. /\ DOMAIN t = 1 .. len /\ t = [q \in 1 .. len |-> t[q]]
      /\ \A q \in 1 .. len :
           /\ q < p => t[q] = s[q]
           /\ q > p => t[q] = s[q + 1]
           /\ q = p => t[q] = one
  BY <1>2, JoinedIs
<1>5. /\ DOMAIN t = 1 .. len
      /\ \A q \in 1 .. len :
           /\ q < p => t[q] = s[q] /\ q \in DOMAIN s
           /\ q = p => t[q] = one
           /\ q > p => t[q] = s[q + 1] /\ q + 1 \in DOMAIN s
  BY <1>1, <1>2, <1>4
<1>6. t \in Seq(S) /\ Len(t) = len
  <2>1. \A q \in DOMAIN s : s[q] \in S
    BY <1>1, ElementOfSeq
  <2>2. \A q \in 1 .. len : t[q] \in S
    <3> SUFFICES ASSUME NEW q \in 1 .. len PROVE t[q] \in S
      OBVIOUS
    <3>1. q < p \/ q = p \/ q > p
      BY <1>1
    <3>2. QED
      BY <1>5, <2>1, <3>1
  <2>3. t \in [1 .. len -> S]
    BY <1>4, <2>2
  <2>4. QED
    BY <1>3, <2>3
<1>7. t # <<>> /\ t[Len(t)].hi = hi
  <2>1. s[Len(s)].hi = hi
    BY DEF Pieces
  <2>2. t[len].hi = s[len + 1].hi
    <3>1. len \in 1 .. len /\ (len = p \/ len > p)
      BY <1>3
    <3>2. QED
      BY <1>5, <3>1
  <2>3. len + 1 = Len(s)
    BY <1>1, <1>2
  <2>4. QED
    BY <1>3, <1>6, <2>1, <2>2, <2>3, EmptySeq
<1>8. ASSUME NEW q \in 1 .. len
      PROVE  Start(t, lo, q) = IF q <= p THEN Start(s, lo, q) ELSE Start(s, lo, q + 1)
  <2>1. CASE q = 1
    BY <1>3, <2>1 DEF Start
  <2>2. CASE q # 1
    <3>1. q - 1 \in 1 .. len /\ Start(t, lo, q) = t[q - 1].hi
      BY <1>3, <2>2 DEF Start
    <3>2. CASE q <= p
      <4>1. q - 1 < p
        BY <1>3, <3>2
      <4>2. t[q - 1] = s[q - 1]
        BY <1>5, <3>1, <4>1
      <4>3. QED
        BY <2>2, <3>1, <3>2, <4>2 DEF Start
    <3>3. CASE q = p + 1
      <4>1. q - 1 = p /\ ~(q <= p) /\ (q + 1) - 1 = q /\ q + 1 # 1
        BY <1>3, <3>3
      <4>2. t[q - 1].hi = s[q].hi
        BY <1>5, <3>1, <3>3, <4>1
      <4>3. QED
        BY <3>1, <4>1, <4>2 DEF Start
    <3>4. CASE q > p + 1
      <4>1. q - 1 > p /\ (q - 1) + 1 = q /\ ~(q <= p) /\ (q + 1) - 1 = q /\ q + 1 # 1
        BY <1>3, <3>4
      <4>2. t[q - 1] = s[q]
        BY <1>5, <3>1, <4>1
      <4>3. QED
        BY <3>1, <4>1, <4>2 DEF Start
    <3>5. QED
      BY <1>3, <3>2, <3>3, <3>4
  <2>3. QED
    BY <2>1, <2>2
<1>9. ASSUME NEW q \in 1 .. len
      PROVE  /\ lo <= Start(t, lo, q) /\ Start(t, lo, q) <= t[q].at
             /\ t[q].at <= t[q].hi /\ t[q].hi <= hi
  <2>1. CASE q < p
    <3>1. q \in DOMAIN s /\ t[q] = s[q] /\ Start(t, lo, q) = Start(s, lo, q)
      BY <1>3, <1>5, <1>8, <2>1
    <3>2. QED
      BY <3>1, PieceIs
  <2>2. CASE q = p
    <3>1. t[q].at = s[p + 1].at /\ t[q].hi = s[p + 1].hi /\ Start(t, lo, q) = Start(s, lo, p)
      BY <1>3, <1>5, <1>8, <2>2
    <3>2. /\ Start(s, lo, p) \in Nat /\ s[p].at \in Nat /\ s[p].hi \in Nat
          /\ lo <= Start(s, lo, p) /\ Start(s, lo, p) <= s[p].at /\ s[p].at <= s[p].hi
      BY PieceIs
    <3>3. /\ s[p + 1].at \in Nat /\ Start(s, lo, p + 1) <= s[p + 1].at
          /\ s[p + 1].at <= s[p + 1].hi /\ s[p + 1].hi <= hi
      BY <1>1, PieceIs
    <3>4. Start(s, lo, p) <= s[p + 1].at
      BY <1>1, <3>2, <3>3
    <3>5. QED
      BY <3>1, <3>2, <3>3, <3>4
  <2>3. CASE q > p
    <3>1. q + 1 \in DOMAIN s /\ t[q] = s[q + 1] /\ Start(t, lo, q) = Start(s, lo, q + 1)
      BY <1>3, <1>5, <1>8, <2>3
    <3>2. PICK r \in DOMAIN s : r = q + 1
      BY <3>1
    <3>3. /\ lo <= Start(s, lo, r) /\ Start(s, lo, r) <= s[r].at
          /\ s[r].at <= s[r].hi /\ s[r].hi <= hi
      BY <3>2, PieceIs
    <3>4. t[q] = s[r] /\ Start(t, lo, q) = Start(s, lo, r)
      BY <3>1, <3>2
    <3>5. QED
      BY <3>3, <3>4
  <2>4. QED
    BY <1>3, <2>1, <2>2, <2>3
<1>10. Pieces(t, lo, hi)
  BY <1>5, <1>7, <1>9 DEF Pieces
<1>11. \A q \in DOMAIN t : (q < p => q <= p) /\ (q > p => ~(q <= p)) /\ p <= p
  BY <1>3, <1>5
<1>12. QED
  BY <1>2, <1>3, <1>5, <1>6, <1>8, <1>10, <1>11

-----------------------------------------------------------------------------
(* Maps from names to ids.                                                   *)

LEMMA MapOfIs ==
  ASSUME NEW S \in SUBSET Na!LabelId
  PROVE  /\ DOMAIN MapOf(S) = {LabelName[f] : f \in S}
         /\ \A f \in S : LabelName[f] \in DOMAIN MapOf(S) /\ MapOf(S)[LabelName[f]] = f
         /\ \A n \in DOMAIN MapOf(S) :
              MapOf(S)[n] \in S /\ LabelName[MapOf(S)[n]] = n
         /\ {MapOf(S)[n] : n \in DOMAIN MapOf(S)} = S
<1>1. \A f, g \in Na!LabelId : LabelName[f] = LabelName[g] => f = g
  BY PipelineAssumption DEF Na!NamesAssumption
<1>2. DOMAIN MapOf(S) = {LabelName[f] : f \in S}
  BY DEF MapOf
<1>3. ASSUME NEW f \in S
      PROVE  LabelName[f] \in DOMAIN MapOf(S) /\ MapOf(S)[LabelName[f]] = f
  <2>1. MapOf(S)[LabelName[f]] = CHOOSE g \in S : LabelName[g] = LabelName[f]
    BY DEF MapOf
  <2>2. \A g \in S : LabelName[g] = LabelName[f] => g = f
    BY <1>1
  <2>3. QED
    BY <1>2, <2>1, <2>2
<1>4. QED
  BY <1>2, <1>3

LEMMA MapOfNone == MapOf({}) = Na!EmptyMap
BY DEF MapOf, Na!EmptyMap

LEMMA MapOfOne ==
  ASSUME NEW f \in Na!LabelId
  PROVE  Na!Entry(f) = MapOf({f})
<1>1. {LabelName[g] : g \in {f}} = {LabelName[f]}
  OBVIOUS
<1>2. \A n \in {LabelName[f]} : (CHOOSE g \in {f} : LabelName[g] = n) = f
  OBVIOUS
<1>3. QED
  BY <1>1, <1>2 DEF Na!Entry, MapOf

\* No name has two ids, so it does not matter which map is extended by which.
LEMMA ExtendMapOf ==
  ASSUME NEW S \in SUBSET Na!LabelId, NEW T \in SUBSET Na!LabelId
  PROVE  Na!Extend(MapOf(S), MapOf(T)) = MapOf(S \cup T)
<1>1. PICK a, b, c : a = MapOf(S) /\ b = MapOf(T) /\ c = MapOf(S \cup T)
  OBVIOUS
<1>2. DOMAIN c = DOMAIN a \cup DOMAIN b
  BY <1>1 DEF MapOf
<1>3. S \cup T \in SUBSET Na!LabelId
  OBVIOUS
<1>4. ASSUME NEW n \in DOMAIN b
      PROVE  c[n] = b[n]
  <2>1. b[n] \in T /\ LabelName[b[n]] = n
    BY <1>1, MapOfIs
  <2>2. c[LabelName[b[n]]] = b[n]
    BY <1>1, <1>3, <2>1, MapOfIs
  <2>3. QED
    BY <2>1, <2>2
<1>5. ASSUME NEW n \in DOMAIN a
      PROVE  c[n] = a[n]
  <2>1. a[n] \in S /\ LabelName[a[n]] = n
    BY <1>1, MapOfIs
  <2>2. c[LabelName[a[n]]] = a[n]
    BY <1>1, <1>3, <2>1, MapOfIs
  <2>3. QED
    BY <2>1, <2>2
<1>6. c = [n \in DOMAIN c |-> c[n]]
  BY <1>1 DEF MapOf
<1>7. Na!Extend(a, b) = [n \in DOMAIN c |-> IF n \in DOMAIN b THEN b[n] ELSE a[n]]
  BY <1>2 DEF Na!Extend
<1>8. \A n \in DOMAIN c : c[n] = IF n \in DOMAIN b THEN b[n] ELSE a[n]
  BY <1>2, <1>4, <1>5
<1>9. Na!Extend(a, b) = c
  BY <1>6, <1>7, <1>8
<1>10. QED
  BY <1>1, <1>9

LEMMA ReducedMapOf ==
  ASSUME NEW S \in SUBSET Na!LabelId, NEW T \in SUBSET Na!LabelId
  PROVE  Na!Reduced(MapOf(S), MapOf(T)) = MapOf(S \cup T)
<1>1. T \cup S = S \cup T
  OBVIOUS
<1>2. QED
  BY <1>1, ExtendMapOf DEF Na!Reduced

-----------------------------------------------------------------------------
(* The chunks of ids.                                                        *)

LEMMA ParametersTyped ==
  /\ NLabels \in Nat /\ Chunk \in Nat \ {0} /\ BatchRows \in Nat \ {0}
  /\ LabelName \in [Na!LabelId -> Name]
  /\ Na!LabelId = 0 .. NLabels - 1 /\ Fid = Na!LabelId
  /\ \A f \in Na!LabelId : f \in Nat /\ f < NLabels
BY PipelineAssumption DEF Na!NamesAssumption, Na!LabelId

LEMMA QuotientBounds ==
  ASSUME NEW x \in Nat, NEW d \in Nat \ {0}
  PROVE  /\ x \div d \in Nat
         /\ d * (x \div d) <= x
         /\ x < d * (x \div d) + d
OBVIOUS

LEMMA ProductStep ==
  ASSUME NEW d \in Nat, NEW p \in Nat, NEW q \in Nat, p < q
  PROVE  d * p + d <= d * q
<1>1. d * (p + 1) <= d * q
  OBVIOUS
<1>2. QED
  BY <1>1

LEMMA Products ==
  ASSUME NEW d \in Nat, NEW c \in Nat
  PROVE  /\ c * d \in Nat /\ c * d = d * c
         /\ (c + 1) * d = c * d + d
OBVIOUS

\* The last chunk starts before the last id, and no id is left after it.
LEMMA ChunksCover ==
  /\ Na!NChunks \in Nat
  /\ \A c \in Nat : Na!ChunkStart(c) \in Nat
  /\ \A c \in Nat : c < Na!NChunks => Na!ChunkStart(c) < NLabels
  /\ Na!ChunkStart(Na!NChunks) >= NLabels
  /\ \A c \in Nat : Na!ChunkStart(c + 1) = Na!ChunkStart(c) + Chunk
  /\ Na!ChunkStart(0) = 0
<1>1. PICK x \in Nat, d \in Nat \ {0} : x = NLabels + Chunk - 1 /\ d = Chunk
  BY ParametersTyped
<1>2. PICK q : q = x \div d
  OBVIOUS
<1>3. q \in Nat /\ d * q <= x /\ x < d * q + d
  BY <1>2, QuotientBounds
<1>4. Na!NChunks = q /\ \A c : Na!ChunkStart(c) = c * d
  BY <1>1, <1>2 DEF Na!NChunks, Na!ChunkStart
<1>5. \A c \in Nat : c * d \in Nat /\ c * d = d * c /\ (c + 1) * d = c * d + d
  BY Products
<1>6. q * d >= NLabels
  <2>1. q * d \in Nat /\ q * d = d * q
    BY <1>3, <1>5
  <2>2. QED
    BY <1>1, <1>3, <2>1, ParametersTyped
<1>7. ASSUME NEW c \in Nat, c < q
      PROVE  c * d < NLabels
  <2>1. d * c + d <= d * q
    BY <1>3, <1>7, ProductStep
  <2>2. c * d \in Nat /\ c * d = d * c /\ d * q \in Nat
    BY <1>3, <1>5
  <2>3. QED
    BY <1>1, <1>3, <2>1, <2>2, ParametersTyped
<1>8. 0 * d = 0
  OBVIOUS
<1>9. QED
  BY <1>1, <1>3, <1>4, <1>5, <1>6, <1>7, <1>8

LEMMA StartsMonotone ==
  ASSUME NEW a \in Nat, NEW b \in Nat, a <= b
  PROVE  Na!ChunkStart(a) <= Na!ChunkStart(b)
<1>1. PICK d \in Nat : d = Chunk
  BY ParametersTyped
<1>2. a * d \in Nat /\ b * d \in Nat /\ a * d = d * a /\ b * d = d * b
  BY Products
<1>3. a * d <= b * d
  <2>1. a = b \/ a < b
    OBVIOUS
  <2>2. a < b => d * a + d <= d * b
    BY ProductStep
  <2>3. QED
    BY <1>2, <2>1, <2>2
<1>4. QED
  BY <1>1, <1>3 DEF Na!ChunkStart

\* A chunk ends where the next begins, or with the last id.
LEMMA ChunkEndIs ==
  ASSUME NEW c \in Nat
  PROVE  /\ Na!ChunkEnd(c) \in Nat /\ Na!ChunkEnd(c) <= NLabels
         /\ Na!ChunkEnd(c) <= Na!ChunkStart(c + 1)
         /\ Na!ChunkEnd(c) = Na!ChunkStart(c + 1) \/ Na!ChunkEnd(c) = NLabels
         /\ c < Na!NChunks => Na!ChunkStart(c) < Na!ChunkEnd(c)
<1>1. PICK x \in Nat : x = Na!ChunkStart(c)
  BY ChunksCover
<1>2. Na!ChunkStart(c + 1) = x + Chunk /\ (c < Na!NChunks => x < NLabels)
  BY <1>1, ChunksCover
<1>3. Na!ChunkEnd(c) = IF x + Chunk < NLabels THEN x + Chunk ELSE NLabels
  BY <1>1 DEF Na!ChunkEnd
<1>4. QED
  BY <1>1, <1>2, <1>3, ParametersTyped

-----------------------------------------------------------------------------
(* The components of a range of rows.                                        *)

LEMMA FileIs ==
  ASSUME file \in Files
  PROVE  /\ Len(file) \in Nat /\ DOMAIN file = 1 .. Len(file)
         /\ \A r \in DOMAIN file : file[r].comps \in Seq(Name)
         /\ \A r \in DOMAIN file : Na!Components(r) \subseteq Name
<1> DEFINE Row == [rev_swhid : DOMAIN NormalizeRevId, id : DOMAIN NormalizeRevId,
                   comps : Seq(Name), bin : Int]
<1>1. file \in Seq(Row)
  BY PipelineAssumption
<1>2. \A row \in Row : row.comps \in Seq(Name)
  OBVIOUS
<1> HIDE DEF Row
<1>3. Len(file) \in Nat /\ DOMAIN file = 1 .. Len(file) /\ \A r \in DOMAIN file : file[r] \in Row
  BY <1>1, LenProperties, ElementOfSeq
<1>4. \A r \in DOMAIN file : file[r].comps \in Seq(Name)
  BY <1>2, <1>3
<1>5. ASSUME NEW r \in DOMAIN file
      PROVE  Na!Components(r) \subseteq Name
  <2>1. \A c \in DOMAIN file[r].comps : file[r].comps[c] \in Name
    BY <1>4, LenProperties, ElementOfSeq
  <2>2. QED
    BY <2>1 DEF Na!Components
<1>6. QED
  BY <1>3, <1>4, <1>5

LEMMA AskedParts ==
  ASSUME NEW a \in Nat
  PROVE  /\ Asked(a, a) = {}
         /\ \A b \in Nat : a <= b =>
              Asked(a, b + 1) = Asked(a, b) \cup Na!Components(b + 1)
         /\ \A b, c \in Nat : a <= b /\ b <= c =>
              Asked(a, c) = Asked(a, b) \cup Asked(b, c)
<1>1. a + 1 .. a = {}
  OBVIOUS
<1>2. ASSUME NEW b \in Nat, a <= b
      PROVE  Asked(a, b + 1) = Asked(a, b) \cup Na!Components(b + 1)
  <2>1. a + 1 .. b + 1 = (a + 1 .. b) \cup {b + 1}
    BY <1>2
  <2>2. QED
    BY <2>1 DEF Asked
<1>3. ASSUME NEW b \in Nat, NEW c \in Nat, a <= b, b <= c
      PROVE  Asked(a, c) = Asked(a, b) \cup Asked(b, c)
  <2>1. a + 1 .. c = (a + 1 .. b) \cup (b + 1 .. c)
    BY <1>3
  <2>2. QED
    BY <2>1 DEF Asked
<1>4. QED
  BY <1>1, <1>2, <1>3 DEF Asked

LEMMA AskedNames ==
  ASSUME file \in Files, NEW a \in Nat, NEW b \in Nat, b <= Len(file)
  PROVE  Asked(a, b) \subseteq Name
<1>1. \A r \in a + 1 .. b : r \in DOMAIN file
  BY FileIs
<1>2. QED
  BY <1>1, FileIs DEF Asked

LEMMA EndOfBatchIs ==
  ASSUME file \in Files, rows \in 0 .. Len(file)
  PROVE  /\ Na!EndOfBatch \in Nat /\ rows <= Na!EndOfBatch
         /\ Na!EndOfBatch <= Len(file)
BY FileIs, ParametersTyped DEF Na!EndOfBatch

-----------------------------------------------------------------------------
(* names, step 1.                                                            *)

LEMMA SetPieceIs == \A e \in SetPiece : e.at \in Nat /\ e.hi \in Nat
BY DEF SetPiece

LEMMA NamesStarts == file \in Files /\ Na!Init => NamesInv
<1> SUFFICES ASSUME file \in Files, Na!Init PROVE NamesInv
  OBVIOUS
<1>1. Asked(0, 0) = {} /\ Len(file) \in Nat
  BY AskedParts, FileIs
<1>2. local \in Seq(SetPiece)
  BY EmptySeq DEF Na!Init
<1>3. QED
  BY <1>1, <1>2 DEF Na!Init, NamesInv, CollectInv

LEMMA OpenFileKeepsNames ==
  ASSUME NamesInv, Na!OpenFile
  PROVE  NamesInv'
<1>1. /\ npc = "open" /\ npc' \in {"failed", "collect"}
      /\ UNCHANGED <<file, columns, rows, local, distinct, requested, scan>>
  BY DEF Na!OpenFile, Na!inputs
<1>2. \A a, b : Asked(a, b)' = Asked(a, b)
  BY <1>1 DEF Asked, Na!Components
<1>3. local = <<>> /\ scan = <<>> /\ requested = {} /\ rows = 0
  BY <1>1 DEF NamesInv, CollectInv
<1>4. QED
  BY <1>1, <1>2, <1>3 DEF NamesInv, CollectInv

LEMMA ReadFailsKeepsNames ==
  ASSUME NamesInv, Na!ReadFails
  PROVE  NamesInv'
<1>1. /\ npc = "collect" /\ npc' = "failed" /\ local = <<>>
      /\ UNCHANGED <<file, columns, rows, local, distinct, requested, scan>>
  BY DEF Na!ReadFails, Na!inputs
<1>2. \A a, b : Asked(a, b)' = Asked(a, b)
  BY <1>1 DEF Asked, Na!Components
<1>3. scan = <<>> /\ requested = {}
  BY <1>1 DEF NamesInv
<1>4. QED
  BY <1>1, <1>2, <1>3 DEF NamesInv, CollectInv

\* A batch is being collected.
LEMMA Collecting ==
  ASSUME file \in Files, NamesInv, local # <<>>
  PROVE  /\ local \in Seq(SetPiece) /\ npc = "collect"
         /\ Pieces(local, rows, Na!EndOfBatch) /\ rows \in Nat
         /\ \A q \in DOMAIN local :
              local[q].set = Asked(Start(local, rows, q), local[q].at)
<1>1. rows \in 0 .. Len(file) /\ CollectInv
  BY DEF NamesInv
<1>2. rows \in Nat
  BY <1>1
<1>3. QED
  BY <1>1, <1>2 DEF CollectInv

\* A step that replaces the pieces of the batch only.
LEMMA NewPiecesKeepNames ==
  ASSUME file \in Files, NamesInv, npc = "collect",
         UNCHANGED <<file, columns, npc, rows, distinct, requested, scan>>,
         local' \in Seq(SetPiece), Pieces(local', rows, Na!EndOfBatch),
         \A p \in DOMAIN local' : local'[p].set = Asked(Start(local', rows, p), local'[p].at)
  PROVE  NamesInv'
<1>1. \A a, b : Asked(a, b)' = Asked(a, b)
  BY DEF Asked, Na!Components
<1>2. (Na!EndOfBatch)' = Na!EndOfBatch
  BY DEF Na!EndOfBatch
<1>3. \A s, lo, hi : Pieces(s, lo, hi)' <=> Pieces(s, lo, hi)
  BY DEF Pieces, Start
<1>4. CollectInv'
  BY <1>1, <1>2, <1>3 DEF CollectInv, Pieces, Start
<1>5. scan = <<>> /\ requested = {}
  BY DEF NamesInv
<1>6. QED
  BY <1>1, <1>4, <1>5 DEF NamesInv

LEMMA ReadBatchKeepsNames ==
  ASSUME file \in Files, NamesInv, Na!ReadBatch
  PROVE  NamesInv'
<1>1. /\ npc = "collect"
      /\ UNCHANGED <<file, columns, npc, rows, distinct, requested, scan>>
  BY DEF Na!ReadBatch, Na!inputs
<1>2. PICK cuts, cut :
        /\ cuts \in Na!CutsOf(rows, Na!EndOfBatch)
        /\ cut = Na!Cut(rows, Na!EndOfBatch, cuts)
        /\ local' = [p \in DOMAIN cut |->
                       [at |-> cut[p].at, hi |-> cut[p].hi, set |-> {}]]
  BY DEF Na!ReadBatch
<1>3. rows \in Nat /\ Na!EndOfBatch \in Nat /\ rows <= Na!EndOfBatch
  BY EndOfBatchIs DEF NamesInv
<1>4. Covers(cut, rows, Na!EndOfBatch)
  BY <1>2, <1>3, CutCovers
<1>5. /\ local' \in [DOMAIN cut -> SetPiece]
      /\ \A p \in DOMAIN cut :
           /\ local'[p] \in SetPiece /\ local'[p].set = {}
           /\ local'[p].at = cut[p].at /\ local'[p].hi = cut[p].hi
  BY <1>2, <1>4 DEF SetPiece, Covers
<1>6. /\ local' \in Seq(SetPiece) /\ Pieces(local', rows, Na!EndOfBatch)
      /\ \A p \in DOMAIN local' : local'[p].at = Start(local', rows, p)
  <2>1. local' \in [DOMAIN cut -> SetPiece]
    BY <1>5
  <2>2. \A p \in DOMAIN cut : local'[p].at = cut[p].at /\ local'[p].hi = cut[p].hi
    BY <1>5
  <2>3. local' \in Seq(SetPiece) /\ DOMAIN local' = DOMAIN cut
    BY <1>4, <2>1, MadeSequence
  <2>4. QED
    BY <1>4, <2>2, <2>3, MadePieces
<1>7. ASSUME NEW p \in DOMAIN local'
      PROVE  local'[p].set = Asked(Start(local', rows, p), local'[p].at)
  <2>1. local'[p] \in SetPiece /\ local'[p].set = {}
    BY <1>5
  <2>2. local'[p].at \in Nat /\ Asked(local'[p].at, local'[p].at) = {}
    BY <2>1, SetPieceIs, AskedParts
  <2>3. QED
    BY <1>6, <2>1, <2>2
<1>8. QED
  BY <1>1, <1>6, <1>7, NewPiecesKeepNames

LEMMA CollectRowKeepsNames ==
  ASSUME file \in Files, NamesInv, NEW p \in DOMAIN local, Na!CollectRow(p)
  PROVE  NamesInv'
<1>1. /\ UNCHANGED <<file, columns, npc, rows, distinct, requested, scan>>
      /\ local[p].at < local[p].hi
  BY DEF Na!CollectRow, Na!inputs
<1>2. /\ local \in Seq(SetPiece) /\ npc = "collect"
      /\ Pieces(local, rows, Na!EndOfBatch) /\ rows \in Nat
      /\ \A q \in DOMAIN local :
           local[q].set = Asked(Start(local, rows, q), local[q].at)
  <2>1. local # <<>>
    OBVIOUS
  <2>2. QED
    BY <2>1, Collecting
<1>3. /\ local[p] \in SetPiece /\ local[p].at \in Nat /\ local[p].hi \in Nat
      /\ Start(local, rows, p) \in Nat /\ Start(local, rows, p) <= local[p].at
      /\ local[p].hi <= Na!EndOfBatch
  BY <1>2, SetPieceIs, PieceIs
<1>4. PICK one : one = [at |-> local[p].at + 1, hi |-> local[p].hi,
                        set |-> local[p].set \cup Na!Components(local[p].at + 1)]
  OBVIOUS
<1>5. one \in SetPiece
  <2>1. local[p].at + 1 \in DOMAIN file
    BY <1>1, <1>3, FileIs, EndOfBatchIs DEF NamesInv
  <2>2. Na!Components(local[p].at + 1) \subseteq Name
    BY <2>1, FileIs
  <2>3. QED
    BY <1>3, <1>4, <2>2 DEF SetPiece
<1>6. /\ local' \in [DOMAIN local -> SetPiece] /\ local'[p] = one
      /\ \A q \in DOMAIN local : q # p => local'[q] = local[q]
  <2>1. local \in [DOMAIN local -> SetPiece]
    BY <1>2, LenProperties
  <2>2. [local[p] EXCEPT !.at = @ + 1, !.set = @ \cup Na!Components(local[p].at + 1)] = one
    <3>1. PICK x : x = local[p]
      OBVIOUS
    <3>2. PICK moved : moved = [x EXCEPT !.at = @ + 1]
      OBVIOUS
    <3>3. moved = [at |-> x.at + 1, hi |-> x.hi, set |-> x.set]
      BY <1>3, <3>1, <3>2 DEF SetPiece
    <3>4. [moved EXCEPT !.set = @ \cup Na!Components(x.at + 1)] = one
      BY <1>4, <3>1, <3>3
    <3>5. QED
      BY <3>1, <3>2, <3>4
  <2>3. local' = [local EXCEPT ![p] = one]
    BY <2>1, <2>2 DEF Na!CollectRow
  <2>4. QED
    BY <1>5, <2>1, <2>3
<1>7. one.hi = local[p].hi /\ local[p].at <= one.at /\ one.at <= one.hi
  BY <1>1, <1>3, <1>4
<1>8. local' \in Seq(SetPiece) /\ DOMAIN local' = DOMAIN local
  <2>1. DOMAIN local = 1 .. Len(local) /\ Len(local) \in Nat
    BY <1>2, LenProperties
  <2>2. QED
    BY <1>6, <2>1
<1>9. /\ Pieces(local', rows, Na!EndOfBatch)
      /\ \A q \in DOMAIN local : Start(local', rows, q) = Start(local, rows, q)
  <2>1. /\ local'[p].hi = local[p].hi /\ local[p].at <= local'[p].at
        /\ local'[p].at <= local'[p].hi
    BY <1>6, <1>7
  <2>2. \A q \in DOMAIN local : local'[q].hi = local[q].hi
    BY <1>6, <2>1
  <2>3. \A q \in DOMAIN local : Start(local', rows, q) = Start(local, rows, q)
    BY <1>2, <1>8, <2>2, SameStarts
  <2>4. Pieces(local', rows, Na!EndOfBatch)
    BY <1>2, <1>6, <1>8, <2>1, SetPieceIs, AdvancePieces
  <2>5. QED
    BY <2>3, <2>4
<1>10. one.set = Asked(Start(local, rows, p), one.at)
  BY <1>2, <1>3, <1>4, AskedParts
<1>11. \A q \in DOMAIN local' :
         local'[q].set = Asked(Start(local', rows, q), local'[q].at)
  BY <1>2, <1>6, <1>8, <1>9, <1>10
<1>12. QED
  BY <1>1, <1>2, <1>8, <1>9, <1>11, NewPiecesKeepNames

LEMMA ReduceSetsKeepsNames ==
  ASSUME file \in Files, NamesInv, NEW p \in DOMAIN local, Na!ReduceSets(p)
  PROVE  NamesInv'
<1>1. /\ UNCHANGED <<file, columns, npc, rows, distinct, requested, scan>>
      /\ p < Len(local) /\ local[p].at = local[p].hi
      /\ local[p + 1].at = local[p + 1].hi
  BY DEF Na!ReduceSets, Na!Collected, Na!inputs
<1>2. /\ local \in Seq(SetPiece) /\ npc = "collect"
      /\ Pieces(local, rows, Na!EndOfBatch) /\ rows \in Nat
      /\ \A q \in DOMAIN local :
           local[q].set = Asked(Start(local, rows, q), local[q].at)
  <2>1. local # <<>>
    OBVIOUS
  <2>2. QED
    BY <2>1, Collecting
<1>3. PICK l, r : l = local[p] /\ r = local[p + 1]
  OBVIOUS
<1>4. /\ p + 1 \in DOMAIN local /\ Start(local, rows, p + 1) = l.hi
      /\ l \in SetPiece /\ l.hi \in Nat
      /\ Start(local, rows, p) \in Nat /\ Start(local, rows, p) <= l.hi
  BY <1>1, <1>2, <1>3, SetPieceIs, PieceIs
<1>5. r \in SetPiece /\ r.at \in Nat /\ l.hi <= r.at
  BY <1>2, <1>3, <1>4, SetPieceIs, PieceIs
<1>6. PICK one : one = [at |-> r.at, hi |-> r.hi, set |-> l.set \cup r.set]
  OBVIOUS
<1>7. one \in SetPiece
  BY <1>4, <1>5, <1>6 DEF SetPiece
<1>8. local' = Na!Joined(local, p, one)
  <2>1. [r EXCEPT !.set = l.set \cup r.set] = one
    BY <1>5, <1>6 DEF SetPiece
  <2>2. QED
    BY <1>3, <2>1 DEF Na!ReduceSets
<1>9. one.hi = local[p + 1].hi /\ one.at = local[p + 1].at
  BY <1>3, <1>6
<1>10. /\ local' \in Seq(SetPiece) /\ p \in DOMAIN local'
       /\ Pieces(local', rows, Na!EndOfBatch)
       /\ local'[p] = one /\ Start(local', rows, p) = Start(local, rows, p)
       /\ \A q \in DOMAIN local' :
            /\ q < p => /\ q \in DOMAIN local /\ local'[q] = local[q]
                        /\ Start(local', rows, q) = Start(local, rows, q)
            /\ q > p => /\ q + 1 \in DOMAIN local /\ local'[q] = local[q + 1]
                        /\ Start(local', rows, q) = Start(local, rows, q + 1)
  <2>1. \A e \in SetPiece : e.at \in Nat /\ e.hi \in Nat
    BY SetPieceIs
  <2>2. PICK t, n, lo : t = Na!Joined(local, p, one) /\ n = Na!EndOfBatch /\ lo = rows
    OBVIOUS
  <2>3. /\ local \in Seq(SetPiece) /\ Pieces(local, lo, n) /\ lo \in Nat
        /\ p < Len(local) /\ one \in SetPiece
        /\ one.hi = local[p + 1].hi /\ one.at = local[p + 1].at
    BY <1>1, <1>2, <1>7, <1>9, <2>2
  <2>4. t = Na!Joined(local, p, one)
    BY <2>2
  <2>5. Joins(SetPiece, local, lo, n, p, one, t)
    BY <2>1, <2>4, <2>3, JoinPieces
  <2>6. t \in Seq(SetPiece) /\ p \in DOMAIN t /\ t[p] = one
    BY <2>5 DEF Joins
  <2>7. Start(t, lo, p) = Start(local, lo, p)
    BY <2>5 DEF Joins
  <2>8. Pieces(t, lo, n)
    BY <2>5 DEF Joins
  <2>9. ASSUME NEW q \in DOMAIN t
        PROVE  /\ q < p => /\ q \in DOMAIN local /\ t[q] = local[q]
                           /\ Start(t, lo, q) = Start(local, lo, q)
               /\ q > p => /\ q + 1 \in DOMAIN local /\ t[q] = local[q + 1]
                           /\ Start(t, lo, q) = Start(local, lo, q + 1)
    BY <2>5 DEF Joins
  <2>10. local' = t
    BY <1>8, <2>2
  <2>11. QED
    BY <2>2, <2>6, <2>7, <2>8, <2>9, <2>10
<1>11. one.set = Asked(Start(local, rows, p), one.at)
  <2>1. l.set = Asked(Start(local, rows, p), l.hi) /\ r.set = Asked(l.hi, r.at)
    BY <1>1, <1>2, <1>3, <1>4
  <2>2. QED
    BY <1>4, <1>5, <1>6, <2>1, AskedParts
<1>12. ASSUME NEW q \in DOMAIN local'
       PROVE  local'[q].set = Asked(Start(local', rows, q), local'[q].at)
  <2>1. q \in Nat /\ p \in Nat
    BY <1>2, <1>10, LenProperties
  <2>2. CASE q < p
    BY <1>2, <1>10, <2>2
  <2>3. CASE q = p
    BY <1>10, <1>11, <2>3
  <2>4. CASE q > p
    BY <1>2, <1>10, <2>4
  <2>5. QED
    BY <2>1, <2>2, <2>3, <2>4
<1>13. QED
  BY <1>1, <1>2, <1>10, <1>12, NewPiecesKeepNames

LEMMA MergeBatchKeepsNames ==
  ASSUME file \in Files, NamesInv, Na!MergeBatch
  PROVE  NamesInv'
<1>1. /\ UNCHANGED <<file, columns, npc, requested, scan>>
      /\ Len(local) = 1 /\ local[1].at = local[1].hi
      /\ distinct' = Na!Merged(distinct, local[1].set)
      /\ rows' = local[1].hi /\ local' = <<>>
  BY DEF Na!MergeBatch, Na!Collected, Na!inputs
<1>2. /\ local \in Seq(SetPiece) /\ npc = "collect"
      /\ Pieces(local, rows, Na!EndOfBatch) /\ rows \in Nat
      /\ \A q \in DOMAIN local :
           local[q].set = Asked(Start(local, rows, q), local[q].at)
  <2>1. local # <<>>
    <3>1. Len(<<>>) = 0
      OBVIOUS
    <3>2. Len(local) = 1
      BY <1>1
    <3>3. ASSUME local = <<>> PROVE FALSE
      BY <3>1, <3>2, <3>3
    <3>4. QED
      BY <3>3
  <2>2. QED
    BY <2>1, Collecting
<1>3. 1 \in DOMAIN local
  BY <1>1, <1>2, LenProperties
<1>4. /\ local[1].hi = Na!EndOfBatch /\ Start(local, rows, 1) = rows
      /\ local[1].hi \in Nat /\ rows <= local[1].hi
  BY <1>1, <1>2, <1>3, SetPieceIs, PieceIs DEF Pieces, Start
<1>5. local[1].hi <= Len(file) /\ Len(file) \in Nat
  BY <1>4, FileIs, EndOfBatchIs DEF NamesInv
<1>6. distinct' = Asked(0, rows')
  <2>1. local[1].set = Asked(rows, rows') /\ distinct = Asked(0, rows)
    BY <1>1, <1>2, <1>3, <1>4 DEF NamesInv
  <2>2. Asked(0, rows') = Asked(0, rows) \cup Asked(rows, rows')
    BY <1>1, <1>2, <1>4, AskedParts
  <2>3. distinct' = distinct \cup local[1].set
    BY <1>1 DEF Na!Merged
  <2>4. QED
    BY <2>1, <2>2, <2>3
<1>7. \A a, b : Asked(a, b)' = Asked(a, b)
  BY <1>1 DEF Asked, Na!Components
<1>8. Asked(0, rows)' = Asked(0, rows')
  BY <1>1 DEF Asked, Na!Components
<1>9. CollectInv'
  BY <1>1, EmptySeq DEF CollectInv
<1>10. rows' \in 0 .. Len(file)
  BY <1>1, <1>4, <1>5
<1>11. scan = <<>> /\ requested = {}
  BY <1>2 DEF NamesInv
<1>12. QED
  BY <1>1, <1>2, <1>6, <1>8, <1>9, <1>10, <1>11 DEF NamesInv

-----------------------------------------------------------------------------
(* The ids wanted in a range of chunks.                                      *)

LEMMA MapPieceIs == \A e \in MapPiece : e.at \in Nat /\ e.hi \in Nat /\ e.id \in Nat
BY DEF MapPiece

LEMMA WantedAreIds ==
  ASSUME NEW c, NEW g
  PROVE  WantedIn(c, g) \in SUBSET Na!LabelId
BY DEF WantedIn

LEMMA WantedNone ==
  ASSUME NEW c \in Nat
  PROVE  WantedIn(c, Na!ChunkStart(c)) = {}
<1>1. Na!ChunkStart(c) \in Nat /\ \A f \in Na!LabelId : f \in Nat
  BY ChunksCover, ParametersTyped
<1>2. QED
  BY <1>1 DEF WantedIn

LEMMA WantedNext ==
  ASSUME NEW c \in Nat, NEW g \in Na!LabelId, Na!ChunkStart(c) <= g
  PROVE  WantedIn(c, g + 1) =
           IF Na!Wanted(g) THEN WantedIn(c, g) \cup {g} ELSE WantedIn(c, g)
<1>1. g \in Nat /\ \A f \in Na!LabelId : f \in Nat
  BY ParametersTyped
<1>2. \A f \in Na!LabelId : f < g + 1 <=> f < g \/ f = g
  BY <1>1
<1>3. \A f : f \in WantedIn(c, g + 1) <=>
               f \in WantedIn(c, g) \/ (f = g /\ Na!Wanted(g))
  BY <1>2 DEF WantedIn
<1>4. QED
  BY <1>3

LEMMA WantedJoin ==
  ASSUME NEW a \in Nat, NEW b \in Nat, a <= b, NEW g \in Nat, Na!ChunkStart(b) <= g
  PROVE  WantedIn(a, g) = WantedIn(a, Na!ChunkStart(b)) \cup WantedIn(b, g)
<1>1. PICK x \in Nat, y \in Nat : x = Na!ChunkStart(a) /\ y = Na!ChunkStart(b)
  BY ChunksCover
<1>2. x <= y /\ y <= g
  BY <1>1, StartsMonotone
<1>3. \A f \in Na!LabelId : f \in Nat
  BY ParametersTyped
<1>4. \A f \in Na!LabelId : (x <= f /\ f < g) <=> (x <= f /\ f < y) \/ (y <= f /\ f < g)
  BY <1>2, <1>3
<1>5. QED
  BY <1>1, <1>4 DEF WantedIn

\* No id lies between the end of a chunk and the start of the next.
LEMMA WantedToNext ==
  ASSUME NEW a \in Nat, NEW c \in Nat
  PROVE  WantedIn(a, Na!ChunkEnd(c)) = WantedIn(a, Na!ChunkStart(c + 1))
<1>1. PICK x \in Nat, y \in Nat : x = Na!ChunkEnd(c) /\ y = Na!ChunkStart(c + 1)
  <2>1. c + 1 \in Nat
    OBVIOUS
  <2>2. Na!ChunkStart(c + 1) \in Nat
    BY <2>1, ChunksCover
  <2>3. Na!ChunkEnd(c) \in Nat
    BY ChunkEndIs
  <2>4. QED
    BY <2>2, <2>3
<1>2. x <= y /\ (x = y \/ x = NLabels)
  BY <1>1, ChunkEndIs
<1>3. \A f \in Na!LabelId : f \in Nat /\ f < NLabels
  BY ParametersTyped
<1>4. \A f \in Na!LabelId : f < x <=> f < y
  BY <1>2, <1>3, ParametersTyped
<1>5. QED
  BY <1>1, <1>4 DEF WantedIn

\* Past the last chunk every wanted id has been seen.
LEMMA WantedAll ==
  WantedIn(0, Na!ChunkStart(Na!NChunks)) = {f \in Na!LabelId : Na!Wanted(f)}
<1>1. PICK x \in Nat : x = Na!ChunkStart(Na!NChunks)
  BY ChunksCover
<1>2. NLabels <= x /\ Na!ChunkStart(0) = 0
  BY <1>1, ChunksCover, ParametersTyped
<1>3. \A f \in Na!LabelId : f \in Nat /\ f < NLabels
  BY ParametersTyped
<1>4. \A f \in Na!LabelId : 0 <= f /\ f < x
  BY <1>2, <1>3, ParametersTyped
<1>5. QED
  BY <1>1, <1>2, <1>4 DEF WantedIn

-----------------------------------------------------------------------------
(* names, step 2.                                                            *)

\* What piece p has found.
Part(s, p) == WantedIn(Start(s, 0, p), s[p].id)

\* A step that leaves step 1 behind and replaces the pieces of step 2.
LEMMA NewScanKeepsNames ==
  ASSUME file \in Files, NamesInv, rows = Len(file), local' = <<>>, npc' = "scan",
         UNCHANGED <<file, columns, rows, distinct>>,
         scan' \in Seq(MapPiece), Pieces(scan', 0, Na!NChunks),
         \A p \in DOMAIN scan' : AtId(scan'[p]) /\ scan'[p].map = MapOf(Part(scan', p)),
         requested' = UNION {Part(scan', p) : p \in DOMAIN scan'}
  PROVE  NamesInv'
<1>1. \A a, b : Asked(a, b)' = Asked(a, b)
  BY DEF Asked, Na!Components
<1>2. \A c, g : WantedIn(c, g)' = WantedIn(c, g)
  BY DEF WantedIn, Na!Wanted
<1>3. ScanInv'
  BY <1>2 DEF ScanInv, Pieces, Start, Part
<1>4. CollectInv'
  BY EmptySeq DEF CollectInv
<1>5. QED
  BY <1>1, <1>3, <1>4 DEF NamesInv

LEMMA StartScanKeepsNames ==
  ASSUME file \in Files, NamesInv, Na!StartScan
  PROVE  NamesInv'
<1>1. /\ local = <<>> /\ rows = Len(file) /\ npc = "collect" /\ npc' = "scan"
      /\ UNCHANGED <<file, columns, rows, local, distinct, requested>>
  BY DEF Na!StartScan, Na!inputs
<1>2. PICK cuts, cut :
        /\ cuts \in Na!CutsOf(0, Na!NChunks)
        /\ cut = Na!Cut(0, Na!NChunks, cuts)
        /\ scan' = [p \in DOMAIN cut |->
                      [at |-> cut[p].at, hi |-> cut[p].hi,
                       id |-> Na!ChunkStart(cut[p].at), map |-> Na!EmptyMap]]
  BY DEF Na!StartScan
<1>3. Na!NChunks \in Nat /\ 0 <= Na!NChunks
  BY ChunksCover
<1>4. Covers(cut, 0, Na!NChunks)
  BY <1>2, <1>3, CutCovers
<1>5. ASSUME NEW p \in DOMAIN cut
      PROVE  /\ scan'[p] \in MapPiece /\ scan'[p].map = MapOf({})
             /\ scan'[p].at = cut[p].at /\ scan'[p].hi = cut[p].hi
             /\ scan'[p].id = Na!ChunkStart(cut[p].at)
  <2>1. PICK x \in Nat, y \in Nat : x = cut[p].at /\ y = cut[p].hi
    BY <1>4 DEF Covers
  <2>2. Na!ChunkStart(x) \in Nat /\ {} \in SUBSET Na!LabelId /\ Na!EmptyMap = MapOf({})
    BY ChunksCover, MapOfNone
  <2>3. scan'[p] = [at |-> x, hi |-> y, id |-> Na!ChunkStart(x), map |-> MapOf({})]
    BY <1>2, <2>1, <2>2
  <2>4. QED
    BY <2>1, <2>2, <2>3 DEF MapPiece
<1>6. scan' \in Seq(MapPiece) /\ DOMAIN scan' = DOMAIN cut
  <2>1. scan' \in [DOMAIN cut -> MapPiece]
    BY <1>2, <1>5
  <2>2. QED
    BY <1>4, <2>1, MadeSequence
<1>7. \A p \in DOMAIN cut : scan'[p].at = cut[p].at /\ scan'[p].hi = cut[p].hi
  BY <1>5
<1>8. /\ Pieces(scan', 0, Na!NChunks)
      /\ \A p \in DOMAIN scan' : scan'[p].at = Start(scan', 0, p)
  BY <1>4, <1>6, <1>7, MadePieces
<1>9. ASSUME NEW p \in DOMAIN scan'
      PROVE  AtId(scan'[p]) /\ Part(scan', p) = {}
  <2>1. PICK x : x = scan'[p]
    OBVIOUS
  <2>2. /\ x.at \in Nat /\ x.hi \in Nat /\ x.hi <= Na!NChunks
        /\ x.id = Na!ChunkStart(x.at)
    BY <1>5, <1>6, <1>8, <2>1, MapPieceIs DEF Pieces
  <2>3. Part(scan', p) = {}
    BY <1>8, <2>1, <2>2, WantedNone DEF Part
  <2>4. x.at < x.hi => Na!ChunkStart(x.at) < Na!ChunkEnd(x.at)
    BY <1>3, <2>2, ChunkEndIs
  <2>5. Na!ChunkStart(x.at) <= Na!ChunkStart(x.at)
    BY <2>2, StartsMonotone
  <2>6. QED
    BY <2>1, <2>2, <2>3, <2>4, <2>5 DEF AtId
<1>10. requested' = UNION {Part(scan', p) : p \in DOMAIN scan'}
  <2>1. requested' = {}
    BY <1>1 DEF NamesInv
  <2>2. QED
    BY <1>9, <2>1
<1>11. \A p \in DOMAIN scan' : AtId(scan'[p]) /\ scan'[p].map = MapOf(Part(scan', p))
  BY <1>5, <1>6, <1>9
<1>12. QED
  BY <1>1, <1>6, <1>8, <1>10, <1>11, NewScanKeepsNames

\* The scan has begun.
LEMMA Scanning ==
  ASSUME file \in Files, NamesInv, scan # <<>>
  PROVE  /\ npc = "scan" /\ rows = Len(file) /\ local = <<>>
         /\ scan \in Seq(MapPiece) /\ Pieces(scan, 0, Na!NChunks)
         /\ \A p \in DOMAIN scan : AtId(scan[p]) /\ scan[p].map = MapOf(Part(scan, p))
         /\ requested = UNION {Part(scan, p) : p \in DOMAIN scan}
<1>1. npc = "scan" /\ rows = Len(file) /\ CollectInv
  BY DEF NamesInv
<1>2. local = <<>>
  BY <1>1 DEF CollectInv
<1>3. ScanInv
  BY <1>1 DEF NamesInv
<1>4. QED
  BY <1>1, <1>2, <1>3 DEF ScanInv, Part

\* The id at hand is one of the ids, in the chunk at hand.
LEMMA ScanAt ==
  ASSUME NEW x \in MapPiece, AtId(x), x.at < x.hi, x.hi <= Na!NChunks
  PROVE  /\ x.id \in Na!LabelId /\ Na!ChunkStart(x.at) <= x.id
         /\ x.id + 1 <= Na!ChunkEnd(x.at)
<1>1. x.at \in Nat /\ x.hi \in Nat /\ x.id \in Nat
  BY MapPieceIs
<1>2. Na!ChunkStart(x.at) <= x.id /\ x.id < Na!ChunkEnd(x.at)
  BY DEF AtId
<1>3. Na!ChunkEnd(x.at) \in Nat /\ Na!ChunkEnd(x.at) <= NLabels
  BY <1>1, ChunkEndIs
<1>4. QED
  BY <1>1, <1>2, <1>3, ParametersTyped

\* Where a piece stands after one turn.
LEMMA ScanMoves ==
  ASSUME NEW x \in MapPiece, AtId(x), x.at < x.hi, x.hi <= Na!NChunks,
         NEW one, one.hi = x.hi,
         one.at = IF x.id + 1 >= Na!ChunkEnd(x.at) THEN x.at + 1 ELSE x.at,
         one.id = IF x.id + 1 >= Na!ChunkEnd(x.at)
                    THEN Na!ChunkStart(x.at + 1) ELSE x.id + 1
  PROVE  /\ one.at \in Nat /\ one.hi \in Nat /\ one.id \in Nat
         /\ x.at <= one.at /\ one.at <= one.hi /\ AtId(one)
         /\ \A a \in Nat : WantedIn(a, one.id) = WantedIn(a, x.id + 1)
<1>1. PICK at \in Nat, hi \in Nat, id \in Nat : at = x.at /\ hi = x.hi /\ id = x.id
  BY MapPieceIs
<1>2. PICK end \in Nat, next \in Nat : end = Na!ChunkEnd(at) /\ next = Na!ChunkStart(at + 1)
  <2>1. at + 1 \in Nat
    OBVIOUS
  <2>2. Na!ChunkStart(at + 1) \in Nat
    BY <2>1, ChunksCover
  <2>3. Na!ChunkEnd(at) \in Nat
    BY ChunkEndIs
  <2>4. QED
    BY <2>2, <2>3
<1>3. id + 1 <= end /\ Na!ChunkStart(at) <= id /\ at < hi /\ hi <= Na!NChunks
  BY <1>1, <1>2, ScanAt
<1>4. CASE id + 1 >= end
  <2>1. one.at = at + 1 /\ one.hi = hi /\ one.id = next /\ id + 1 = end
    BY <1>1, <1>2, <1>3, <1>4
  <2>2. one.at < one.hi => next < Na!ChunkEnd(at + 1)
    <3>1. at + 1 \in Nat /\ (at + 1 < hi => at + 1 < Na!NChunks)
      BY <1>3, ChunksCover
    <3>2. QED
      BY <1>2, <2>1, <3>1, ChunkEndIs
  <2>3. AtId(one)
    BY <1>2, <2>1, <2>2 DEF AtId
  <2>4. \A a \in Nat : WantedIn(a, next) = WantedIn(a, end)
    BY <1>2, WantedToNext
  <2>5. QED
    BY <1>1, <1>3, <2>1, <2>3, <2>4
<1>5. CASE ~(id + 1 >= end)
  <2>1. one.at = at /\ one.hi = hi /\ one.id = id + 1 /\ id + 1 < end
    BY <1>1, <1>2, <1>3, <1>5
  <2>2. Na!ChunkStart(at) \in Nat
    BY ChunksCover
  <2>3. AtId(one)
    BY <1>2, <1>3, <2>1, <2>2 DEF AtId
  <2>4. QED
    BY <1>1, <1>3, <2>1, <2>3
<1>6. QED
  BY <1>4, <1>5

LEMMA ScanIdKeepsNames ==
  ASSUME file \in Files, NamesInv, NEW p \in DOMAIN scan, Na!ScanId(p)
  PROVE  NamesInv'
<1>1. scan # <<>>
  OBVIOUS
<1>2. /\ npc = "scan" /\ rows = Len(file) /\ local = <<>>
      /\ scan \in Seq(MapPiece) /\ Pieces(scan, 0, Na!NChunks)
      /\ \A q \in DOMAIN scan : AtId(scan[q]) /\ scan[q].map = MapOf(Part(scan, q))
      /\ requested = UNION {Part(scan, q) : q \in DOMAIN scan}
  BY <1>1, Scanning
<1>3. PICK x : x = scan[p]
  OBVIOUS
<1>4. PICK from : from = Start(scan, 0, p)
  OBVIOUS
<1>5. /\ x \in MapPiece /\ AtId(x) /\ x.hi <= Na!NChunks /\ from \in Nat /\ from <= x.at
      /\ x.map = MapOf(WantedIn(from, x.id))
  <2>1. x \in MapPiece /\ x.hi <= Na!NChunks /\ from \in Nat /\ from <= x.at
    BY <1>2, <1>3, <1>4, MapPieceIs, PieceIs
  <2>2. QED
    BY <1>2, <1>3, <1>4, <2>1 DEF Part
<1>6. x.at < x.hi /\ UNCHANGED <<file, columns, npc, rows, local, distinct>>
  BY <1>3 DEF Na!ScanId, Na!inputs
<1>7. PICK f \in Na!LabelId : f = x.id /\ Na!ChunkStart(x.at) <= f
  BY <1>5, <1>6, ScanAt
<1>8. PICK end : end = Na!ChunkEnd(x.at)
  OBVIOUS
<1>9. PICK found : found = IF Na!Wanted(f) THEN Na!Extend(x.map, Na!Entry(f)) ELSE x.map
  OBVIOUS
<1>10. PICK one :
         one = [at |-> IF f + 1 >= end THEN x.at + 1 ELSE x.at, hi |-> x.hi,
                id |-> IF f + 1 >= end THEN Na!ChunkStart(x.at + 1) ELSE f + 1,
                map |-> found]
  OBVIOUS
<1>11. /\ one.at \in Nat /\ one.hi \in Nat /\ one.id \in Nat
       /\ x.at <= one.at /\ one.at <= one.hi /\ AtId(one) /\ one.hi = x.hi
       /\ WantedIn(from, one.id) = WantedIn(from, f + 1)
  <2>1. /\ one.hi = x.hi
        /\ one.at = IF x.id + 1 >= Na!ChunkEnd(x.at) THEN x.at + 1 ELSE x.at
        /\ one.id = IF x.id + 1 >= Na!ChunkEnd(x.at)
                      THEN Na!ChunkStart(x.at + 1) ELSE x.id + 1
    BY <1>7, <1>8, <1>10
  <2>2. QED
    BY <1>5, <1>6, <1>7, <2>1, ScanMoves
<1>12. WantedIn(from, f + 1) =
         IF Na!Wanted(f) THEN WantedIn(from, f) \cup {f} ELSE WantedIn(from, f)
  <2>1. Na!ChunkStart(from) <= Na!ChunkStart(x.at)
    BY <1>5, MapPieceIs, StartsMonotone
  <2>2. /\ Na!ChunkStart(from) \in Nat /\ Na!ChunkStart(x.at) \in Nat /\ f \in Nat
    BY <1>5, MapPieceIs, ChunksCover, ParametersTyped
  <2>3. Na!ChunkStart(from) <= f
    BY <1>7, <2>1, <2>2
  <2>4. QED
    BY <1>5, <2>3, WantedNext
<1>13. found = MapOf(WantedIn(from, one.id)) /\ one.map = found
  <2>1. CASE Na!Wanted(f)
    <3>1. Na!Extend(MapOf(WantedIn(from, f)), MapOf({f})) = MapOf(WantedIn(from, f) \cup {f})
      BY WantedAreIds, ExtendMapOf
    <3>2. found = Na!Extend(MapOf(WantedIn(from, f)), MapOf({f}))
      BY <1>5, <1>7, <1>9, <2>1, MapOfOne
    <3>3. QED
      BY <1>10, <1>11, <1>12, <2>1, <3>1, <3>2
  <2>2. CASE ~Na!Wanted(f)
    BY <1>5, <1>7, <1>9, <1>10, <1>11, <1>12, <2>2
  <2>3. QED
    BY <2>1, <2>2
<1>14. one \in MapPiece
  <2>1. found \in {MapOf(S) : S \in SUBSET Na!LabelId}
    BY <1>13, WantedAreIds
  <2>2. one = [at |-> one.at, hi |-> one.hi, id |-> one.id, map |-> found]
    BY <1>10
  <2>3. QED
    BY <1>11, <2>1, <2>2 DEF MapPiece
<1>15. /\ scan' \in [DOMAIN scan -> MapPiece] /\ scan'[p] = one
       /\ \A q \in DOMAIN scan : q # p => scan'[q] = scan[q]
  <2>1. scan \in [DOMAIN scan -> MapPiece]
    BY <1>2, LenProperties
  <2>2. scan' = [scan EXCEPT ![p].map = found, ![p].at = one.at, ![p].id = one.id]
    BY <1>3, <1>7, <1>8, <1>9, <1>10 DEF Na!ScanId
  <2>3. [x EXCEPT !.map = found, !.at = one.at, !.id = one.id] = one
    <3>1. PICK x1 : x1 = [x EXCEPT !.map = found]
      OBVIOUS
    <3>2. x1 = [at |-> x.at, hi |-> x.hi, id |-> x.id, map |-> found]
      BY <1>5, <3>1 DEF MapPiece
    <3>3. PICK x2 : x2 = [x1 EXCEPT !.at = one.at]
      OBVIOUS
    <3>4. x2 = [at |-> one.at, hi |-> x.hi, id |-> x.id, map |-> found]
      BY <3>2, <3>3
    <3>5. [x2 EXCEPT !.id = one.id] = [at |-> one.at, hi |-> x.hi, id |-> one.id, map |-> found]
      BY <3>4
    <3>6. QED
      BY <1>10, <3>1, <3>3, <3>5
  <2>4. scan' = [scan EXCEPT ![p] = one]
    BY <1>3, <2>1, <2>2, <2>3
  <2>5. QED
    BY <1>14, <2>1, <2>4
<1>16. /\ scan' \in Seq(MapPiece) /\ DOMAIN scan' = DOMAIN scan
       /\ Pieces(scan', 0, Na!NChunks)
       /\ \A q \in DOMAIN scan : Start(scan', 0, q) = Start(scan, 0, q)
  <2>1. scan' \in Seq(MapPiece) /\ DOMAIN scan' = DOMAIN scan
    <3>1. DOMAIN scan = 1 .. Len(scan) /\ Len(scan) \in Nat
      BY <1>2, LenProperties
    <3>2. QED
      BY <1>15, <3>1
  <2>2. scan'[p].hi = scan[p].hi /\ scan[p].at <= scan'[p].at /\ scan'[p].at <= scan'[p].hi
    BY <1>3, <1>11, <1>15
  <2>3. \A e \in MapPiece : e.at \in Nat /\ e.hi \in Nat
    BY MapPieceIs
  <2>4. \A q \in DOMAIN scan : scan'[q].hi = scan[q].hi
    BY <1>15, <2>2
  <2>5. \A q \in DOMAIN scan : Start(scan', 0, q) = Start(scan, 0, q)
    BY <1>2, <2>1, <2>4, SameStarts
  <2>6. Pieces(scan', 0, Na!NChunks)
    BY <1>2, <1>15, <2>1, <2>2, <2>3, AdvancePieces
  <2>7. QED
    BY <2>1, <2>5, <2>6
<1>17. /\ Part(scan', p) = WantedIn(from, one.id)
       /\ \A q \in DOMAIN scan : q # p => Part(scan', q) = Part(scan, q)
  BY <1>4, <1>15, <1>16 DEF Part
<1>18. ASSUME NEW q \in DOMAIN scan'
       PROVE  AtId(scan'[q]) /\ scan'[q].map = MapOf(Part(scan', q))
  BY <1>2, <1>11, <1>13, <1>15, <1>16, <1>17
<1>19. requested' = UNION {Part(scan', q) : q \in DOMAIN scan'}
  <2>1. requested' = IF Na!Wanted(f) THEN requested \cup {f} ELSE requested
    BY <1>3, <1>7 DEF Na!ScanId
  <2>2. /\ p \in DOMAIN scan' /\ p \in DOMAIN scan
        /\ Part(scan, p) = WantedIn(from, f)
        /\ Part(scan', p) = IF Na!Wanted(f) THEN Part(scan, p) \cup {f} ELSE Part(scan, p)
    BY <1>3, <1>4, <1>7, <1>11, <1>12, <1>16, <1>17 DEF Part
  <2>3. \A q \in DOMAIN scan' : q \in DOMAIN scan /\ (q # p => Part(scan', q) = Part(scan, q))
    BY <1>16, <1>17
  <2>4. QED
    BY <1>2, <1>16, <2>1, <2>2, <2>3
<1>20. QED
  BY <1>2, <1>6, <1>16, <1>18, <1>19, NewScanKeepsNames

LEMMA ReduceMapsKeepsNames ==
  ASSUME file \in Files, NamesInv, NEW p \in DOMAIN scan, Na!ReduceMaps(p)
  PROVE  NamesInv'
<1>1. scan # <<>>
  OBVIOUS
<1>2. /\ npc = "scan" /\ rows = Len(file) /\ local = <<>>
      /\ scan \in Seq(MapPiece) /\ Pieces(scan, 0, Na!NChunks)
      /\ \A q \in DOMAIN scan : AtId(scan[q]) /\ scan[q].map = MapOf(Part(scan, q))
      /\ requested = UNION {Part(scan, q) : q \in DOMAIN scan}
  BY <1>1, Scanning
<1>3. /\ UNCHANGED <<file, columns, npc, requested, rows, local, distinct>>
      /\ p < Len(scan) /\ scan[p].at = scan[p].hi
      /\ scan[p + 1].at = scan[p + 1].hi
  BY DEF Na!ReduceMaps, Na!Scanned, Na!inputs
<1>4. PICK l, r : l = scan[p] /\ r = scan[p + 1]
  OBVIOUS
<1>5. PICK from : from = Start(scan, 0, p)
  OBVIOUS
<1>6. /\ p + 1 \in DOMAIN scan /\ Start(scan, 0, p + 1) = l.hi
      /\ l \in MapPiece /\ l.hi \in Nat /\ from \in Nat /\ from <= l.hi
  <2>1. DOMAIN scan = 1 .. Len(scan) /\ Len(scan) \in Nat /\ 0 \in Nat
    BY <1>2, LenProperties
  <2>2. p + 1 \in DOMAIN scan /\ p + 1 # 1 /\ (p + 1) - 1 = p
    BY <1>3, <2>1
  <2>3. Start(scan, 0, p + 1) = l.hi
    BY <1>4, <2>2 DEF Start
  <2>4. l \in MapPiece
    BY <1>2, <1>4, ElementOfSeq, <2>1
  <2>5. /\ from \in Nat /\ l.at \in Nat /\ l.hi \in Nat
        /\ from <= l.at /\ l.at <= l.hi
    BY <1>2, <1>4, <1>5, <2>1, MapPieceIs, PieceIs
  <2>6. QED
    BY <2>2, <2>3, <2>4, <2>5
<1>7. r \in MapPiece /\ r.at \in Nat /\ r.id \in Nat /\ l.hi <= r.at
  BY <1>2, <1>4, <1>6, MapPieceIs, PieceIs
<1>8. l.id = Na!ChunkStart(l.hi) /\ r.id = Na!ChunkStart(r.hi)
  BY <1>2, <1>3, <1>4, <1>6 DEF AtId
<1>9. Na!ChunkStart(l.hi) <= r.id
  BY <1>3, <1>4, <1>6, <1>7, <1>8, StartsMonotone
<1>10. PICK S, T : S = Part(scan, p) /\ T = Part(scan, p + 1)
  OBVIOUS
<1>11. /\ S \in SUBSET Na!LabelId /\ T \in SUBSET Na!LabelId
       /\ l.map = MapOf(S) /\ r.map = MapOf(T)
       /\ S = WantedIn(from, Na!ChunkStart(l.hi)) /\ T = WantedIn(l.hi, r.id)
  BY <1>2, <1>4, <1>5, <1>6, <1>8, <1>10, WantedAreIds DEF Part
<1>12. WantedIn(from, r.id) = S \cup T
  BY <1>6, <1>7, <1>9, <1>11, WantedJoin
<1>13. PICK one : one = [at |-> r.at, hi |-> r.hi, id |-> r.id, map |-> MapOf(S \cup T)]
  OBVIOUS
<1>14. one \in MapPiece
  <2>1. S \cup T \in SUBSET Na!LabelId
    BY <1>11
  <2>2. r.hi \in Nat
    BY <1>7, MapPieceIs
  <2>3. QED
    BY <1>7, <1>13, <2>1, <2>2 DEF MapPiece
<1>15. scan' = Na!Joined(scan, p, one)
  <2>1. Na!Reduced(l.map, r.map) = MapOf(S \cup T)
    BY <1>11, ReducedMapOf
  <2>2. [r EXCEPT !.map = Na!Reduced(l.map, @)] = one
    BY <1>7, <1>13, <2>1 DEF MapPiece
  <2>3. QED
    BY <1>4, <2>2 DEF Na!ReduceMaps
<1>16. one.hi = scan[p + 1].hi /\ one.at = scan[p + 1].at
  BY <1>4, <1>13
<1>17. /\ scan' \in Seq(MapPiece) /\ p \in DOMAIN scan'
       /\ DOMAIN scan' = 1 .. Len(scan) - 1
       /\ Pieces(scan', 0, Na!NChunks)
       /\ scan'[p] = one /\ Start(scan', 0, p) = Start(scan, 0, p)
       /\ \A q \in DOMAIN scan' :
            /\ q < p => /\ q \in DOMAIN scan /\ scan'[q] = scan[q]
                        /\ Start(scan', 0, q) = Start(scan, 0, q)
            /\ q > p => /\ q + 1 \in DOMAIN scan /\ scan'[q] = scan[q + 1]
                        /\ Start(scan', 0, q) = Start(scan, 0, q + 1)
  <2>1. \A e \in MapPiece : e.at \in Nat /\ e.hi \in Nat
    BY MapPieceIs
  <2>2. PICK t, n, lo : t = Na!Joined(scan, p, one) /\ n = Na!NChunks /\ lo = 0
    OBVIOUS
  <2>3. /\ scan \in Seq(MapPiece) /\ Pieces(scan, lo, n) /\ lo \in Nat
        /\ p < Len(scan) /\ one \in MapPiece
        /\ one.hi = scan[p + 1].hi /\ one.at = scan[p + 1].at
    BY <1>2, <1>3, <1>14, <1>16, <2>2
  <2>4. t = Na!Joined(scan, p, one)
    BY <2>2
  <2>5. Joins(MapPiece, scan, lo, n, p, one, t)
    BY <2>1, <2>4, <2>3, JoinPieces
  <2>6. t \in Seq(MapPiece) /\ p \in DOMAIN t /\ t[p] = one
    BY <2>5 DEF Joins
  <2>7. Start(t, lo, p) = Start(scan, lo, p)
    BY <2>5 DEF Joins
  <2>8. DOMAIN t = 1 .. Len(scan) - 1
    <3>1. PICK len : len = Len(scan) - 1
      OBVIOUS
    <3>2. DOMAIN t = 1 .. len
      BY <2>2, <2>3, <3>1, JoinedIs
    <3>3. QED
      BY <3>1, <3>2
  <2>9. Pieces(t, lo, n)
    BY <2>5 DEF Joins
  <2>10. ASSUME NEW q \in DOMAIN t
        PROVE  /\ q < p => /\ q \in DOMAIN scan /\ t[q] = scan[q]
                           /\ Start(t, lo, q) = Start(scan, lo, q)
               /\ q > p => /\ q + 1 \in DOMAIN scan /\ t[q] = scan[q + 1]
                           /\ Start(t, lo, q) = Start(scan, lo, q + 1)
    BY <2>5 DEF Joins
  <2>11. scan' = t
    BY <1>15, <2>2
  <2>12. QED
    BY <2>2, <2>6, <2>7, <2>8, <2>9, <2>10, <2>11
<1>18. /\ Part(scan', p) = S \cup T
       /\ \A q \in DOMAIN scan' : q < p => Part(scan', q) = Part(scan, q)
       /\ \A q \in DOMAIN scan' : q > p => Part(scan', q) = Part(scan, q + 1)
  BY <1>5, <1>12, <1>13, <1>17 DEF Part
<1>19. /\ DOMAIN scan = 1 .. Len(scan) /\ Len(scan) \in Nat /\ p \in Nat
       /\ \A q \in DOMAIN scan' : q \in Nat
  BY <1>2, <1>17, LenProperties
<1>20. ASSUME NEW q \in DOMAIN scan'
       PROVE  AtId(scan'[q]) /\ scan'[q].map = MapOf(Part(scan', q))
  <2>1. CASE q < p
    BY <1>2, <1>17, <1>18, <2>1
  <2>2. CASE q = p
    <3>1. ~(one.at < one.hi) /\ one.id = Na!ChunkStart(one.hi)
      BY <1>3, <1>4, <1>7, <1>8, <1>13
    <3>2. AtId(one)
      BY <3>1 DEF AtId
    <3>3. scan'[q] = one /\ Part(scan', q) = S \cup T
      BY <1>17, <1>18, <2>2
    <3>4. one.map = MapOf(S \cup T)
      BY <1>13
    <3>5. QED
      BY <3>2, <3>3, <3>4
  <2>3. CASE q > p
    BY <1>2, <1>17, <1>18, <2>3
  <2>4. QED
    BY <1>19, <2>1, <2>2, <2>3
<1>21. requested' = UNION {Part(scan', q) : q \in DOMAIN scan'}
  <2>1. PICK U : U = UNION {Part(scan', q) : q \in DOMAIN scan'}
    OBVIOUS
  <2>2. ASSUME NEW f \in U PROVE f \in requested
    <3>1. PICK q \in DOMAIN scan' : f \in Part(scan', q)
      BY <2>1, <2>2
    <3>2. CASE q < p
      BY <1>2, <1>17, <1>18, <3>1, <3>2
    <3>3. CASE q = p
      BY <1>2, <1>6, <1>10, <1>18, <3>1, <3>3
    <3>4. CASE q > p
      BY <1>2, <1>17, <1>18, <3>1, <3>4
    <3>5. QED
      BY <1>19, <3>1, <3>2, <3>3, <3>4
  <2>3. ASSUME NEW f \in requested PROVE f \in U
    <3>1. PICK q \in DOMAIN scan : f \in Part(scan, q)
      BY <1>2, <2>3
    <3>2. CASE q < p
      <4>1. q \in DOMAIN scan'
        BY <1>3, <1>17, <1>19, <3>2
      <4>2. QED
        BY <1>18, <2>1, <3>1, <3>2, <4>1
    <3>3. CASE q = p \/ q = p + 1
      <4>1. f \in S \cup T
        BY <1>10, <3>1, <3>3
      <4>2. QED
        BY <1>17, <1>18, <2>1, <4>1
    <3>4. CASE q > p + 1
      <4>1. q - 1 \in DOMAIN scan' /\ q - 1 > p /\ (q - 1) + 1 = q
        BY <1>3, <1>17, <1>19, <3>4
      <4>2. QED
        BY <1>18, <2>1, <3>1, <4>1
    <3>5. QED
      BY <1>19, <3>2, <3>3, <3>4
  <2>4. QED
    BY <1>3, <2>1, <2>2, <2>3
<1>22. QED
  BY <1>2, <1>3, <1>17, <1>20, <1>21, NewScanKeepsNames

-----------------------------------------------------------------------------
(* names as a whole.                                                         *)

LEMMA NamesKept ==
  ASSUME file \in Files, NamesInv, Na!Next
  PROVE  NamesInv'
<1>1. \/ Na!OpenFile \/ Na!ReadBatch \/ Na!ReadFails \/ Na!MergeBatch \/ Na!StartScan
      \/ \E p \in DOMAIN local : Na!CollectRow(p) \/ Na!ReduceSets(p)
      \/ \E p \in DOMAIN scan : Na!ScanId(p) \/ Na!ReduceMaps(p)
  BY DEF Na!Next
<1>2. CASE Na!OpenFile
  BY <1>2, OpenFileKeepsNames
<1>3. CASE Na!ReadBatch
  BY <1>3, ReadBatchKeepsNames
<1>4. CASE Na!ReadFails
  BY <1>4, ReadFailsKeepsNames
<1>5. CASE Na!MergeBatch
  BY <1>5, MergeBatchKeepsNames
<1>6. CASE Na!StartScan
  BY <1>6, StartScanKeepsNames
<1>7. CASE \E p \in DOMAIN local : Na!CollectRow(p) \/ Na!ReduceSets(p)
  BY <1>7, CollectRowKeepsNames, ReduceSetsKeepsNames
<1>8. CASE \E p \in DOMAIN scan : Na!ScanId(p) \/ Na!ReduceMaps(p)
  BY <1>8, ScanIdKeepsNames, ReduceMapsKeepsNames
<1>9. QED
  BY <1>1, <1>2, <1>3, <1>4, <1>5, <1>6, <1>7, <1>8

LEMMA NamesKeepsInput ==
  ASSUME Na!Next
  PROVE  file' = file /\ columns' = columns
BY DEF Na!Next, Na!OpenFile, Na!ReadBatch, Na!ReadFails, Na!MergeBatch, Na!StartScan,
       Na!CollectRow, Na!ReduceSets, Na!ScanId, Na!ReduceMaps, Na!inputs

\* The ids in the map of a piece are what the piece has found.
LEMMA PartIds ==
  ASSUME file \in Files, NamesInv, NEW p \in DOMAIN scan
  PROVE  /\ DOMAIN scan[p].map \subseteq Name
         /\ \A n \in DOMAIN scan[p].map : scan[p].map[n] \in Na!LabelId
         /\ {scan[p].map[n] : n \in DOMAIN scan[p].map} = Part(scan, p)
<1>1. scan # <<>>
  OBVIOUS
<1>2. scan[p].map = MapOf(Part(scan, p))
  BY <1>1, Scanning
<1>3. PICK S \in SUBSET Na!LabelId : S = Part(scan, p)
  BY WantedAreIds DEF Part
<1>4. DOMAIN MapOf(S) = {LabelName[f] : f \in S}
  BY MapOfIs
<1>5. \A n \in DOMAIN MapOf(S) : MapOf(S)[n] \in S
  BY MapOfIs
<1>6. {MapOf(S)[n] : n \in DOMAIN MapOf(S)} = S
  BY MapOfIs
<1>7. \A f \in S : LabelName[f] \in Name
  BY ParametersTyped
<1>8. DOMAIN MapOf(S) \subseteq Name
  BY <1>4, <1>7
<1>9. QED
  BY <1>2, <1>3, <1>5, <1>6, <1>8

LEMMA NamesTyped ==
  ASSUME file \in Files, NamesInv
  PROVE  Na!TypeOK
<1>1. /\ npc \in {"open", "collect", "scan", "failed"} /\ rows \in 0 .. Len(file)
      /\ distinct = Asked(0, rows)
  BY DEF NamesInv
<1>2. distinct \subseteq Name
  <2>1. rows \in Nat /\ rows <= Len(file) /\ 0 \in Nat
    BY <1>1
  <2>2. QED
    BY <1>1, <2>1, AskedNames
<1>3. ASSUME NEW p \in DOMAIN local
      PROVE  local[p].at \in rows .. local[p].hi /\ local[p].hi <= Len(file)
  <2>1. local # <<>>
    OBVIOUS
  <2>2. local \in Seq(SetPiece) /\ Pieces(local, rows, Na!EndOfBatch) /\ rows \in Nat
    BY <2>1, Collecting
  <2>3. /\ local[p].at \in Nat /\ local[p].hi \in Nat /\ Start(local, rows, p) \in Nat
        /\ rows <= Start(local, rows, p) /\ Start(local, rows, p) <= local[p].at
        /\ local[p].at <= local[p].hi /\ local[p].hi <= Na!EndOfBatch
    BY <2>2, SetPieceIs, PieceIs
  <2>4. Na!EndOfBatch \in Nat /\ Na!EndOfBatch <= Len(file) /\ Len(file) \in Nat
    BY <1>1, EndOfBatchIs, FileIs
  <2>5. QED
    BY <2>2, <2>3, <2>4
<1>4. requested \subseteq Na!LabelId
  <2>1. CASE scan = <<>>
    <3>1. npc # "scan"
      BY <2>1 DEF NamesInv, ScanInv, Pieces
    <3>2. QED
      BY <3>1 DEF NamesInv
  <2>2. CASE scan # <<>>
    <3>1. requested = UNION {Part(scan, q) : q \in DOMAIN scan}
      BY <2>2, Scanning
    <3>2. \A q : Part(scan, q) \subseteq Na!LabelId
      BY WantedAreIds DEF Part
    <3>3. QED
      BY <3>1, <3>2
  <2>3. QED
    BY <2>1, <2>2
<1>5. ASSUME NEW p \in DOMAIN scan
      PROVE  scan[p].at \in 0 .. scan[p].hi /\ scan[p].hi <= Na!NChunks
  <2>1. scan # <<>> /\ 0 \in Nat
    OBVIOUS
  <2>2. scan \in Seq(MapPiece) /\ Pieces(scan, 0, Na!NChunks)
    BY <2>1, Scanning
  <2>3. /\ scan[p].at \in Nat /\ scan[p].hi \in Nat
        /\ scan[p].at <= scan[p].hi /\ scan[p].hi <= Na!NChunks
    BY <2>1, <2>2, MapPieceIs, PieceIs
  <2>4. QED
    BY <2>3
<1>6. \A p \in DOMAIN scan : \A n \in DOMAIN scan[p].map :
        n \in Name /\ scan[p].map[n] \in Na!LabelId
  BY PartIds
<1>7. QED
  BY <1>1, <1>2, <1>3, <1>4, <1>5, <1>6 DEF Na!TypeOK

LEMMA NamesMatch ==
  ASSUME file \in Files, NamesInv
  PROVE  Na!RequestedMatchesMap
<1>1. PICK U : U = UNION {{scan[p].map[n] : n \in DOMAIN scan[p].map} : p \in DOMAIN scan}
  OBVIOUS
<1>2. U = UNION {Part(scan, p) : p \in DOMAIN scan}
  BY <1>1, PartIds
<1>3. requested = U
  <2>1. CASE scan = <<>>
    <3>1. npc # "scan"
      BY <2>1 DEF NamesInv, ScanInv, Pieces
    <3>2. requested = {}
      BY <3>1 DEF NamesInv
    <3>3. DOMAIN scan = {}
      BY <2>1, EmptySeq
    <3>4. QED
      BY <1>2, <3>2, <3>3
  <2>2. CASE scan # <<>>
    BY <1>2, <2>2, Scanning
  <2>3. QED
    BY <2>1, <2>2
<1>4. QED
  BY <1>1, <1>3 DEF Na!RequestedMatchesMap

LEMMA NamesThrough ==
  ASSUME file \in Files, NamesInv, Na!Done
  PROVE  /\ npc = "scan" /\ rows = Len(file) /\ local = <<>>
         /\ Na!ComponentFid = MapOf(AskedIds) /\ requested = AskedIds
<1>1. npc = "scan" /\ Len(scan) = 1 /\ scan[1].at = scan[1].hi
  BY DEF Na!Done, Na!Scanned
<1>2. scan # <<>>
  BY <1>1 DEF NamesInv, ScanInv, Pieces
<1>3. /\ npc = "scan" /\ rows = Len(file) /\ local = <<>>
      /\ scan \in Seq(MapPiece) /\ Pieces(scan, 0, Na!NChunks)
      /\ \A q \in DOMAIN scan : AtId(scan[q]) /\ scan[q].map = MapOf(Part(scan, q))
      /\ requested = UNION {Part(scan, q) : q \in DOMAIN scan}
  BY <1>2, Scanning
<1>4. DOMAIN scan = {1}
  BY <1>1, <1>3, LenProperties
<1>5. scan[1].hi = Na!NChunks
  BY <1>1, <1>3 DEF Pieces
<1>6. scan[1].id = Na!ChunkStart(Na!NChunks)
  BY <1>1, <1>3, <1>4, <1>5 DEF AtId
<1>7. Part(scan, 1) = {f \in Na!LabelId : Na!Wanted(f)}
  BY <1>6, WantedAll DEF Part, Start
<1>8. distinct = Asked(0, Len(file))
  BY <1>3 DEF NamesInv
<1>9. Part(scan, 1) = AskedIds
  BY <1>7, <1>8 DEF AskedIds, Na!Wanted
<1>10. scan[1].map = MapOf(AskedIds) /\ requested = AskedIds
  BY <1>3, <1>4, <1>9
<1>11. QED
  BY <1>3, <1>10 DEF Na!ComponentFid

LEMMA AskedByRows ==
  ASSUME file \in Files
  PROVE  Asked(0, Len(file)) = UNION {Na!Components(r) : r \in DOMAIN file}
<1>1. 0 + 1 .. Len(file) = DOMAIN file
  BY FileIs
<1>2. QED
  BY <1>1 DEF Asked

LEMMA NamesAreExact ==
  ASSUME file \in Files, NamesInv
  PROVE  Na!NamesExact
<1> SUFFICES ASSUME Na!Done PROVE Na!NamesExact
  BY DEF Na!NamesExact
<1>1. Na!ComponentFid = MapOf(AskedIds)
  BY NamesThrough
<1>2. PICK asked : asked = UNION {Na!Components(r) : r \in DOMAIN file}
  OBVIOUS
<1>3. AskedIds = {f \in Na!LabelId : LabelName[f] \in asked}
  BY <1>2, AskedByRows DEF AskedIds
<1>4. QED
  BY <1>1, <1>2, <1>3 DEF Na!NamesExact, MapOf

-----------------------------------------------------------------------------
(* What seeds finds for one row.                                             *)

\* traverse works on the graph of the pipeline: what its proofs assume is so.
LEMMA SameGraph ==
  TP!Node = Node /\ TP!Directory = Directory /\ TP!NodeTypes = NodeTypes
BY DEF TP!Node, Node, TP!Directory, Directory, TP!IsDir, IsDir, TP!NodeTypes, NodeTypes

LEMMA HasLeast ==
  ASSUME NEW T \in SUBSET Nat, T # {}
  PROVE  \E m \in T : \A n \in T : m <= n
BY TP!LeastOf, GraphAssumption, LabelAssumption, SameGraph

LEMMA Induction ==
  ASSUME NEW S, 0 \in S, \A n \in Nat : n \in S => n + 1 \in S
  PROVE  \A n \in Nat : n \in S
BY TP!InductionInSet, GraphAssumption, LabelAssumption, SameGraph

LEMMA SeedsParameters ==
  /\ BatchRows \in Nat \ {0}
  /\ \A k \in DOMAIN NodeOfRev : NodeOfRev[k] \in Node
BY PipelineAssumption DEF Se!SeedsAssumption, Se!Node, Node

LEMMA RootIs ==
  ASSUME NEW k
  PROVE  Se!RootOf(k) \in Se!Root
<1>1. Se!RootMissing \in Se!Root
  BY DEF Se!Root
<1>2. ASSUME NEW n \in Node
      PROVE  Se!FirstDirectory(n) \in Se!Root
  <2>1. Succ[n] \in Seq(Node)
    BY GraphAssumption
  <2>2. \A j \in DOMAIN Succ[n] : j \in Nat /\ Succ[n][j] \in Node
    BY <2>1, LenProperties, ElementOfSeq
  <2>3. DOMAIN Succ[n] = 1 .. Len(Succ[n]) /\ Len(Succ[n]) \in Nat
    BY <2>1, LenProperties
  <2>4. CASE \A j \in DOMAIN Succ[n] : ~Se!IsDir(Succ[n][j])
    BY <1>1, <2>4 DEF Se!FirstDirectory
  <2>5. CASE \E j \in DOMAIN Succ[n] : Se!IsDir(Succ[n][j])
    <3>1. PICK T : T = {j \in DOMAIN Succ[n] : Se!IsDir(Succ[n][j])}
      OBVIOUS
    <3>2. T \in SUBSET Nat /\ T # {}
      BY <2>2, <2>5, <3>1
    <3>3. PICK m \in T : \A j \in T : m <= j
      BY <3>2, HasLeast
    <3>4. \A h \in 1 .. m - 1 : ~Se!IsDir(Succ[n][h])
      <4> SUFFICES ASSUME NEW h \in 1 .. m - 1 PROVE ~Se!IsDir(Succ[n][h])
        OBVIOUS
      <4>1. m \in DOMAIN Succ[n] /\ m \in Nat
        BY <2>2, <3>1, <3>3
      <4>2. h \in DOMAIN Succ[n] /\ ~(m <= h)
        BY <2>3, <4>1
      <4>3. h \notin T
        BY <3>3, <4>2
      <4>4. QED
        BY <3>1, <4>2, <4>3
    <3>5. PICK j : j = CHOOSE q \in DOMAIN Succ[n] :
                         Se!IsDir(Succ[n][q]) /\ \A h \in 1 .. q - 1 : ~Se!IsDir(Succ[n][h])
      OBVIOUS
    <3>6. j \in DOMAIN Succ[n] /\ Se!IsDir(Succ[n][j])
      BY <3>1, <3>3, <3>4, <3>5
    <3>7. Se!FirstDirectory(n) = Succ[n][j]
      BY <2>5, <3>5 DEF Se!FirstDirectory
    <3>8. Succ[n][j] \in Se!Directory
      BY <2>2, <3>6 DEF Se!Directory, Se!Node, Node
    <3>9. QED
      BY <3>7, <3>8 DEF Se!Root
  <2>6. QED
    BY <2>4, <2>5
<1>3. QED
  BY <1>1, <1>2, SeedsParameters DEF Se!RootOf

LEMMA RowIs ==
  ASSUME file \in Files, component_fid = MapOf(AskedIds), NEW r \in DOMAIN file
  PROVE  /\ RowRight(r).root \in Se!Root
         /\ RowRight(r).fids \in Seq(FidOrMissing)
         /\ RowRight(r).bin \in 0 .. Se!MaxBin
         /\ RowRight(r) = [root |-> RowRight(r).root, fids |-> RowRight(r).fids,
                           bin |-> RowRight(r).bin]
<1>1. RowRight(r).root \in Se!Root
  BY RootIs DEF RowRight, Se!RowOut
<1>2. RowRight(r).bin \in 0 .. Se!MaxBin
  <2>1. 0 \in 0 .. Se!MaxBin
    BY DEF Se!MaxBin
  <2>2. QED
    BY <2>1 DEF RowRight, Se!RowOut, Se!ParseBin
<1>3. ASSUME NEW c
      PROVE  Se!FidOf(c) \in FidOrMissing
  <2>1. AskedIds \in SUBSET Na!LabelId
    BY DEF AskedIds
  <2>2. \A n \in DOMAIN component_fid : component_fid[n] \in Na!LabelId
    BY <2>1, MapOfIs
  <2>3. QED
    BY <2>2 DEF Se!FidOf, FidOrMissing
<1>4. RowRight(r).fids = [c \in DOMAIN file[r].comps |-> Se!FidOf(file[r].comps[c])]
  BY DEF RowRight, Se!RowOut
<1>5. PICK l \in Nat : DOMAIN file[r].comps = 1 .. l
  BY FileIs, LenProperties
<1>6. RowRight(r).fids \in [1 .. l -> FidOrMissing]
  BY <1>3, <1>4, <1>5
<1>7. RowRight(r).fids \in Seq(FidOrMissing)
  BY <1>5, <1>6
<1>8. QED
  BY <1>1, <1>2, <1>7 DEF RowRight, Se!RowOut

\* What is left of a sequence is there after more is appended.
LEMMA PartOfConcat ==
  ASSUME NEW S, NEW s \in Seq(S), NEW g \in Seq(S),
         NEW a \in Nat, NEW b \in Nat, a <= b, b <= Len(s)
  PROVE  SubSeq(s \o g, a + 1, b) = SubSeq(s, a + 1, b)
<1>1. Len(s) \in Nat
  BY LenProperties
<1>2. CASE a = b
  <2>1. a + 1 \in Int /\ b \in Int /\ b < a + 1
    BY <1>2
  <2>2. SubSeq(s \o g, a + 1, b) = <<>> /\ SubSeq(s, a + 1, b) = <<>>
    BY <2>1, SubSeqEmpty
  <2>3. QED
    BY <2>2
<1>3. CASE a < b
  <2>1. a + 1 \in 1 .. Len(s) /\ b \in 1 .. Len(s)
    BY <1>1, <1>3
  <2>2. QED
    BY <2>1, SubSeqOfConcat1
<1>4. QED
  BY <1>2, <1>3

\* What was appended is the rest.
LEMMA RestOfConcat ==
  ASSUME NEW S, NEW s \in Seq(S), NEW g \in Seq(S)
  PROVE  SubSeq(s \o g, Len(s) + 1, Len(s) + Len(g)) = g
<1>1. PICK m \in Nat, k \in Nat : m = Len(s) /\ k = Len(g)
  BY LenProperties
<1>2. PICK c : c = s \o g
  OBVIOUS
<1>3. /\ \A j \in 1 .. m + k : c[j] = IF j <= m THEN s[j] ELSE g[j - m]
  BY <1>1, <1>2, ConcatProperties
<1>4. \A j \in m + 1 .. m + k : j \in 1 .. m + k /\ ~(j <= m) /\ j - m \in 1 .. Len(g)
  BY <1>1
<1>5. \A j \in 1 .. Len(g) : g[j] \in S
  BY ElementOfSeq
<1>6. \A j \in m + 1 .. m + k : c[j] \in S
  BY <1>3, <1>4, <1>5
<1>7. m + 1 \in Int /\ m + k \in Int
  OBVIOUS
<1>8. PICK r : r = SubSeq(c, m + 1, m + k)
  OBVIOUS
<1>9. /\ r \in Seq(S) /\ Len(r) = IF m + 1 <= m + k THEN (m + k) - (m + 1) + 1 ELSE 0
      /\ \A j \in 1 .. (m + k) - (m + 1) + 1 : r[j] = c[(m + 1) + j - 1]
  BY <1>6, <1>7, <1>8, SubSeqProperties
<1>10. Len(r) = Len(g)
  BY <1>1, <1>9
<1>11. ASSUME NEW j \in 1 .. Len(r) PROVE r[j] = g[j]
  <2>1. j \in 1 .. (m + k) - (m + 1) + 1 /\ (m + 1) + j - 1 = m + j
    BY <1>1, <1>10
  <2>2. m + j \in 1 .. m + k /\ ~(m + j <= m) /\ (m + j) - m = j
    BY <1>1, <1>10
  <2>3. QED
    BY <1>3, <1>9, <2>1, <2>2
<1>12. r = g
  BY <1>9, <1>10, <1>11, SeqEqual
<1>13. QED
  BY <1>1, <1>2, <1>8, <1>12

LEMMA SeedsFields ==
  ASSUME NEW s \in SeedsRecord
  PROVE  /\ s.root \in Seq(Se!Root) /\ s.path_off \in Seq(Nat)
         /\ s.path_fids \in Seq(FidOrMissing) /\ s.bin \in Seq(0 .. Se!MaxBin)
BY DEF SeedsRecord

LEMMA AppendIs ==
  ASSUME NEW S, NEW s \in Seq(S), NEW e \in S, NEW n, n = Len(s),
         NEW t, t = Append(s, e)
  PROVE  /\ t \in Seq(S) /\ Len(t) = n + 1
         /\ \A r \in 1 .. n : t[r] = s[r]
         /\ t[n + 1] = e
<1>1. t \in Seq(S) /\ Len(t) = Len(s) + 1 /\ t[Len(s) + 1] = e
  BY AppendProperties
<1>2. \A r \in 1 .. Len(s) : t[r] = s[r]
  BY AppendProperties
<1>3. QED
  BY <1>1, <1>2

LEMMA PushDescribes ==
  ASSUME file \in Files, component_fid = MapOf(AskedIds),
         NEW n \in Nat, n + 1 \in DOMAIN file, NEW s, Describes(s, n),
         NEW t, t = Se!Push(s, RowRight(n + 1))
  PROVE  Describes(t, n + 1)
<1>1. PICK row : row = RowRight(n + 1)
  OBVIOUS
<1>2. PICK x, g, y : x = row.root /\ g = row.fids /\ y = row.bin
  OBVIOUS
<1>3. PICK roots, offs, fids, bins :
        roots = s.root /\ offs = s.path_off /\ fids = s.path_fids /\ bins = s.bin
  OBVIOUS
<1>4. /\ x \in Se!Root /\ g \in Seq(FidOrMissing) /\ y \in 0 .. Se!MaxBin
      /\ row = [root |-> x, fids |-> g, bin |-> y]
      /\ roots \in Seq(Se!Root) /\ offs \in Seq(Nat) /\ fids \in Seq(FidOrMissing)
      /\ bins \in Seq(0 .. Se!MaxBin)
  <2>1. /\ x \in Se!Root /\ g \in Seq(FidOrMissing) /\ y \in 0 .. Se!MaxBin
        /\ row = [root |-> x, fids |-> g, bin |-> y]
    BY <1>1, <1>2, RowIs
  <2>2. s \in SeedsRecord
    BY DEF Describes
  <2>3. QED
    BY <1>3, <2>1, <2>2, SeedsFields
<1>5. PICK m \in Nat, k \in Nat : m = Len(fids) /\ k = Len(g)
  BY <1>4, LenProperties
<1>6. /\ Len(roots) = n /\ Len(bins) = n /\ Len(offs) = n + 1 /\ offs[n + 1] = m
      /\ \A r \in 1 .. n : offs[r] <= offs[r + 1]
      /\ \A r \in 1 .. n + 1 : offs[r] <= m
  BY <1>3, <1>5 DEF Describes
<1>7. /\ t.root = Append(roots, x) /\ t.bin = Append(bins, y)
      /\ t.path_fids = fids \o g
      /\ t.path_off = Append(offs, Len(fids \o g))
      /\ t = [root |-> t.root, path_off |-> t.path_off, path_fids |-> t.path_fids,
              bin |-> t.bin]
  BY <1>1, <1>2, <1>3 DEF Se!Push
<1>8. fids \o g \in Seq(FidOrMissing) /\ Len(fids \o g) = m + k
  BY <1>4, <1>5, ConcatProperties
<1>9. /\ t.path_off \in Seq(Nat) /\ Len(t.path_off) = n + 2
      /\ \A r \in 1 .. n + 1 : t.path_off[r] = offs[r]
      /\ t.path_off[n + 2] = m + k
  <2>1. PICK o, v, w : o = Append(offs, v) /\ v = m + k /\ w = n + 1
    OBVIOUS
  <2>2. v \in Nat /\ w = Len(offs) /\ w + 1 = n + 2
    BY <1>6, <2>1
  <2>3. o = Append(offs, v)
    BY <2>1
  <2>4. /\ o \in Seq(Nat) /\ Len(o) = w + 1
        /\ \A r \in 1 .. w : o[r] = offs[r]
        /\ o[w + 1] = v
    BY <1>4, <2>2, <2>3, AppendIs
  <2>5. t.path_off = o
    BY <1>7, <1>8, <2>1
  <2>6. QED
    BY <2>1, <2>2, <2>4, <2>5
<1>10. /\ t.root \in Seq(Se!Root) /\ Len(t.root) = n + 1
       /\ \A r \in 1 .. n : t.root[r] = roots[r]
       /\ t.root[n + 1] = x
  <2>1. PICK o : o = Append(roots, x)
    OBVIOUS
  <2>2. /\ o \in Seq(Se!Root) /\ Len(o) = n + 1
        /\ \A r \in 1 .. n : o[r] = roots[r]
        /\ o[n + 1] = x
    BY <1>4, <1>6, <2>1, AppendIs
  <2>3. QED
    BY <1>7, <2>1, <2>2
<1>11. /\ t.bin \in Seq(0 .. Se!MaxBin) /\ Len(t.bin) = n + 1
       /\ \A r \in 1 .. n : t.bin[r] = bins[r]
       /\ t.bin[n + 1] = y
  <2>1. PICK o, B : o = Append(bins, y) /\ B = 0 .. Se!MaxBin
    OBVIOUS
  <2>2. /\ o \in Seq(B) /\ Len(o) = n + 1
        /\ \A r \in 1 .. n : o[r] = bins[r]
        /\ o[n + 1] = y
    BY <1>4, <1>6, <2>1, AppendIs
  <2>3. QED
    BY <1>7, <2>1, <2>2
<1>12. t \in SeedsRecord
  BY <1>7, <1>8, <1>9, <1>10, <1>11 DEF SeedsRecord
<1>13. \A r \in 1 .. n + 1 : offs[r] \in Nat
  BY <1>4, <1>6, ElementOfSeq
<1>14. ASSUME NEW r \in 1 .. n + 1
       PROVE  t.path_off[r] <= t.path_off[r + 1]
  <2>1. CASE r <= n
    <3>1. r \in 1 .. n /\ r + 1 \in 1 .. n + 1
      BY <2>1
    <3>2. QED
      BY <1>6, <1>9, <3>1
  <2>2. CASE r = n + 1
    <3>1. t.path_off[r] = m /\ t.path_off[r + 1] = m + k
      BY <1>6, <1>9, <2>2
    <3>2. QED
      BY <3>1
  <2>3. QED
    BY <2>1, <2>2
<1>15. ASSUME NEW r \in 1 .. n + 2
       PROVE  t.path_off[r] <= Len(t.path_fids)
  <2>1. Len(t.path_fids) = m + k
    BY <1>7, <1>8
  <2>2. CASE r \in 1 .. n + 1
    <3>1. offs[r] \in Nat /\ offs[r] <= m /\ t.path_off[r] = offs[r]
      BY <1>6, <1>9, <1>13, <2>2
    <3>2. PICK v \in Nat, e \in Nat : v = offs[r] /\ e = t.path_off[r] /\ v <= m /\ e = v
      BY <3>1
    <3>3. v <= m + k
      BY <3>2
    <3>4. QED
      BY <2>1, <3>2, <3>3
  <2>3. CASE r = n + 2
    <3>1. t.path_off[r] = m + k
      BY <1>9, <2>3
    <3>2. QED
      BY <2>1, <3>1
  <2>4. QED
    BY <2>2, <2>3
<1>16. ASSUME NEW r \in 1 .. n + 1
       PROVE  [root |-> t.root[r],
               fids |-> SubSeq(t.path_fids, t.path_off[r] + 1, t.path_off[r + 1]),
               bin |-> t.bin[r]] = RowRight(r)
  <2>1. CASE r <= n
    <3>1. r \in 1 .. n /\ r + 1 \in 1 .. n + 1
      BY <2>1
    <3>2. PICK a \in Nat, b \in Nat : a = offs[r] /\ b = offs[r + 1]
      BY <1>13, <3>1
    <3>3. a <= b /\ b <= Len(fids)
      BY <1>5, <1>6, <3>1, <3>2
    <3>4. SubSeq(fids \o g, a + 1, b) = SubSeq(fids, a + 1, b)
      BY <1>4, <3>3, PartOfConcat
    <3>5. SubSeq(t.path_fids, t.path_off[r] + 1, t.path_off[r + 1])
            = SubSeq(s.path_fids, s.path_off[r] + 1, s.path_off[r + 1])
      BY <1>3, <1>7, <1>9, <3>1, <3>2, <3>4
    <3>6. t.root[r] = s.root[r] /\ t.bin[r] = s.bin[r]
      BY <1>3, <1>10, <1>11, <3>1
    <3>7. [root |-> s.root[r],
           fids |-> SubSeq(s.path_fids, s.path_off[r] + 1, s.path_off[r + 1]),
           bin |-> s.bin[r]] = RowRight(r)
      BY <3>1 DEF Describes
    <3>8. QED
      BY <3>5, <3>6, <3>7
  <2>2. CASE r = n + 1
    <3>1. t.path_off[r] = m /\ t.path_off[r + 1] = m + k
      BY <1>6, <1>9, <2>2
    <3>2. SubSeq(fids \o g, m + 1, m + k) = g
      BY <1>4, <1>5, RestOfConcat
    <3>3. SubSeq(t.path_fids, t.path_off[r] + 1, t.path_off[r + 1]) = g
      BY <1>7, <3>1, <3>2
    <3>4. t.root[r] = x /\ t.bin[r] = y /\ RowRight(r) = row
      BY <1>1, <1>10, <1>11, <2>2
    <3>5. QED
      BY <1>4, <3>3, <3>4
  <2>3. QED
    BY <2>1, <2>2
<1>17. (n + 1) + 1 = n + 2 /\ t.path_off[n + 2] = Len(t.path_fids)
  <2>1. (n + 1) + 1 = n + 2
    OBVIOUS
  <2>2. Len(t.path_fids) = m + k
    BY <1>7, <1>8
  <2>3. t.path_off[n + 2] = m + k
    BY <1>9
  <2>4. QED
    BY <2>1, <2>2, <2>3
<1>18. QED
  <2>1. /\ Len(t.root) = n + 1 /\ Len(t.bin) = n + 1 /\ Len(t.path_off) = (n + 1) + 1
        /\ t.path_off[(n + 1) + 1] = Len(t.path_fids)
    BY <1>9, <1>10, <1>11, <1>17
  <2>2. \A r \in 1 .. (n + 1) + 1 : t.path_off[r] <= Len(t.path_fids)
    BY <1>15, <1>17
  <2>3. QED
    BY <1>12, <1>14, <1>16, <2>1, <2>2 DEF Describes

-----------------------------------------------------------------------------
(* seeds, step by step.                                                      *)

\* What seeds reads does not change.
LEMMA RowsStay ==
  ASSUME UNCHANGED <<file, columns, component_fid>>
  PROVE  /\ \A k : Se!RootOf(k)' = Se!RootOf(k) /\ Se!Key(k)' = Se!Key(k)
         /\ \A r : RowRight(r)' = RowRight(r)
<1>1. \A k : Se!RootOf(k)' = Se!RootOf(k) /\ Se!Key(k)' = Se!Key(k)
  BY DEF Se!RootOf, Se!Key
<1>2. \A r : RowRight(r)' = RowRight(r)
  BY DEF RowRight, Se!RowOut, Se!FidOf, Se!RootOf, Se!Key
<1>3. QED
  BY <1>1, <1>2

LEMMA SeedsStarts ==
  ASSUME file \in Files, Se!Init
  PROVE  SeedsInv
<1>1. seeds = [root |-> <<>>, path_off |-> <<0>>, path_fids |-> <<>>, bin |-> <<>>]
  BY DEF Se!Init
<1>2. /\ spc = "open" /\ batch = {} /\ phase = << >> /\ slot = << >> /\ memo = << >>
  BY DEF Se!Init
<1>3. seeds \in SeedsRecord
  BY <1>1, EmptySeq DEF SeedsRecord
<1>4. /\ Len(seeds.root) = 0 /\ Len(seeds.bin) = 0 /\ Len(seeds.path_off) = 1
      /\ seeds.path_off[1] = 0 /\ Len(seeds.path_fids) = 0
  BY <1>1
<1>5. Describes(seeds, 0)
  BY <1>3, <1>4 DEF Describes
<1>6. Se!ReadRows = 0 /\ Len(file) \in Nat
  BY <1>4, FileIs DEF Se!ReadRows
<1>7. DOMAIN slot = {} /\ DOMAIN memo = {} /\ DOMAIN phase = {}
  BY <1>2
<1>8. phase \in [batch -> {"idle", "missed", "filled"}]
  BY <1>2
<1>9. QED
  BY <1>2, <1>5, <1>6, <1>7, <1>8 DEF SeedsInv

\* A step that leaves the vectors and the batch alone.
LEMMA SameSeeds ==
  ASSUME file \in Files, SeedsInv,
         UNCHANGED <<file, columns, component_fid, seeds, memo>>,
         spc' \in {"read", "done", "failed"}, spc # "resolve",
         UNCHANGED <<batch, phase, slot>>,
         spc' = "done" => Se!ReadRows = Len(file)
  PROVE  SeedsInv'
<1>1. Se!ReadRows' = Se!ReadRows
  BY DEF Se!ReadRows
<1>2. /\ \A k : Se!RootOf(k)' = Se!RootOf(k) /\ Se!Key(k)' = Se!Key(k)
      /\ \A r : RowRight(r)' = RowRight(r)
  BY RowsStay
<1>3. Describes(seeds, Se!ReadRows)'
  <2>1. Describes(seeds, Se!ReadRows)
    BY DEF SeedsInv
  <2>2. QED
    BY <1>1, <1>2, <2>1 DEF Describes
<1>4. batch = {} /\ Se!ReadRows \in 0 .. Len(file)
  BY DEF SeedsInv
<1>5. QED
  BY <1>1, <1>2, <1>3, <1>4 DEF SeedsInv

LEMMA SeedsOpens ==
  ASSUME file \in Files, SeedsInv, Se!OpenFile
  PROVE  SeedsInv'
<1>1. /\ spc # "resolve" /\ spc' \in {"read", "done", "failed"} /\ spc' # "done"
      /\ UNCHANGED <<file, columns, component_fid, seeds, memo>>
      /\ UNCHANGED <<batch, phase, slot>>
  BY DEF Se!OpenFile, Se!inputs
<1>2. QED
  BY <1>1, SameSeeds

LEMMA SeedsReadError ==
  ASSUME file \in Files, SeedsInv, Se!ReadError
  PROVE  SeedsInv'
<1>1. /\ spc # "resolve" /\ spc' \in {"read", "done", "failed"} /\ spc' # "done"
      /\ UNCHANGED <<file, columns, component_fid, seeds, memo>>
      /\ UNCHANGED <<batch, phase, slot>>
  BY DEF Se!ReadError, Se!inputs
<1>2. QED
  BY <1>1, SameSeeds

LEMMA SeedsEndOfFile ==
  ASSUME file \in Files, SeedsInv, Se!EndOfFile
  PROVE  SeedsInv'
<1>1. /\ spc # "resolve" /\ spc' \in {"read", "done", "failed"}
      /\ UNCHANGED <<file, columns, component_fid, seeds, memo>>
      /\ UNCHANGED <<batch, phase, slot>>
      /\ Se!ReadRows = Len(file)
  BY DEF Se!EndOfFile, Se!inputs
<1>2. QED
  BY <1>1, SameSeeds

LEMMA SeedsReadBatch ==
  ASSUME file \in Files, SeedsInv, Se!ReadBatch
  PROVE  SeedsInv'
<1>1. /\ spc' = "resolve" /\ slot' = << >>
      /\ batch' = {r \in DOMAIN file : r > Se!ReadRows /\ r <= Se!ReadRows + BatchRows}
      /\ phase' = [r \in batch' |-> "idle"]
      /\ UNCHANGED <<file, columns, component_fid, seeds, memo>>
  BY DEF Se!ReadBatch, Se!inputs
<1>2. Se!ReadRows' = Se!ReadRows
  BY <1>1 DEF Se!ReadRows
<1>3. /\ \A k : Se!RootOf(k)' = Se!RootOf(k)
      /\ \A r : RowRight(r)' = RowRight(r)
  BY <1>1, RowsStay
<1>4. Describes(seeds, Se!ReadRows)'
  <2>1. Describes(seeds, Se!ReadRows)
    BY DEF SeedsInv
  <2>2. QED
    BY <1>1, <1>2, <1>3, <2>1 DEF Describes
<1>5. /\ phase' \in [batch' -> {"idle", "missed", "filled"}]
      /\ {r \in batch' : phase'[r] = "filled"} = {}
  BY <1>1
<1>6. DOMAIN slot' = {}
  BY <1>1
<1>7. Se!ReadRows \in 0 .. Len(file) /\ \A k \in DOMAIN memo : memo[k] = Se!RootOf(k)
  BY DEF SeedsInv
<1>8. QED
  BY <1>1, <1>2, <1>3, <1>4, <1>5, <1>6, <1>7 DEF SeedsInv

\* A row gets the root that the revision has, from the memo or from the graph.
LEMMA FillKeeps ==
  ASSUME file \in Files, SeedsInv, NEW r \in batch, phase[r] # "filled",
         Se!Fill(r, Se!RootOf(Se!Key(r))),
         UNCHANGED <<file, columns, component_fid, spc, batch, seeds>>,
         \A k \in DOMAIN memo' : memo'[k] = Se!RootOf(k)
  PROVE  SeedsInv'
<1>1. slot' = Se!Insert(slot, r, RowRight(r)) /\ phase' = [phase EXCEPT ![r] = "filled"]
  BY DEF Se!Fill, RowRight
<1>2. /\ phase \in [batch -> {"idle", "missed", "filled"}]
      /\ DOMAIN slot = {q \in batch : phase[q] = "filled"}
      /\ \A q \in DOMAIN slot : slot[q] = RowRight(q)
  BY DEF SeedsInv
<1>3. /\ phase' \in [batch -> {"idle", "missed", "filled"}] /\ phase'[r] = "filled"
      /\ \A q \in batch : q # r => phase'[q] = phase[q]
  BY <1>1, <1>2
<1>4. DOMAIN slot' = DOMAIN slot \cup {r} /\ slot'[r] = RowRight(r)
  BY <1>1 DEF Se!Insert
<1>5. \A q \in DOMAIN slot : q # r => slot'[q] = slot[q]
  BY <1>1 DEF Se!Insert
<1>6. DOMAIN slot' = {q \in batch : phase'[q] = "filled"}
  BY <1>2, <1>3, <1>4
<1>7. \A q \in DOMAIN slot' : slot'[q] = RowRight(q)
  BY <1>2, <1>4, <1>5
<1>8. /\ \A k : Se!RootOf(k)' = Se!RootOf(k)
      /\ \A q : RowRight(q)' = RowRight(q)
  BY RowsStay
<1>9. Se!ReadRows' = Se!ReadRows
  BY DEF Se!ReadRows
<1>10. Describes(seeds, Se!ReadRows)'
  <2>1. Describes(seeds, Se!ReadRows)
    BY DEF SeedsInv
  <2>2. QED
    BY <1>8, <1>9, <2>1 DEF Describes
<1>11. /\ spc \in {"open", "read", "resolve", "done", "failed"}
       /\ Se!ReadRows \in 0 .. Len(file)
       /\ spc = "resolve" =>
            batch = {q \in DOMAIN file : q > Se!ReadRows /\ q <= Se!ReadRows + BatchRows}
       /\ spc # "resolve" => batch = {}
       /\ spc = "done" => Se!ReadRows = Len(file)
  BY DEF SeedsInv
<1>12. QED
  BY <1>3, <1>6, <1>7, <1>8, <1>9, <1>10, <1>11 DEF SeedsInv

LEMMA SeedsMemoHit ==
  ASSUME file \in Files, SeedsInv, NEW r \in batch, Se!MemoHit(r)
  PROVE  SeedsInv'
<1>1. /\ phase[r] # "filled" /\ Se!Key(r) \in DOMAIN memo
      /\ Se!Fill(r, memo[Se!Key(r)])
      /\ UNCHANGED <<file, columns, component_fid, spc, batch, seeds>>
      /\ memo' = memo
  BY DEF Se!MemoHit, Se!inputs
<1>2. \A k \in DOMAIN memo : memo[k] = Se!RootOf(k)
  BY DEF SeedsInv
<1>3. Se!Fill(r, Se!RootOf(Se!Key(r))) /\ \A k \in DOMAIN memo' : memo'[k] = Se!RootOf(k)
  BY <1>1, <1>2
<1>4. QED
  BY <1>1, <1>3, FillKeeps

LEMMA SeedsMemoInsert ==
  ASSUME file \in Files, SeedsInv, NEW r \in batch, Se!MemoInsert(r)
  PROVE  SeedsInv'
<1>1. /\ phase[r] # "filled"
      /\ Se!Fill(r, Se!RootOf(Se!Key(r)))
      /\ UNCHANGED <<file, columns, component_fid, spc, batch, seeds>>
      /\ memo' = Se!Insert(memo, Se!Key(r), Se!RootOf(Se!Key(r)))
  BY DEF Se!MemoInsert, Se!inputs
<1>2. \A k \in DOMAIN memo : memo[k] = Se!RootOf(k)
  BY DEF SeedsInv
<1>3. \A k \in DOMAIN memo' : memo'[k] = Se!RootOf(k)
  BY <1>1, <1>2 DEF Se!Insert
<1>4. QED
  BY <1>1, <1>3, FillKeeps

LEMMA SeedsMemoMiss ==
  ASSUME file \in Files, SeedsInv, NEW r \in batch, Se!MemoMiss(r)
  PROVE  SeedsInv'
<1>1. /\ phase[r] = "idle" /\ phase' = [phase EXCEPT ![r] = "missed"]
      /\ UNCHANGED <<file, columns, component_fid, spc, batch, slot, memo, seeds>>
  BY DEF Se!MemoMiss, Se!Missed, Se!inputs
<1>2. /\ phase \in [batch -> {"idle", "missed", "filled"}]
      /\ DOMAIN slot = {q \in batch : phase[q] = "filled"}
      /\ \A q \in DOMAIN slot : slot[q] = RowRight(q)
  BY DEF SeedsInv
<1>3. /\ phase' \in [batch -> {"idle", "missed", "filled"}] /\ phase'[r] = "missed"
      /\ \A q \in batch : q # r => phase'[q] = phase[q]
  BY <1>1, <1>2
<1>4. DOMAIN slot = {q \in batch : phase'[q] = "filled"}
  BY <1>1, <1>2, <1>3
<1>5. /\ \A k : Se!RootOf(k)' = Se!RootOf(k)
      /\ \A q : RowRight(q)' = RowRight(q)
  BY <1>1, RowsStay
<1>6. Se!ReadRows' = Se!ReadRows
  BY <1>1 DEF Se!ReadRows
<1>7. Describes(seeds, Se!ReadRows)'
  <2>1. Describes(seeds, Se!ReadRows)
    BY DEF SeedsInv
  <2>2. QED
    BY <1>1, <1>5, <1>6, <2>1 DEF Describes
<1>8. /\ spc \in {"open", "read", "resolve", "done", "failed"}
      /\ Se!ReadRows \in 0 .. Len(file)
      /\ spc = "resolve" =>
           batch = {q \in DOMAIN file : q > Se!ReadRows /\ q <= Se!ReadRows + BatchRows}
      /\ spc # "resolve" => batch = {}
      /\ \A k \in DOMAIN memo : memo[k] = Se!RootOf(k)
      /\ spc = "done" => Se!ReadRows = Len(file)
  BY DEF SeedsInv
<1>9. QED
  BY <1>1, <1>2, <1>3, <1>4, <1>5, <1>6, <1>7, <1>8 DEF SeedsInv

\* The vectors as row after row of the batch is pushed, up to l rows.
Grows(g, l) ==
  g = [m \in 0 .. l |-> IF m = 0 THEN seeds
                        ELSE Se!Push(g[m - 1], slot[Se!ReadRows + m])]

LEMMA GrowthUnfolds ==
  ASSUME NEW l \in Nat, NEW g, Grows(g, l)
  PROVE  /\ g[0] = seeds
         /\ \A m \in 1 .. l : g[m] = Se!Push(g[m - 1], slot[Se!ReadRows + m])
<1>1. 0 \in 0 .. l /\ \A m \in 1 .. l : m \in 0 .. l /\ m # 0
  OBVIOUS
<1>2. QED
  BY <1>1 DEF Grows

LEMMA GrowthExists ==
  ASSUME NEW l \in Nat
  PROVE  \E g : Grows(g, l)
<1> DEFINE Grown == {k \in Nat : \E g : Grows(g, k)}
<1>1. 0 \in Grown
  <2>1. PICK g : g = [m \in 0 .. 0 |-> seeds]
    OBVIOUS
  <2>2. Grows(g, 0)
    BY <2>1 DEF Grows
  <2>3. QED
    BY <2>2
<1>2. ASSUME NEW k \in Nat, k \in Grown
      PROVE  k + 1 \in Grown
  <2>1. PICK g : Grows(g, k)
    BY <1>2
  <2>2. /\ g[0] = seeds
        /\ \A m \in 1 .. k : g[m] = Se!Push(g[m - 1], slot[Se!ReadRows + m])
    BY <2>1, GrowthUnfolds
  <2>3. PICK last : last = Se!Push(g[k], slot[Se!ReadRows + (k + 1)])
    OBVIOUS
  <2>4. PICK h : h = [m \in 0 .. k + 1 |-> IF m = k + 1 THEN last ELSE g[m]]
    OBVIOUS
  <2>5. ASSUME NEW m \in 0 .. k + 1
        PROVE  h[m] = IF m = 0 THEN seeds ELSE Se!Push(h[m - 1], slot[Se!ReadRows + m])
    <3>1. CASE m = 0
      <4>1. m # k + 1 /\ h[m] = IF m = k + 1 THEN last ELSE g[m]
        BY <2>4, <3>1
      <4>2. QED
        BY <2>2, <3>1, <4>1
    <3>2. CASE m # 0 /\ m # k + 1
      <4>1. /\ m \in 1 .. k /\ m - 1 \in 0 .. k + 1 /\ m - 1 # k + 1
        BY <3>2
      <4>2. h[m] = g[m] /\ h[m - 1] = g[m - 1]
        BY <2>4, <3>2, <4>1
      <4>3. QED
        BY <2>2, <3>2, <4>1, <4>2
    <3>3. CASE m = k + 1
      <4>1. m - 1 = k /\ k \in 0 .. k + 1 /\ k # k + 1 /\ m # 0
        BY <3>3
      <4>2. h[m] = last /\ h[k] = g[k]
        BY <2>4, <3>3, <4>1
      <4>3. QED
        BY <2>3, <3>3, <4>1, <4>2
    <3>4. QED
      BY <3>1, <3>2, <3>3
  <2>6. h = [m \in 0 .. k + 1 |-> h[m]]
    BY <2>4
  <2>7. Grows(h, k + 1)
    BY <2>5, <2>6 DEF Grows
  <2>8. QED
    BY <2>7
<1>3. \A k \in Nat : k \in Grown
  <2>1. \A k \in Nat : k \in Grown => k + 1 \in Grown
    BY <1>2
  <2> HIDE DEF Grown
  <2>2. QED
    BY <1>1, <2>1, Induction
<1>4. QED
  BY <1>3

\* Each row pushed is described in its turn.
LEMMA GrowthDescribes ==
  ASSUME file \in Files, component_fid = MapOf(AskedIds), NEW l \in Nat, NEW g, Grows(g, l),
         NEW n \in Nat, n = Se!ReadRows, n + l <= Len(file), Describes(seeds, n),
         \A m \in 1 .. l : slot[n + m] = RowRight(n + m)
  PROVE  Describes(g[l], n + l)
<1> DEFINE Right == {m \in Nat : m <= l => Describes(g[m], n + m)}
<1>1. /\ g[0] = seeds
      /\ \A m \in 1 .. l : g[m] = Se!Push(g[m - 1], slot[Se!ReadRows + m])
  BY GrowthUnfolds
<1>2. 0 \in Right
  <2>1. n + 0 = n
    OBVIOUS
  <2>2. QED
    BY <1>1, <2>1
<1>3. ASSUME NEW m \in Nat, m \in Right
      PROVE  m + 1 \in Right
  <2> SUFFICES ASSUME m + 1 <= l PROVE Describes(g[m + 1], n + (m + 1))
    OBVIOUS
  <2>1. PICK k \in Nat : k = n + m
    OBVIOUS
  <2>2. m <= l /\ m + 1 \in 1 .. l /\ (m + 1) - 1 = m /\ n + (m + 1) = k + 1
    BY <2>1
  <2>3. Describes(g[m], k)
    BY <1>3, <2>1, <2>2
  <2>4. k + 1 \in DOMAIN file
    BY <2>1, FileIs
  <2>5. slot[k + 1] = RowRight(k + 1)
    BY <2>2
  <2>6. g[m + 1] = Se!Push(g[m], RowRight(k + 1))
    BY <1>1, <2>2, <2>5
  <2>7. Describes(g[m + 1], k + 1)
    BY <2>3, <2>4, <2>6, PushDescribes
  <2>8. QED
    BY <2>2, <2>7
<1>4. \A m \in Nat : m \in Right
  <2> HIDE DEF Right
  <2>1. QED
    BY <1>2, <1>3, Induction
<1>5. l \in Right
  <2> HIDE DEF Right
  <2>1. QED
    BY <1>4
<1>6. l <= l
  OBVIOUS
<1>7. QED
  BY <1>5, <1>6

\* The rows of a batch follow those already described.
LEMMA BatchIs ==
  ASSUME file \in Files, SeedsInv, spc = "resolve"
  PROVE  \E l \in Nat :
           /\ Se!Cardinality(batch) = l
           /\ Se!ReadRows \in Nat /\ Se!ReadRows + l <= Len(file)
           /\ \A m \in 1 .. l : Se!ReadRows + m \in batch
<1>1. PICK n, len, b : n = Se!ReadRows /\ len = Len(file) /\ b = BatchRows
  OBVIOUS
<1>2. /\ n \in Nat /\ len \in Nat /\ n <= len /\ b \in Nat /\ DOMAIN file = 1 .. len
      /\ batch = {r \in DOMAIN file : r > n /\ r <= n + b}
  <2>1. Se!ReadRows \in 0 .. Len(file) /\ Len(file) \in Nat /\ DOMAIN file = 1 .. Len(file)
    BY FileIs DEF SeedsInv
  <2>2. batch = {r \in DOMAIN file : r > Se!ReadRows /\ r <= Se!ReadRows + BatchRows}
    BY DEF SeedsInv
  <2>3. QED
    BY <1>1, <2>1, <2>2, SeedsParameters
<1>3. PICK hi \in Nat : hi = IF n + b < len THEN n + b ELSE len
  BY <1>2
<1>4. n <= hi /\ hi <= len /\ \A r \in Nat : (r <= hi) <=> (r <= n + b /\ r <= len)
  <2>1. n + b \in Nat /\ n <= n + b
    BY <1>2
  <2>2. CASE n + b < len
    BY <1>2, <1>3, <2>1, <2>2
  <2>3. CASE ~(n + b < len)
    BY <1>2, <1>3, <2>1, <2>3
  <2>4. QED
    BY <2>2, <2>3
<1>5. batch = n + 1 .. hi
  <2>1. \A r \in Nat : r > n <=> r >= n + 1
    BY <1>2
  <2>2. \A r : r \in batch <=> r \in Nat /\ r >= 1 /\ r <= len /\ r > n /\ r <= n + b
    BY <1>2
  <2>3. \A r : r \in batch <=> r \in Nat /\ r >= n + 1 /\ r <= hi
    BY <1>2, <1>4, <2>1, <2>2
  <2>4. \A r : r \in n + 1 .. hi <=> r \in Nat /\ r >= n + 1 /\ r <= hi
    BY <1>2
  <2>5. QED
    BY <2>3, <2>4
<1>6. PICK l \in Nat : l = hi - n
  BY <1>2, <1>4
<1>7. Cardinality(n + 1 .. hi) = l
  <2>1. n + 1 \in Int /\ hi \in Int
    BY <1>2
  <2>2. Cardinality(n + 1 .. hi) = IF n + 1 > hi THEN 0 ELSE hi - (n + 1) + 1
    BY <2>1, FS_Interval
  <2>3. QED
    BY <1>2, <1>4, <1>6, <2>2
<1>8. Se!Cardinality(batch) = Cardinality(batch)
  BY DEF Se!Cardinality, Cardinality
<1>9. \A m \in 1 .. l : n + m \in n + 1 .. hi
  BY <1>2, <1>6
<1>10. n + l <= len
  BY <1>2, <1>4, <1>6
<1>11. QED
  BY <1>1, <1>2, <1>5, <1>6, <1>7, <1>8, <1>9, <1>10

LEMMA SeedsAppends ==
  ASSUME file \in Files, component_fid = MapOf(AskedIds), SeedsInv, Se!AppendBatch
  PROVE  SeedsInv'
<1>1. /\ spc = "resolve" /\ spc' = "read" /\ batch' = {} /\ phase' = << >> /\ slot' = << >>
      /\ \A r \in batch : phase[r] = "filled"
      /\ UNCHANGED <<file, columns, component_fid, memo>>
  BY DEF Se!AppendBatch, Se!inputs
<1>2. PICK l \in Nat :
        /\ Se!Cardinality(batch) = l
        /\ Se!ReadRows \in Nat /\ Se!ReadRows + l <= Len(file)
        /\ \A m \in 1 .. l : Se!ReadRows + m \in batch
  BY <1>1, BatchIs
<1>3. PICK g : g = CHOOSE f : Grows(f, l)
  OBVIOUS
<1>4. Grows(g, l)
  BY <1>3, GrowthExists
<1>5. seeds' = g[l]
  BY <1>2, <1>3 DEF Se!AppendBatch, Grows
<1>6. PICK n \in Nat : n = Se!ReadRows
  BY <1>2
<1>7. \A m \in 1 .. l : slot[n + m] = RowRight(n + m)
  <2>1. \A r \in batch : slot[r] = RowRight(r)
    BY <1>1 DEF SeedsInv
  <2>2. QED
    BY <1>2, <1>6, <2>1
<1>8. Describes(seeds, n)
  BY <1>6 DEF SeedsInv
<1>9. Describes(seeds', n + l)
  BY <1>2, <1>4, <1>5, <1>6, <1>7, <1>8, GrowthDescribes
<1>10. Se!ReadRows' = n + l
  BY <1>9 DEF Se!ReadRows, Describes
<1>11. /\ \A k : Se!RootOf(k)' = Se!RootOf(k)
       /\ \A r : RowRight(r)' = RowRight(r)
  BY <1>1, RowsStay
<1>12. Describes(seeds, Se!ReadRows)'
  BY <1>9, <1>10, <1>11 DEF Describes
<1>13. /\ phase' \in [batch' -> {"idle", "missed", "filled"}]
       /\ DOMAIN slot' = {} /\ {r \in batch' : phase'[r] = "filled"} = {}
  BY <1>1
<1>14. n + l \in 0 .. Len(file)
  BY <1>2, <1>6, FileIs
<1>15. \A k \in DOMAIN memo : memo[k] = Se!RootOf(k)
  BY DEF SeedsInv
<1>16. QED
  BY <1>1, <1>10, <1>11, <1>12, <1>13, <1>14, <1>15 DEF SeedsInv

LEMMA SeedsKept ==
  ASSUME file \in Files, component_fid = MapOf(AskedIds), SeedsInv, Se!Next
  PROVE  SeedsInv'
<1>1. \/ Se!OpenFile \/ Se!ReadBatch \/ Se!ReadError \/ Se!AppendBatch \/ Se!EndOfFile
      \/ \E r \in batch : Se!MemoHit(r) \/ Se!MemoMiss(r) \/ Se!MemoInsert(r)
  BY DEF Se!Next
<1>2. CASE Se!OpenFile
  BY <1>2, SeedsOpens
<1>3. CASE Se!ReadBatch
  BY <1>3, SeedsReadBatch
<1>4. CASE Se!ReadError
  BY <1>4, SeedsReadError
<1>5. CASE Se!AppendBatch
  BY <1>5, SeedsAppends
<1>6. CASE Se!EndOfFile
  BY <1>6, SeedsEndOfFile
<1>7. CASE \E r \in batch : Se!MemoHit(r) \/ Se!MemoMiss(r) \/ Se!MemoInsert(r)
  BY <1>7, SeedsMemoHit, SeedsMemoMiss, SeedsMemoInsert
<1>8. QED
  BY <1>1, <1>2, <1>3, <1>4, <1>5, <1>6, <1>7

LEMMA SeedsKeepsInput ==
  ASSUME Se!Next
  PROVE  file' = file /\ columns' = columns /\ component_fid' = component_fid
BY DEF Se!Next, Se!OpenFile, Se!ReadBatch, Se!ReadError, Se!AppendBatch, Se!EndOfFile,
       Se!MemoHit, Se!MemoMiss, Se!MemoInsert, Se!inputs

LEMMA WiderSeq ==
  ASSUME NEW S, NEW T, NEW s \in Seq(S), \A r \in 1 .. Len(s) : s[r] \in T
  PROVE  s \in Seq(T)
<1>1. DOMAIN s = 1 .. Len(s) /\ Len(s) \in Nat /\ s \in [1 .. Len(s) -> S]
  BY LenProperties
<1>2. s \in [1 .. Len(s) -> T]
  BY <1>1
<1>3. QED
  BY <1>1, <1>2

LEMMA SeedsTyped ==
  ASSUME file \in Files, SeedsInv
  PROVE  Se!TypeOK
<1>1. PICK offs, fids : offs = seeds.path_off /\ fids = seeds.path_fids
  OBVIOUS
<1>2. /\ seeds.root \in Seq(Se!Root) /\ offs \in Seq(Nat) /\ fids \in Seq(FidOrMissing)
      /\ seeds.bin \in Seq(0 .. Se!MaxBin)
  <2>1. seeds \in SeedsRecord
    BY DEF SeedsInv, Describes
  <2>2. QED
    BY <1>1, <2>1, SeedsFields
<1>3. fids \in Seq(Nat \cup {Se!FidMissing})
  <2>1. \A e \in FidOrMissing : e \in Nat \cup {Se!FidMissing}
    BY ParametersTyped DEF FidOrMissing
  <2>2. \A r \in 1 .. Len(fids) : fids[r] \in FidOrMissing
    BY <1>2, ElementOfSeq
  <2>3. \A r \in 1 .. Len(fids) : fids[r] \in Nat \cup {Se!FidMissing}
    BY <2>1, <2>2
  <2>4. QED
    BY <1>2, <2>3, WiderSeq
<1>4. offs \in Seq(0 .. Len(fids))
  <2>1. PICK n : n = Se!ReadRows
    OBVIOUS
  <2>2. Len(offs) = n + 1 /\ \A r \in 1 .. n + 1 : offs[r] <= Len(fids)
    BY <1>1, <2>1 DEF SeedsInv, Describes
  <2>3. \A r \in 1 .. Len(offs) : offs[r] \in Nat
    BY <1>2, ElementOfSeq
  <2>4. Len(fids) \in Nat
    BY <1>2, LenProperties
  <2>5. \A r \in 1 .. Len(offs) : offs[r] \in 0 .. Len(fids)
    BY <2>2, <2>3, <2>4
  <2>6. PICK T : T = 0 .. Len(fids)
    OBVIOUS
  <2>7. offs \in Seq(T)
    BY <1>2, <2>5, <2>6, WiderSeq
  <2>8. QED
    BY <2>6, <2>7
<1>5. \A k \in DOMAIN memo : memo[k] \in Se!Root
  BY RootIs DEF SeedsInv
<1>6. /\ spc \in {"open", "read", "resolve", "done", "failed"}
      /\ batch \subseteq DOMAIN file
      /\ phase \in [batch -> {"idle", "missed", "filled"}]
      /\ DOMAIN slot = {r \in batch : phase[r] = "filled"}
  BY DEF SeedsInv
<1>7. QED
  BY <1>1, <1>2, <1>3, <1>4, <1>5, <1>6 DEF Se!TypeOK

LEMMA SeedsDescribed ==
  ASSUME file \in Files, SeedsInv
  PROVE  Se!SeedsAligned
<1>1. Describes(seeds, Se!ReadRows) /\ (spc = "done" => Se!ReadRows = Len(file))
  BY DEF SeedsInv
<1>2. /\ Len(seeds.bin) = Se!ReadRows /\ Len(seeds.path_off) = Se!ReadRows + 1
      /\ \A r \in 1 .. Se!ReadRows :
           [root |-> seeds.root[r],
            fids |-> SubSeq(seeds.path_fids, seeds.path_off[r] + 1, seeds.path_off[r + 1]),
            bin |-> seeds.bin[r]] = RowRight(r)
  BY <1>1 DEF Describes
<1>3. QED
  BY <1>1, <1>2 DEF Se!SeedsAligned, Se!PathOf, RowRight

-----------------------------------------------------------------------------
(* What the phases before hand to traverse.                                  *)

\* A name has the id it has in the archive, if a row asks for it.
LEMMA FidIs ==
  ASSUME component_fid = MapOf(AskedIds), NEW n \in Asked(0, Len(file))
  PROVE  /\ Se!FidOf(n) # Se!FidMissing =>
              Se!FidOf(n) \in AskedIds /\ LabelName[Se!FidOf(n)] = n
         /\ \A f \in Na!LabelId : LabelName[f] = n => Se!FidOf(n) = f /\ f # Se!FidMissing
<1>1. PICK S \in SUBSET Na!LabelId : S = AskedIds
  BY DEF AskedIds
<1>2. /\ \A f \in S : LabelName[f] \in DOMAIN MapOf(S) /\ MapOf(S)[LabelName[f]] = f
      /\ \A x \in DOMAIN MapOf(S) : MapOf(S)[x] \in S /\ LabelName[MapOf(S)[x]] = x
  BY MapOfIs
<1>3. component_fid = MapOf(S)
  BY <1>1
<1>4. Se!FidOf(n) # Se!FidMissing =>
        Se!FidOf(n) \in AskedIds /\ LabelName[Se!FidOf(n)] = n
  BY <1>1, <1>2, <1>3 DEF Se!FidOf
<1>5. ASSUME NEW f \in Na!LabelId, LabelName[f] = n
      PROVE  Se!FidOf(n) = f /\ f # Se!FidMissing
  <2>1. f \in S
    BY <1>1, <1>5 DEF AskedIds
  <2>2. n \in DOMAIN component_fid /\ component_fid[n] = f
    BY <1>2, <1>3, <1>5, <2>1
  <2>3. f # Se!FidMissing
    BY ParametersTyped DEF Se!FidMissing
  <2>4. QED
    BY <2>2, <2>3 DEF Se!FidOf
<1>6. QED
  BY <1>4, <1>5

\* The vectors address the rows of the file.
LEMMA PathsAre ==
  ASSUME file \in Files, AfterNames, spc = "done"
  PROVE  /\ Len(seeds.root) = Len(file) /\ DOMAIN seeds.root = DOMAIN file
         /\ \A r \in DOMAIN file : Se!PathOf(r) = RowRight(r).fids
<1>1. Se!ReadRows = Len(file) /\ Describes(seeds, Se!ReadRows)
  BY DEF AfterNames, SeedsInv
<1>2. Len(seeds.root) = Len(file) /\ DOMAIN file = 1 .. Len(file)
  BY <1>1, FileIs DEF Se!ReadRows
<1>3. seeds.root \in Seq(Se!Root)
  BY <1>1, SeedsFields DEF Describes
<1>4. DOMAIN seeds.root = 1 .. Len(seeds.root)
  BY <1>3, LenProperties
<1>5. ASSUME NEW r \in DOMAIN file
      PROVE  Se!PathOf(r) = RowRight(r).fids
  <2>1. [root |-> seeds.root[r],
         fids |-> SubSeq(seeds.path_fids, seeds.path_off[r] + 1, seeds.path_off[r + 1]),
         bin |-> seeds.bin[r]] = RowRight(r)
    BY <1>1, <1>2 DEF Describes
  <2>2. QED
    BY <2>1 DEF Se!PathOf
<1>6. QED
  BY <1>2, <1>4, <1>5

\* What the rows ask for is what names requested.
LEMMA AskedByPaths ==
  ASSUME file \in Files, AfterNames, spc = "done"
  PROVE  AskedIds = UNION {Tr!NamesIn(Se!PathOf(r)) : r \in DOMAIN seeds.root}
<1>1. component_fid = MapOf(AskedIds)
  BY DEF AfterNames, NamesLeft
<1>2. /\ DOMAIN seeds.root = DOMAIN file
      /\ \A r \in DOMAIN file : Se!PathOf(r) = RowRight(r).fids
  BY PathsAre
<1>3. Asked(0, Len(file)) = UNION {Na!Components(r) : r \in DOMAIN file}
  BY AskedByRows
<1>4. \A r : RowRight(r).fids = [c \in DOMAIN file[r].comps |-> Se!FidOf(file[r].comps[c])]
  BY DEF RowRight, Se!RowOut
<1>5. ASSUME NEW r \in DOMAIN file, NEW f
      PROVE  f \in Tr!NamesIn(Se!PathOf(r)) <=>
               \E n \in Na!Components(r) : f = Se!FidOf(n) /\ f # Se!FidMissing
  <2>1. PICK p : p = Se!PathOf(r)
    OBVIOUS
  <2>2. p = [c \in DOMAIN file[r].comps |-> Se!FidOf(file[r].comps[c])]
    BY <1>2, <1>4, <2>1
  <2>3. f \in Tr!NamesIn(p) <=> (\E c \in DOMAIN p : f = p[c]) /\ f # Se!FidMissing
    BY DEF Tr!NamesIn, Tr!FidMissing, Se!FidMissing
  <2>4. (\E c \in DOMAIN p : f = p[c]) <=> \E n \in Na!Components(r) : f = Se!FidOf(n)
    BY <2>2 DEF Na!Components
  <2>5. QED
    BY <2>1, <2>3, <2>4
<1>6. ASSUME NEW f \in AskedIds
      PROVE  \E r \in DOMAIN file : f \in Tr!NamesIn(Se!PathOf(r))
  <2>1. f \in Na!LabelId /\ LabelName[f] \in Asked(0, Len(file))
    BY DEF AskedIds
  <2>2. PICK r \in DOMAIN file : LabelName[f] \in Na!Components(r)
    BY <1>3, <2>1
  <2>3. Se!FidOf(LabelName[f]) = f /\ f # Se!FidMissing
    BY <1>1, <2>1, FidIs
  <2>4. QED
    BY <1>5, <2>2, <2>3
<1>7. ASSUME NEW r \in DOMAIN file, NEW f \in Tr!NamesIn(Se!PathOf(r))
      PROVE  f \in AskedIds
  <2>1. PICK n \in Na!Components(r) : f = Se!FidOf(n) /\ f # Se!FidMissing
    BY <1>5
  <2>2. n \in Asked(0, Len(file))
    BY <1>3, <2>1
  <2>3. QED
    BY <1>1, <2>1, <2>2, FidIs
<1>8. QED
  BY <1>2, <1>6, <1>7

LEMMA SameTable == TP!Map!ExactTable = Ma!ExactTable
<1>1. /\ TP!Map!Node = Ma!Node /\ TP!Map!NoNode = Ma!NoNode
  BY DEF TP!Map!Node, Ma!Node, TP!Map!NoNode, Ma!NoNode
<1>2. \A d, f : TP!Map!DirectStep(d, f) = Ma!DirectStep(d, f)
  BY <1>1 DEF TP!Map!DirectStep, Ma!DirectStep, TP!Map!IsNamed, Ma!IsNamed
<1>3. TP!Map!NoEntry = Ma!NoEntry
  BY <1>1 DEF TP!Map!NoEntry, Ma!NoEntry
<1>4. \A d, f : TP!Map!Exact(d, f) = Ma!Exact(d, f)
  BY <1>1, <1>2, <1>3 DEF TP!Map!Exact, Ma!Exact
<1>5. QED
  BY <1>1, <1>4 DEF TP!Map!ExactTable, Ma!ExactTable

LEMMA SameBelow == \A R : TP!DirsBelow(R) = DirsBelow(R)
<1>1. \A n : TP!IsDir(n) = IsDir(n)
  BY DEF TP!IsDir, IsDir
<1>2. \A S : TP!ClosedUnderSubdirs(S) <=> ClosedUnderSubdirs(S)
  BY <1>1 DEF TP!ClosedUnderSubdirs, ClosedUnderSubdirs
<1>3. QED
  BY <1>2, SameGraph DEF TP!DirsBelow, DirsBelow

\* The phases before traverse have made what its proofs start from.
LEMMA InputsReady ==
  /\ file \in Files /\ AfterNames /\ spc = "done"
  /\ reached = DirsBelow(Tr!DistinctRoots(seeds.root)) /\ table = Ma!ExactTable
  => TP!Inputs
<1> SUFFICES ASSUME file \in Files, AfterNames, spc = "done",
                    reached = DirsBelow(Tr!DistinctRoots(seeds.root)),
                    table = Ma!ExactTable
             PROVE  TP!Inputs
  OBVIOUS
<1>1. /\ Len(seeds.root) = Len(file) /\ DOMAIN seeds.root = DOMAIN file
      /\ \A r \in DOMAIN file : Se!PathOf(r) = RowRight(r).fids
  BY PathsAre
<1>2. Len(file) \in Nat /\ DOMAIN file = 1 .. Len(file)
  BY FileIs
<1>3. seeds.root \in Seq(TP!Directory \cup {TP!RootMissing})
  <2>1. seeds.root \in Seq(Se!Root)
    BY SeedsFields DEF AfterNames, SeedsInv, Describes
  <2>2. Se!Root = TP!Directory \cup {TP!RootMissing}
    BY DEF Se!Root, Se!Directory, Se!Node, Se!IsDir, Se!RootMissing,
           TP!Directory, TP!Node, TP!IsDir, TP!RootMissing
  <2>3. QED
    BY <2>1, <2>2
<1>4. PICK path : path = [r \in DOMAIN seeds.root |-> Se!PathOf(r)]
  OBVIOUS
<1>5. path \in Seq(Seq(Fid \cup {TP!FidMissing})) /\ Len(path) = Len(seeds.root)
  <2>1. component_fid = MapOf(AskedIds)
    BY DEF AfterNames, NamesLeft
  <2>2. FidOrMissing = Fid \cup {TP!FidMissing}
    BY ParametersTyped DEF FidOrMissing, Se!FidMissing, TP!FidMissing
  <2>3. \A r \in DOMAIN file : Se!PathOf(r) \in Seq(FidOrMissing)
    BY <1>1, <2>1, RowIs
  <2>4. PICK T : T = Seq(Fid \cup {TP!FidMissing})
    OBVIOUS
  <2>5. path \in [1 .. Len(file) -> T]
    BY <1>1, <1>2, <1>4, <2>2, <2>3, <2>4
  <2>6. path \in Seq(T) /\ Len(path) = Len(file)
    BY <1>2, <2>5
  <2>7. QED
    BY <1>1, <2>4, <2>6
<1>6. reached = TP!DirsBelow(TP!DistinctRoots(seeds.root))
  <2>1. TP!DistinctRoots(seeds.root) = Tr!DistinctRoots(seeds.root)
    BY DEF TP!DistinctRoots, Tr!DistinctRoots, TP!RootMissing, Tr!RootMissing
  <2>2. QED
    BY <2>1, SameBelow
<1>7. requested = UNION {TP!NamesIn(path[r]) : r \in TP!Rows}
  <2>1. requested = UNION {Tr!NamesIn(Se!PathOf(r)) : r \in DOMAIN seeds.root}
    BY AskedByPaths DEF AfterNames, NamesLeft
  <2>2. \A p : TP!NamesIn(p) = Tr!NamesIn(p)
    BY DEF TP!NamesIn, Tr!NamesIn, TP!FidMissing, Tr!FidMissing
  <2>3. TP!Rows = DOMAIN seeds.root
    BY DEF TP!Rows
  <2>4. QED
    BY <1>4, <2>1, <2>2, <2>3
<1>8. table = TP!Map!ExactTable
  BY SameTable
<1>9. QED
  BY <1>3, <1>4, <1>5, <1>6, <1>7, <1>8 DEF TP!Inputs

LEMMA WalkStarts == TP!Inputs /\ TP!Start => TP!IInv
<1>1. TP!Init => TP!IInv
  BY TP!InitIInv, GraphAssumption, LabelAssumption, SameGraph
<1>2. QED
  BY <1>1 DEF TP!Init

LEMMA WalkKept == TP!IInv /\ [TP!Next]_(TP!vars) => TP!IInv'
BY TP!NextIInv, GraphAssumption, LabelAssumption, SameGraph

-----------------------------------------------------------------------------
(* From phase to phase.                                                      *)

\* What a phase that has returned leaves alone stays as it is.
LEMMA NamesStay ==
  ASSUME UNCHANGED <<file, columns, names, component_fid>>
  PROVE  /\ NamesInv <=> NamesInv'
         /\ NamesLeft <=> NamesLeft'
         /\ AskedIds' = AskedIds
<1>1. \A r : Na!Components(r)' = Na!Components(r)
  BY DEF Na!Components
<1>2. \A lo, hi : Asked(lo, hi)' = Asked(lo, hi)
  BY <1>1 DEF Asked
<1>3. AskedIds' = AskedIds
  BY <1>2 DEF AskedIds
<1>4. UNCHANGED <<npc, rows, local, distinct, requested, scan>>
  BY DEF names
<1>5. NamesLeft <=> NamesLeft'
  BY <1>3, <1>4 DEF NamesLeft
<1>6. Na!EndOfBatch' = Na!EndOfBatch
  BY <1>4 DEF Na!EndOfBatch
<1>7. CollectInv <=> CollectInv'
  BY <1>2, <1>4, <1>6 DEF CollectInv
<1>8. \A c, g : WantedIn(c, g)' = WantedIn(c, g)
  BY <1>4 DEF WantedIn, Na!Wanted
<1>9. ScanInv <=> ScanInv'
  BY <1>4, <1>8 DEF ScanInv
<1>10. NamesInv <=> NamesInv'
  BY <1>2, <1>4, <1>7, <1>9 DEF NamesInv
<1>11. QED
  BY <1>3, <1>5, <1>10

\* seeds returns: at most the memo is dropped.
LEMMA SeedsStay ==
  ASSUME SeedsInv, UNCHANGED <<file, columns, component_fid>>,
         UNCHANGED <<spc, batch, phase, slot, seeds>>,
         memo' = memo \/ memo' = << >>
  PROVE  SeedsInv'
<1>1. Se!ReadRows' = Se!ReadRows
  BY DEF Se!ReadRows
<1>2. /\ \A k : Se!RootOf(k)' = Se!RootOf(k)
      /\ \A r : RowRight(r)' = RowRight(r)
  BY RowsStay
<1>3. Describes(seeds, Se!ReadRows)'
  <2>1. Describes(seeds, Se!ReadRows)
    BY DEF SeedsInv
  <2>2. QED
    BY <1>1, <1>2, <2>1 DEF Describes
<1>4. \A k \in DOMAIN memo' : memo'[k] = Se!RootOf(k)'
  <2>1. CASE memo' = memo
    BY <1>2, <2>1 DEF SeedsInv
  <2>2. CASE memo' = << >>
    BY <2>2
  <2>3. QED
    BY <2>1, <2>2
<1>5. /\ spc = "resolve" =>
           batch = {r \in DOMAIN file : r > Se!ReadRows /\ r <= Se!ReadRows + BatchRows}
      /\ spc # "resolve" => batch = {}
      /\ Se!ReadRows \in 0 .. Len(file)
      /\ spc = "done" => Se!ReadRows = Len(file)
      /\ spc \in {"open", "read", "resolve", "done", "failed"}
  BY DEF SeedsInv
<1>6. /\ phase \in [batch -> {"idle", "missed", "filled"}]
      /\ DOMAIN slot = {r \in batch : phase[r] = "filled"}
      /\ \A r \in DOMAIN slot : slot[r] = RowRight(r)
  BY DEF SeedsInv
<1>7. \A r \in DOMAIN slot' : slot'[r] = RowRight(r)'
  BY <1>2, <1>6
<1>8. QED
  BY <1>1, <1>3, <1>4, <1>5, <1>6, <1>7 DEF SeedsInv

\* The walk goes on where it was.
LEMMA WalkStays ==
  ASSUME TP!IInv, UNCHANGED <<seeds, reached, requested, table, walk>>
  PROVE  TP!IInv'
<1>1. UNCHANGED <<tpc, i, cur, leaf, status>>
  BY DEF walk
<1>2. \A r : Se!PathOf(r)' = Se!PathOf(r)
  BY DEF Se!PathOf
<1>3. UNCHANGED TP!vars
  BY <1>1, <1>2 DEF TP!vars
<1>4. QED
  BY <1>3, WalkKept

\* A step of main alone.
LEMMA PhaseStays ==
  ASSUME UNCHANGED <<input, names, component_fid, seeding, map, walk>>
  PROVE  /\ UNCHANGED <<file, columns, npc, spc, reached, leaf, requested, table, seeds>>
         /\ InNames => InNames'
         /\ AfterNames => AfterNames'
         /\ TP!IInv => TP!IInv'
<1>1. /\ UNCHANGED <<file, columns, npc, rows, local, distinct, requested, scan>>
      /\ UNCHANGED <<component_fid, spc, batch, phase, slot, memo, seeds>>
      /\ UNCHANGED <<reached, table, tpc, i, cur, leaf, status>>
  BY DEF input, names, seeding, map, walk
<1>2. InNames => InNames'
  BY <1>1, NamesStay DEF InNames, Se!Init
<1>3. AfterNames => AfterNames'
  BY <1>1, NamesStay, SeedsStay DEF AfterNames
<1>4. TP!IInv => TP!IInv'
  BY <1>1, WalkStays
<1>5. QED
  BY <1>1, <1>2, <1>3, <1>4

LEMMA NamesStepKeeps ==
  ASSUME IInv, NamesStep
  PROVE  IInv'
<1>1. /\ stage = "names" /\ stage' = "names" /\ Na!Next
      /\ UNCHANGED <<component_fid, spc, batch, phase, slot, memo, seeds>>
      /\ UNCHANGED <<reached, table, tpc, i, cur, leaf, status>>
  BY DEF NamesStep, seeding, map, walk
<1>2. file \in Files /\ NamesInv /\ component_fid = << >> /\ Se!Init
  BY <1>1 DEF IInv, InNames
<1>3. file' = file /\ NamesInv'
  BY <1>1, <1>2, NamesKept, NamesKeepsInput
<1>4. component_fid' = << >> /\ Se!Init'
  BY <1>1, <1>2 DEF Se!Init
<1>5. leaf' = <<>>
  BY <1>1 DEF IInv, StageInv
<1>6. StageInv'
  BY <1>1, <1>5 DEF StageInv
<1>7. QED
  BY <1>1, <1>2, <1>3, <1>4, <1>6 DEF IInv, InNames

\* names returns the map and the bitset that the later phases count on.
LEMMA NamesReturnsKeeps ==
  ASSUME IInv, NamesReturns
  PROVE  IInv'
<1>1. /\ stage = "names" /\ stage' = "seeds" /\ Na!Done
      /\ component_fid' = Na!ComponentFid /\ distinct' = {} /\ scan' = <<>>
      /\ UNCHANGED <<file, columns, npc, rows, local, requested>>
      /\ UNCHANGED <<spc, batch, phase, slot, memo, seeds>>
      /\ UNCHANGED <<reached, table, tpc, i, cur, leaf, status>>
  BY DEF NamesReturns, input, seeding, map, walk
<1>2. file \in Files /\ NamesInv /\ Se!Init
  BY <1>1 DEF IInv, InNames
<1>3. /\ npc = "scan" /\ rows = Len(file) /\ local = <<>>
      /\ Na!ComponentFid = MapOf(AskedIds) /\ requested = AskedIds
  BY <1>1, <1>2, NamesThrough
<1>4. AskedIds' = AskedIds
  BY <1>1 DEF AskedIds, Asked, Na!Components
<1>5. NamesLeft'
  BY <1>1, <1>3, <1>4 DEF NamesLeft
<1>6. SeedsInv'
  <2>1. Se!Init' /\ (file \in Files)'
    BY <1>1, <1>2 DEF Se!Init
  <2>2. (file \in Files /\ Se!Init => SeedsInv)'
    BY SeedsStarts, PTL
  <2>3. QED
    BY <2>1, <2>2
<1>7. leaf' = <<>>
  BY <1>1 DEF IInv, StageInv
<1>8. StageInv'
  BY <1>1, <1>7 DEF StageInv
<1>9. QED
  BY <1>1, <1>2, <1>3, <1>5, <1>6, <1>8 DEF IInv, AfterNames

LEMMA SeedsStepKeeps ==
  ASSUME IInv, SeedsStep
  PROVE  IInv'
<1>1. /\ stage = "seeds" /\ stage' = "seeds" /\ Se!Next
      /\ UNCHANGED <<file, columns, names, component_fid>>
      /\ UNCHANGED <<npc, leaf>>
  BY DEF SeedsStep, input, names, map, walk
<1>2. npc # "failed" /\ file \in Files /\ AfterNames
  BY <1>1 DEF IInv
<1>3. SeedsInv /\ NamesLeft /\ component_fid = MapOf(AskedIds)
  BY <1>2 DEF AfterNames, NamesLeft
<1>4. SeedsInv' /\ NamesLeft'
  BY <1>1, <1>2, <1>3, SeedsKept, NamesStay
<1>5. leaf' = <<>>
  BY <1>1 DEF IInv, StageInv
<1>6. StageInv'
  BY <1>1, <1>5 DEF StageInv
<1>7. QED
  BY <1>1, <1>2, <1>4, <1>6 DEF IInv, AfterNames

LEMMA SeedsReturnsKeeps ==
  ASSUME IInv, SeedsReturns
  PROVE  IInv'
<1>1. /\ stage = "seeds" /\ stage' = "reach" /\ spc = "done" /\ memo' = << >>
      /\ UNCHANGED <<file, columns, component_fid>>
      /\ UNCHANGED <<spc, batch, phase, slot, seeds>>
      /\ UNCHANGED names /\ UNCHANGED <<npc, leaf>>
  BY DEF SeedsReturns, input, names, map, walk
<1>2. npc # "failed" /\ file \in Files /\ AfterNames
  BY <1>1 DEF IInv
<1>3. SeedsInv'
  BY <1>1, <1>2, SeedsStay DEF AfterNames
<1>4. NamesLeft'
  BY <1>1, <1>2, NamesStay DEF AfterNames
<1>5. leaf' = <<>>
  BY <1>1 DEF IInv, StageInv
<1>6. StageInv'
  BY <1>1, <1>5 DEF StageInv
<1>7. QED
  BY <1>1, <1>2, <1>3, <1>4, <1>6 DEF IInv, AfterNames

LEMMA PhaseFailsKeeps ==
  ASSUME IInv, PhaseFails
  PROVE  IInv'
<1>1. /\ stage \in {"names", "seeds"} /\ stage' = "failed"
      /\ stage = "names" => npc = "failed"
      /\ UNCHANGED <<input, names, component_fid, seeding, map, walk>>
  BY DEF PhaseFails
<1>2. /\ UNCHANGED <<file, npc, leaf>>
      /\ InNames => InNames'
      /\ AfterNames => AfterNames'
  BY <1>1, PhaseStays
<1>3. file \in Files /\ leaf = <<>>
  BY <1>1 DEF IInv, StageInv
<1>4. StageInv'
  BY <1>1, <1>2, <1>3 DEF StageInv
<1>5. IF npc = "failed" THEN InNames ELSE AfterNames
  BY <1>1 DEF IInv
<1>6. CASE npc = "failed"
  <2>1. npc' = "failed" /\ InNames'
    BY <1>2, <1>5, <1>6
  <2>2. QED
    BY <1>1, <1>2, <1>3, <1>4, <2>1 DEF IInv
<1>7. CASE npc # "failed"
  <2>1. stage # "names" /\ npc' # "failed" /\ stage' # "names"
    BY <1>1, <1>2, <1>7
  <2>2. AfterNames'
    BY <1>2, <1>5, <1>7
  <2>3. QED
    BY <1>2, <1>3, <1>4, <2>1, <2>2 DEF IInv
<1>8. QED
  BY <1>6, <1>7

LEMMA BuildReachableKeeps ==
  ASSUME IInv, BuildReachable
  PROVE  IInv'
<1>1. /\ stage = "reach" /\ stage' = "hydrate"
      /\ reached' = DirsBelow(Tr!DistinctRoots(seeds.root))
      /\ UNCHANGED <<file, columns, component_fid>>
      /\ UNCHANGED <<spc, batch, phase, slot, memo, seeds>>
      /\ UNCHANGED names /\ UNCHANGED <<npc, leaf>>
  BY DEF BuildReachable, input, names, seeding, walk
<1>2. /\ npc # "failed" /\ file \in Files /\ AfterNames
      /\ spc = "done" /\ leaf = <<>>
  BY <1>1 DEF IInv, StageInv
<1>3. SeedsInv' /\ NamesLeft'
  BY <1>1, <1>2, SeedsStay, NamesStay DEF AfterNames
<1>4. reached' = DirsBelow(Tr!DistinctRoots(seeds.root))'
  BY <1>1
<1>5. StageInv'
  BY <1>1, <1>2, <1>4 DEF StageInv
<1>6. QED
  BY <1>1, <1>2, <1>3, <1>5 DEF IInv, AfterNames

\* hydrate returns the table of exactly the directories and names asked for,
\* and every row starts at its root: all that traverse's proofs start from.
LEMMA HydrateKeeps ==
  ASSUME IInv, Hydrate
  PROVE  IInv'
<1>1. /\ stage = "hydrate" /\ stage' = "traverse" /\ Ma!Build
      /\ tpc' = [r \in Tr!Rows |-> "walk"] /\ i' = [r \in Tr!Rows |-> 1]
      /\ cur' = seeds.root /\ leaf' = [r \in Tr!Rows |-> 0]
      /\ status' = [r \in Tr!Rows |-> "none"]
      /\ UNCHANGED <<file, columns, npc, rows, local, distinct, scan, component_fid>>
      /\ UNCHANGED <<spc, batch, phase, slot, memo, seeds>>
  BY DEF Hydrate, input, seeding
<1>2. table' = Ma!ExactTable /\ UNCHANGED <<reached, requested>>
  BY <1>1 DEF Ma!Build
<1>3. /\ npc # "failed" /\ file \in Files /\ AfterNames /\ spc = "done"
      /\ reached = DirsBelow(Tr!DistinctRoots(seeds.root))
  BY <1>1 DEF IInv, StageInv
<1>4. AfterNames'
  <2>1. UNCHANGED names
    BY <1>1, <1>2 DEF names
  <2>2. SeedsInv' /\ NamesLeft'
    BY <1>1, <1>3, <2>1, SeedsStay, NamesStay DEF AfterNames
  <2>3. QED
    BY <2>2 DEF AfterNames
<1>5. reached' = DirsBelow(Tr!DistinctRoots(seeds.root))'
  BY <1>1, <1>2, <1>3
<1>6. table' = Ma!ExactTable'
  BY <1>2 DEF Ma!ExactTable, Ma!Exact
<1>7. TP!Inputs'
  <2>1. (file \in Files /\ AfterNames /\ spc = "done"
           /\ reached = DirsBelow(Tr!DistinctRoots(seeds.root))
           /\ table = Ma!ExactTable => TP!Inputs)'
    BY InputsReady, PTL
  <2>2. QED
    BY <1>1, <1>3, <1>4, <1>5, <1>6, <2>1
<1>8. TP!Start'
  BY <1>1 DEF TP!Start, TP!Rows, Tr!Rows
<1>9. TP!IInv'
  <2>1. (TP!Inputs /\ TP!Start => TP!IInv)'
    BY WalkStarts, PTL
  <2>2. QED
    BY <1>7, <1>8, <2>1
<1>10. StageInv'
  BY <1>1, <1>3, <1>5, <1>9 DEF StageInv
<1>11. QED
  BY <1>1, <1>3, <1>4, <1>10 DEF IInv

LEMMA HydrateFailsKeeps ==
  ASSUME IInv, HydrateFails
  PROVE  IInv'
<1>1. /\ stage = "hydrate" /\ stage' = "failed" /\ Ma!Abort
      /\ UNCHANGED <<file, columns, npc, rows, local, distinct, scan, component_fid>>
      /\ UNCHANGED <<spc, batch, phase, slot, memo, seeds, leaf>>
  BY DEF HydrateFails, input, seeding, walk
<1>2. UNCHANGED names
  BY <1>1 DEF Ma!Abort, names
<1>3. npc # "failed" /\ file \in Files /\ AfterNames /\ leaf = <<>>
  BY <1>1 DEF IInv, StageInv
<1>4. SeedsInv' /\ NamesLeft'
  BY <1>1, <1>2, <1>3, SeedsStay, NamesStay DEF AfterNames
<1>5. StageInv'
  BY <1>1, <1>3 DEF StageInv
<1>6. QED
  BY <1>1, <1>3, <1>4, <1>5 DEF IInv, AfterNames

\* The walk is the one that traverse's proofs are about.
LEMMA SameWalk ==
  ASSUME NEW r \in Tr!Rows, Tr!WalkRow(r), UNCHANGED <<seeds, reached, requested, table>>
  PROVE  TP!WalkRow(r) /\ r \in TP!Rows
<1>1. TP!Rows = Tr!Rows /\ TP!Hit(r) = Tr!Hit(r) /\ TP!Map!NoEntry = Tr!Map!NoEntry
  BY DEF TP!Rows, Tr!Rows, TP!Hit, Tr!Hit, TP!Map!NoEntry, Tr!Map!NoEntry,
         TP!Map!NoNode, Tr!Map!NoNode
<1>2. TP!RootMissing = Tr!RootMissing /\ TP!FidMissing = Tr!FidMissing
  BY DEF TP!RootMissing, Tr!RootMissing, TP!FidMissing, Tr!FidMissing
<1>3. UNCHANGED TP!inputs
  BY DEF TP!inputs, Se!PathOf
<1>4. /\ TP!Found(r) <=> Tr!Found(r)
      /\ TP!AtComponent(r) <=> Tr!AtComponent(r)
      /\ TP!IsLast(r) <=> Tr!IsLast(r)
  BY <1>1, <1>2 DEF TP!Found, Tr!Found, TP!AtComponent, Tr!AtComponent, TP!IsLast, Tr!IsLast
<1>5. \A node, st : Tr!Give(r, node, st) => TP!Give(r, node, st)
  BY <1>3 DEF TP!Give, Tr!Give
<1>6. CASE Tr!NoRoot(r)
  BY <1>1, <1>2, <1>5, <1>6 DEF Tr!NoRoot, TP!NoRoot, TP!WalkRow
<1>7. CASE Tr!EmptyPath(r)
  BY <1>1, <1>2, <1>5, <1>7 DEF Tr!EmptyPath, TP!EmptyPath, TP!WalkRow
<1>8. CASE Tr!ComponentAbsent(r)
  BY <1>1, <1>4, <1>5, <1>8 DEF Tr!ComponentAbsent, TP!ComponentAbsent, TP!WalkRow
<1>9. CASE Tr!FinalComponent(r)
  <2>1. /\ TP!LeafOfLast(TP!Hit(r)) = Tr!LeafOfLast(Tr!Hit(r))
        /\ TP!StatusOfLast(TP!Hit(r).ty) = Tr!StatusOfLast(Tr!Hit(r).ty)
    BY <1>1 DEF TP!LeafOfLast, Tr!LeafOfLast, TP!StatusOfLast, Tr!StatusOfLast
  <2>2. QED
    BY <1>1, <1>4, <1>5, <1>9, <2>1 DEF Tr!FinalComponent, TP!FinalComponent, TP!WalkRow
<1>10. CASE Tr!Descend(r)
  BY <1>1, <1>3, <1>4, <1>10 DEF Tr!Descend, TP!Descend, TP!WalkRow
<1>11. CASE Tr!Blocked(r)
  BY <1>1, <1>4, <1>5, <1>11 DEF Tr!Blocked, TP!Blocked, TP!WalkRow
<1>12. QED
  BY <1>1, <1>6, <1>7, <1>8, <1>9, <1>10, <1>11 DEF Tr!WalkRow

LEMMA WalkStepKeeps ==
  ASSUME IInv, WalkStep
  PROVE  IInv'
<1>1. /\ stage = "traverse" /\ stage' = "traverse"
      /\ UNCHANGED <<file, columns, component_fid>>
      /\ UNCHANGED <<spc, batch, phase, slot, memo, seeds>>
      /\ UNCHANGED names /\ UNCHANGED <<npc, reached, requested, table>>
  BY DEF WalkStep, input, names, seeding, map
<1>2. PICK r \in Tr!Rows : Tr!WalkRow(r)
  BY DEF WalkStep
<1>3. /\ npc # "failed" /\ file \in Files /\ AfterNames /\ TP!IInv
      /\ spc = "done" /\ reached = DirsBelow(Tr!DistinctRoots(seeds.root))
  BY <1>1 DEF IInv, StageInv
<1>4. SeedsInv' /\ NamesLeft'
  BY <1>1, <1>3, SeedsStay, NamesStay DEF AfterNames
<1>5. TP!IInv'
  <2>1. TP!WalkRow(r) /\ r \in TP!Rows
    BY <1>1, <1>2, SameWalk
  <2>2. QED
    BY <1>3, <2>1, WalkKept DEF TP!Next
<1>6. reached' = DirsBelow(Tr!DistinctRoots(seeds.root))'
  BY <1>1, <1>3
<1>7. StageInv'
  BY <1>1, <1>3, <1>5, <1>6 DEF StageInv
<1>8. QED
  BY <1>1, <1>3, <1>4, <1>7 DEF IInv, AfterNames

\* TraverseReturns, Over, and a step that changes nothing.
LEMMA EndKeeps ==
  ASSUME IInv, TraverseReturns \/ Over \/ UNCHANGED vars
  PROVE  IInv'
<1>1. /\ UNCHANGED <<input, names, component_fid, seeding, map, walk>>
      /\ stage' = stage \/ (stage = "traverse" /\ stage' = "emit")
  BY DEF TraverseReturns, Over, vars
<1>2. /\ UNCHANGED <<file, npc, spc, reached, leaf, seeds>>
      /\ InNames => InNames'
      /\ AfterNames => AfterNames'
      /\ TP!IInv => TP!IInv'
  BY <1>1, PhaseStays
<1>3. StageInv /\ file \in Files
  BY DEF IInv
<1>4. /\ stage' \in {"reach", "hydrate", "traverse", "emit"} => spc' = "done"
      /\ stage' \in {"hydrate", "traverse", "emit"} =>
           reached' = DirsBelow(Tr!DistinctRoots(seeds.root))'
      /\ stage' \notin {"traverse", "emit"} => leaf' = <<>>
  BY <1>1, <1>2, <1>3 DEF StageInv
<1>5. stage' \in {"traverse", "emit"} => TP!IInv'
  BY <1>1, <1>2, <1>3 DEF StageInv
<1>6. StageInv'
  BY <1>1, <1>3, <1>4, <1>5 DEF StageInv
<1>7. CASE stage = "names" \/ npc = "failed"
  <2>1. InNames' /\ (stage' = "names" \/ npc' = "failed")
    BY <1>1, <1>2, <1>7 DEF IInv
  <2>2. npc' = "failed" => stage' \in {"names", "failed"}
    BY <1>1, <1>2 DEF IInv
  <2>3. QED
    BY <1>2, <1>3, <1>6, <2>1, <2>2 DEF IInv
<1>8. CASE ~(stage = "names" \/ npc = "failed")
  <2>1. stage' # "names" /\ npc' # "failed"
    BY <1>1, <1>2, <1>8
  <2>2. AfterNames
    BY <1>8 DEF IInv
  <2>3. QED
    BY <1>2, <1>3, <1>6, <2>1, <2>2 DEF IInv
<1>9. QED
  BY <1>7, <1>8

LEMMA InitHolds == Init => IInv
<1> SUFFICES ASSUME Init PROVE IInv
  OBVIOUS
<1>1. /\ stage = "names" /\ file \in Files /\ Na!Init
      /\ component_fid = << >> /\ Se!Init /\ leaf = <<>>
  BY DEF Init
<1>2. NamesInv
  BY <1>1, NamesStarts
<1>3. StageInv
  BY <1>1 DEF StageInv
<1>4. QED
  BY <1>1, <1>2, <1>3 DEF IInv, InNames

LEMMA NextKeeps == IInv /\ [Next]_vars => IInv'
<1> SUFFICES ASSUME IInv, [Next]_vars PROVE IInv'
  OBVIOUS
<1>1. \/ NamesStep \/ NamesReturns \/ SeedsStep \/ SeedsReturns \/ PhaseFails
      \/ BuildReachable \/ Hydrate \/ HydrateFails \/ WalkStep
      \/ TraverseReturns \/ Over \/ UNCHANGED vars
  BY DEF Next
<1>2. QED
  BY <1>1, NamesStepKeeps, NamesReturnsKeeps, SeedsStepKeeps, SeedsReturnsKeeps,
     PhaseFailsKeeps, BuildReachableKeeps, HydrateKeeps, HydrateFailsKeeps,
     WalkStepKeeps, EndKeeps

LEMMA Invariance == Spec => []IInv
BY InitHolds, NextKeeps, PTL DEF Spec

-----------------------------------------------------------------------------

\* What each phase takes for granted holds when it starts, and while it runs.
LEMMA NamesTypedThroughout ==
  ASSUME IInv
  PROVE  Na!TypeOK
<1>1. CASE stage = "names" \/ npc = "failed"
  BY <1>1, NamesTyped DEF IInv, InNames
<1>2. CASE ~(stage = "names" \/ npc = "failed")
  <2>1. file \in Files /\ NamesLeft
    BY <1>2 DEF IInv, AfterNames
  <2>2. /\ npc = "scan" /\ rows = Len(file) /\ local = <<>> /\ distinct = {}
        /\ scan = <<>> /\ requested \subseteq Na!LabelId
    BY <2>1 DEF NamesLeft, AskedIds
  <2>3. rows \in 0 .. Len(file)
    BY <2>1, <2>2, FileIs
  <2>4. DOMAIN local = {} /\ DOMAIN scan = {}
    BY <2>2, EmptySeq
  <2>5. QED
    BY <2>2, <2>3, <2>4 DEF Na!TypeOK
<1>3. QED
  BY <1>1, <1>2

LEMMA SeedsThroughout ==
  ASSUME IInv
  PROVE  Se!TypeOK /\ Se!SeedsAligned
<1>1. file \in Files
  BY DEF IInv
<1>2. SeedsInv
  <2>1. CASE stage = "names" \/ npc = "failed"
    BY <1>1, <2>1, SeedsStarts DEF IInv, InNames
  <2>2. CASE ~(stage = "names" \/ npc = "failed")
    BY <2>2 DEF IInv, AfterNames
  <2>3. QED
    BY <2>1, <2>2
<1>3. QED
  BY <1>1, <1>2, SeedsTyped, SeedsDescribed

LEMMA WalkTyped ==
  ASSUME TP!IInv
  PROVE  Tr!TypeOK
<1>1. TP!TypeOK
  BY DEF TP!IInv
<1>2. TP!RootMissing = Tr!RootMissing /\ TP!FidMissing = Tr!FidMissing
  BY DEF TP!RootMissing, Tr!RootMissing, TP!FidMissing, Tr!FidMissing
<1>3. /\ TP!Directory = Tr!Directory /\ TP!Node = Tr!Node
      /\ \A R : TP!DirsBelow(R) = Tr!DirsBelow(R)
  <2>1. TP!Directory = Tr!Directory /\ TP!Node = Tr!Node
    BY DEF TP!Directory, Tr!Directory, TP!Node, Tr!Node, TP!IsDir, Tr!IsDir
  <2>2. \A S : TP!ClosedUnderSubdirs(S) <=> Tr!ClosedUnderSubdirs(S)
    BY DEF TP!ClosedUnderSubdirs, Tr!ClosedUnderSubdirs, TP!IsDir, Tr!IsDir
  <2>3. QED
    BY <2>1, <2>2 DEF TP!DirsBelow, Tr!DirsBelow
<1>4. /\ \A R : TP!DistinctRoots(R) = Tr!DistinctRoots(R)
      /\ \A p : TP!NamesIn(p) = Tr!NamesIn(p)
  BY <1>2 DEF TP!DistinctRoots, Tr!DistinctRoots, TP!NamesIn, Tr!NamesIn
<1>5. TP!Rows = Tr!Rows /\ TP!Statuses = Tr!Statuses
  BY DEF TP!Rows, Tr!Rows, TP!Statuses, Tr!Statuses
<1>6. TP!Map!ExactTable = Tr!Map!ExactTable
  <2>1. /\ TP!Map!Node = Tr!Map!Node /\ TP!Map!NoNode = Tr!Map!NoNode
    BY DEF TP!Map!Node, Tr!Map!Node, TP!Map!NoNode, Tr!Map!NoNode
  <2>2. \A d, f : TP!Map!DirectStep(d, f) = Tr!Map!DirectStep(d, f)
    BY <2>1 DEF TP!Map!DirectStep, Tr!Map!DirectStep, TP!Map!IsNamed, Tr!Map!IsNamed
  <2>3. TP!Map!NoEntry = Tr!Map!NoEntry
    BY <2>1 DEF TP!Map!NoEntry, Tr!Map!NoEntry
  <2>4. \A d, f : TP!Map!Exact(d, f) = Tr!Map!Exact(d, f)
    BY <2>1, <2>2, <2>3 DEF TP!Map!Exact, Tr!Map!Exact
  <2>5. QED
    BY <2>1, <2>4 DEF TP!Map!ExactTable, Tr!Map!ExactTable
<1>7. Tr!Inputs
  BY <1>1, <1>2, <1>3, <1>4, <1>5, <1>6 DEF TP!TypeOK, TP!Inputs, Tr!Inputs
<1>8. QED
  BY <1>1, <1>2, <1>3, <1>5, <1>7 DEF TP!TypeOK, Tr!TypeOK

\* Each phase finds what it takes for granted: for every file and every graph,
\* traverse gets the map of exactly the directories and names of its own rows,
\* whatever order rayon folded names in and the threads filled the slots in.
THEOREM PhasesFitTogether == Spec => []TypeOK
<1>1. IInv => TypeOK
  <2> SUFFICES ASSUME IInv PROVE TypeOK
    OBVIOUS
  <2>1. Na!TypeOK /\ Se!TypeOK
    BY NamesTypedThroughout, SeedsThroughout
  <2>2. stage \in {"traverse", "emit"} => Tr!TypeOK
    BY WalkTyped DEF IInv, StageInv
  <2>3. QED
    BY <2>1, <2>2 DEF IInv, StageInv, TypeOK
<1>2. QED
  BY <1>1, Invariance, PTL

\* The bitset that filters hydrate's entries and the map that seeds look names
\* up in agree, at every moment of names and ever after.
THEOREM RequestedAgreesWithMap == Spec => []RequestedMatchesMap
<1>1. IInv => RequestedMatchesMap
  <2> SUFFICES ASSUME IInv PROVE RequestedMatchesMap
    OBVIOUS
  <2>1. CASE stage = "names"
    BY <2>1, NamesMatch DEF IInv, InNames, RequestedMatchesMap
  <2>2. CASE stage \notin {"names", "failed"}
    <3>1. component_fid = MapOf(AskedIds) /\ requested = AskedIds
      BY <2>2 DEF IInv, AfterNames, NamesLeft
    <3>2. PICK S \in SUBSET Na!LabelId : S = AskedIds
      BY DEF AskedIds
    <3>3. {MapOf(S)[n] : n \in DOMAIN MapOf(S)} = S
      BY MapOfIs
    <3>4. QED
      BY <2>2, <3>1, <3>2, <3>3 DEF RequestedMatchesMap
  <2>3. CASE stage = "failed"
    BY <2>3 DEF RequestedMatchesMap
  <2>4. QED
    BY <2>1, <2>2, <2>3
<1>2. QED
  BY <1>1, Invariance, PTL

\* build_names returns the ids of exactly the archived components of the rows,
\* wherever batches and chunks are cut and in whatever order they are reduced.
THEOREM NamesAreFound == Spec => []NamesExact
<1>1. IInv => NamesExact
  <2> SUFFICES ASSUME IInv PROVE Na!NamesExact
    BY DEF NamesExact
  <2>1. CASE stage = "names" \/ npc = "failed"
    BY <2>1, NamesAreExact DEF IInv, InNames
  <2>2. CASE ~(stage = "names" \/ npc = "failed")
    <3>1. scan = <<>>
      BY <2>2 DEF IInv, AfterNames, NamesLeft
    <3>2. ~Na!Done
      BY <3>1 DEF Na!Done
    <3>3. QED
      BY <3>2 DEF Na!NamesExact
  <2>3. QED
    BY <2>1, <2>2
<1>2. QED
  BY <1>1, Invariance, PTL

\* Row r of the vectors that build_seeds returns is row r of the file, with the
\* root, path and bin that the row has: whatever thread resolved it, and
\* whichever thread put its revision in the memo.
THEOREM SeedsStayAligned == Spec => []SeedsAligned
<1>1. IInv => SeedsAligned
  BY SeedsThroughout DEF SeedsAligned
<1>2. QED
  BY <1>1, Invariance, PTL

-----------------------------------------------------------------------------
(* The pipeline implements ResolverSpec, its termination apart.              *)

\* The root that seeds finds is the one the specification asks for.
LEMMA RootIsRight ==
  ASSUME NEW r
  PROVE  Se!RootOf(Se!Key(r)) =
           IF Resolver!RevOf(r) \in DOMAIN NodeOfRev
             THEN Resolver!FirstDir(NodeOfRev[Resolver!RevOf(r)]) ELSE Resolver!NoNode
<1>1. Se!Key(r) = Resolver!RevOf(r)
  BY DEF Se!Key, Resolver!RevOf
<1>2. Se!RootMissing = Resolver!NoNode
  BY DEF Se!RootMissing, Resolver!NoNode
<1>3. ASSUME NEW n \in Node
      PROVE  Se!FirstDirectory(n) = Resolver!FirstDir(n)
  <2>1. Succ[n] \in Seq(Node)
    BY GraphAssumption
  <2>2. DOMAIN Succ[n] = 1 .. Len(Succ[n]) /\ Len(Succ[n]) \in Nat
    BY <2>1, LenProperties
  <2>3. PICK T : T = {j \in DOMAIN Succ[n] : Se!IsDir(Succ[n][j])}
    OBVIOUS
  <2>4. T = {j \in DOMAIN Succ[n] : Resolver!IsDir(Succ[n][j])}
    BY <2>3 DEF Se!IsDir, Resolver!IsDir
  <2>5. CASE T = {}
    BY <1>2, <2>3, <2>4, <2>5 DEF Se!FirstDirectory, Resolver!FirstDir
  <2>6. CASE T # {}
    <3>1. T \in SUBSET Nat
      BY <2>2, <2>3
    <3>2. PICK m \in T : \A j \in T : m <= j
      BY <2>6, <3>1, HasLeast
    <3>3. \A j \in T : (\A h \in T : j <= h) => j = m
      BY <3>1, <3>2
    <3>4. (CHOOSE j \in T : \A h \in T : j <= h) = m
      BY <3>2, <3>3
    <3>5. Resolver!FirstDir(n) = Succ[n][m]
      BY <2>4, <2>6, <3>4 DEF Resolver!FirstDir
    <3>6. PICK j : j = CHOOSE k \in DOMAIN Succ[n] :
                         Se!IsDir(Succ[n][k]) /\ \A h \in 1 .. k - 1 : ~Se!IsDir(Succ[n][h])
      OBVIOUS
    <3>7. \A h \in 1 .. m - 1 : ~Se!IsDir(Succ[n][h])
      <4> SUFFICES ASSUME NEW h \in 1 .. m - 1 PROVE ~Se!IsDir(Succ[n][h])
        OBVIOUS
      <4>1. m \in DOMAIN Succ[n] /\ m \in Nat
        BY <2>3, <3>1, <3>2
      <4>2. h \in DOMAIN Succ[n] /\ ~(m <= h)
        BY <2>2, <4>1
      <4>3. h \notin T
        BY <3>2, <4>2
      <4>4. QED
        BY <2>3, <4>2, <4>3
    <3>8. m \in DOMAIN Succ[n] /\ Se!IsDir(Succ[n][m])
      BY <2>3, <3>2
    <3>9. /\ j \in DOMAIN Succ[n] /\ Se!IsDir(Succ[n][j])
          /\ \A h \in 1 .. j - 1 : ~Se!IsDir(Succ[n][h])
      BY <3>6, <3>7, <3>8
    <3>10. j = m
      <4>1. j \in T /\ j \in Nat /\ m \in Nat /\ m >= 1
        BY <2>2, <2>3, <3>1, <3>2, <3>9
      <4>2. m <= j
        BY <3>2, <4>1
      <4>3. m \notin 1 .. j - 1
        BY <3>8, <3>9
      <4>4. QED
        BY <4>1, <4>2, <4>3
    <3>11. \E k \in DOMAIN Succ[n] : Se!IsDir(Succ[n][k])
      BY <3>8
    <3>12. Se!FirstDirectory(n) = Succ[n][j]
      BY <3>6, <3>11 DEF Se!FirstDirectory
    <3>13. QED
      BY <3>5, <3>10, <3>12
  <2>7. QED
    BY <2>5, <2>6
<1>4. QED
  BY <1>1, <1>2, <1>3, SeedsParameters DEF Se!RootOf

\* A name has the id that the specification compares it through.
LEMMA FidIsRight ==
  ASSUME component_fid = MapOf(AskedIds), NEW n \in Asked(0, Len(file))
  PROVE  Se!FidOf(n) = Resolver!FidOfName(n)
<1>1. Fid = Na!LabelId /\ Se!FidMissing = Resolver!NoNode
  BY ParametersTyped DEF Se!FidMissing, Resolver!NoNode
<1>2. CASE \E f \in Fid : LabelName[f] = n
  <2>1. PICK f : f = CHOOSE h \in Fid : LabelName[h] = n
    OBVIOUS
  <2>2. f \in Fid /\ LabelName[f] = n
    BY <1>2, <2>1
  <2>3. Se!FidOf(n) = f
    BY <1>1, <2>2, FidIs
  <2>4. QED
    BY <1>2, <2>1, <2>3 DEF Resolver!FidOfName
<1>3. CASE ~\E f \in Fid : LabelName[f] = n
  <2>1. AskedIds \subseteq Fid
    BY <1>1 DEF AskedIds
  <2>2. Se!FidOf(n) = Se!FidMissing
    BY <1>3, <2>1, FidIs
  <2>3. QED
    BY <1>1, <1>3, <2>2 DEF Resolver!FidOfName
<1>4. QED
  BY <1>2, <1>3

\* What a row of the vectors asks for is what the specification answers.
LEMMA RowAsksRight ==
  ASSUME file \in Files, AfterNames, spc = "done", NEW r \in DOMAIN file
  PROVE  Resolver!Right(r) =
           IF seeds.root[r] = TP!RootMissing THEN Resolver!NoNode
           ELSE TP!DirectResolve(seeds.root[r], Se!PathOf(r))
<1>1. component_fid = MapOf(AskedIds)
  BY DEF AfterNames, NamesLeft
<1>2. seeds.root[r] = Se!RootOf(Se!Key(r))
  <2>1. Describes(seeds, Len(file)) /\ DOMAIN file = 1 .. Len(file)
    BY FileIs DEF AfterNames, SeedsInv
  <2>2. [root |-> seeds.root[r],
         fids |-> SubSeq(seeds.path_fids, seeds.path_off[r] + 1, seeds.path_off[r + 1]),
         bin |-> seeds.bin[r]] = RowRight(r)
    BY <2>1 DEF Describes
  <2>3. QED
    BY <2>2 DEF RowRight, Se!RowOut
<1>3. Se!PathOf(r) = [c \in DOMAIN file[r].comps |-> Resolver!FidOfName(file[r].comps[c])]
  <2>1. Se!PathOf(r) = RowRight(r).fids
    BY PathsAre
  <2>2. RowRight(r).fids = [c \in DOMAIN file[r].comps |-> Se!FidOf(file[r].comps[c])]
    BY DEF RowRight, Se!RowOut
  <2>3. ASSUME NEW c \in DOMAIN file[r].comps
        PROVE  Se!FidOf(file[r].comps[c]) = Resolver!FidOfName(file[r].comps[c])
    <3>1. file[r].comps[c] \in Na!Components(r)
      BY DEF Na!Components
    <3>2. file[r].comps[c] \in Asked(0, Len(file))
      BY <3>1, AskedByRows
    <3>3. QED
      BY <1>1, <3>2, FidIsRight
  <2>4. QED
    BY <2>1, <2>2, <2>3
<1>4. \A root, path : Resolver!DirectResolve(root, path) = TP!DirectResolve(root, path)
  BY DEF Resolver!DirectResolve, TP!DirectResolve, Resolver!DirectTrail, TP!DirectTrail,
         Resolver!DirectStep, TP!DirectStep, Resolver!IsNamed, TP!IsNamed,
         Resolver!Directory, TP!Directory, Resolver!Node, TP!Node,
         Resolver!IsDir, TP!IsDir, Resolver!NoNode, TP!NoNode
<1>5. TP!RootMissing = Resolver!NoNode
  BY DEF TP!RootMissing, Resolver!NoNode
<1>6. QED
  BY <1>2, <1>3, <1>4, <1>5, RootIsRight DEF Resolver!Right

Promise == <<file, columns, Result, stage = "failed">>

LEMMA NothingYet ==
  ASSUME leaf = <<>>
  PROVE  Result = << >>
<1>1. {r \in DOMAIN leaf : tpc[r] = "done"} = {}
  OBVIOUS
<1>2. QED
  BY <1>1 DEF Result

LEMMA ResultStays ==
  ASSUME UNCHANGED <<tpc, leaf, status>>
  PROVE  Result' = Result
BY DEF Result

\* Before the walk a phase may fail; nothing is answered.
LEMMA FailIsFail ==
  ASSUME leaf = <<>>, stage # "failed", stage' = "failed",
         UNCHANGED <<file, columns, tpc, leaf, status>>
  PROVE  Resolver!Next
<1>1. Result = << >> /\ Result' = Result
  BY NothingYet, ResultStays
<1>2. QED
  BY <1>1 DEF Resolver!Next, Resolver!Fail

\* Neither a row nor a failure.
LEMMA QuietStep ==
  ASSUME stage # "failed", stage' # "failed", UNCHANGED <<file, columns>>,
         Result' = Result
  PROVE  UNCHANGED Promise
BY DEF Promise

\* A row that gets its answer gets the one that the specification gives it.
LEMMA GiveIsAnswer ==
  ASSUME IInv, IInv', stage = "traverse", stage' = "traverse",
         UNCHANGED <<file, columns, seeds>>,
         NEW r \in TP!Rows, NEW node, NEW st,
         tpc[r] = "walk", TP!Give(r, node, st)
  PROVE  Resolver!Next
<1>1. file \in Files /\ AfterNames /\ spc = "done" /\ TP!IInv /\ TP!IInv'
  BY DEF IInv, StageInv
<1>2. /\ Len(seeds.root) = Len(file) /\ DOMAIN seeds.root = DOMAIN file
  BY <1>1, PathsAre
<1>3. TP!Rows = DOMAIN file /\ TP!Rows' = DOMAIN file
  BY <1>2 DEF TP!Rows
<1>4. /\ DOMAIN leaf = DOMAIN file /\ DOMAIN status = DOMAIN file
      /\ DOMAIN tpc = DOMAIN file
  BY <1>1, <1>3 DEF TP!IInv, TP!FunctionInv, TP!TypeOK
<1>5. /\ leaf' = [leaf EXCEPT ![r] = node] /\ status' = [status EXCEPT ![r] = st]
      /\ tpc' = [tpc EXCEPT ![r] = "done"]
  BY DEF TP!Give
<1>6. r \in DOMAIN file /\ r \notin DOMAIN Result
  BY <1>3 DEF Result
<1>7. (IF st = "Ok" THEN node ELSE Resolver!NoNode) = Resolver!Right(r)
  <2>1. tpc'[r] = "done" /\ status'[r] = st /\ leaf'[r] = node
    BY <1>4, <1>5, <1>6
  <2>2. /\ (TP!Verdict(r, status[r], leaf[r]))'
    BY <1>1, <1>3, <1>6, <2>1 DEF TP!IInv, TP!VerdictInv
  <2>3. seeds' = seeds /\ Se!PathOf(r)' = Se!PathOf(r)
    BY DEF Se!PathOf
  <2>4. DOMAIN seeds.root = DOMAIN file
    BY <1>2
  <2>5. IF st = "Ok"
          THEN /\ seeds.root[r] # TP!RootMissing
               /\ node = TP!DirectResolve(seeds.root[r], Se!PathOf(r))
          ELSE \/ seeds.root[r] = TP!RootMissing
               \/ TP!DirectResolve(seeds.root[r], Se!PathOf(r)) = TP!NoNode
    BY <1>6, <2>1, <2>2, <2>3, <2>4 DEF TP!Verdict
  <2>6. Resolver!Right(r) =
          IF seeds.root[r] = TP!RootMissing THEN Resolver!NoNode
          ELSE TP!DirectResolve(seeds.root[r], Se!PathOf(r))
    BY <1>1, <1>6, RowAsksRight
  <2>7. TP!NoNode = Resolver!NoNode
    BY DEF TP!NoNode, Resolver!NoNode
  <2>8. QED
    BY <2>5, <2>6, <2>7
<1>8. Result' = [x \in DOMAIN Result \cup {r} |->
                   IF x = r THEN Resolver!Right(r) ELSE Result[x]]
  <2>1. PICK D : D = {x \in DOMAIN leaf : tpc[x] = "done"}
    OBVIOUS
  <2>2. DOMAIN Result = D
    BY <2>1 DEF Result
  <2>3. \A x \in D : Result[x] = IF status[x] = "Ok" THEN leaf[x] ELSE NoNode
    BY <2>1 DEF Result
  <2>4. {x \in DOMAIN leaf' : tpc'[x] = "done"} = D \cup {r}
    BY <1>4, <1>5, <1>6, <2>1
  <2>5. Result' = [x \in D \cup {r} |-> IF status'[x] = "Ok" THEN leaf'[x] ELSE NoNode]
    BY <2>4 DEF Result
  <2>6. \A x \in D : x # r => status'[x] = status[x] /\ leaf'[x] = leaf[x]
    BY <1>4, <1>5, <2>1
  <2>7. r \notin D /\ status'[r] = st /\ leaf'[r] = node
    BY <1>4, <1>5, <1>6, <2>2
  <2>8. NoNode = Resolver!NoNode
    BY DEF NoNode, Resolver!NoNode
  <2>9. \A x \in D \cup {r} :
          (IF status'[x] = "Ok" THEN leaf'[x] ELSE NoNode)
            = IF x = r THEN Resolver!Right(r) ELSE Result[x]
    BY <1>7, <2>3, <2>6, <2>7, <2>8
  <2>10. QED
    BY <2>2, <2>5, <2>9
<1>9. Resolver!Answer(r)
  BY <1>6, <1>8 DEF Resolver!Answer
<1>10. QED
  BY <1>6, <1>9 DEF Resolver!Next

LEMMA WalkStepAnswers ==
  ASSUME IInv, IInv', WalkStep
  PROVE  Resolver!Next \/ UNCHANGED Promise
<1>1. /\ stage = "traverse" /\ stage' = "traverse"
      /\ UNCHANGED <<file, columns, seeds, reached, requested, table>>
  BY DEF WalkStep, input, names, seeding, map
<1>2. PICK r \in Tr!Rows : Tr!WalkRow(r)
  BY DEF WalkStep
<1>3. TP!WalkRow(r) /\ r \in TP!Rows
  BY <1>1, <1>2, SameWalk
<1>4. CASE TP!Descend(r)
  <2>1. UNCHANGED <<tpc, leaf, status>>
    BY <1>4 DEF TP!Descend
  <2>2. QED
    BY <1>1, <2>1, ResultStays, QuietStep
<1>5. CASE ~TP!Descend(r)
  <2>1. \E node, st : tpc[r] = "walk" /\ TP!Give(r, node, st)
    BY <1>3, <1>5 DEF TP!WalkRow, TP!NoRoot, TP!EmptyPath, TP!ComponentAbsent,
                      TP!FinalComponent, TP!Blocked, TP!AtComponent
  <2>2. QED
    BY <1>1, <1>3, <2>1, GiveIsAnswer
<1>6. QED
  BY <1>4, <1>5

LEMMA StepAnswers == IInv /\ IInv' /\ [Next]_vars => [Resolver!Next]_Promise
<1> SUFFICES ASSUME IInv, IInv', [Next]_vars
             PROVE  Resolver!Next \/ UNCHANGED Promise
  OBVIOUS
<1>1. CASE NamesStep
  <2>1. /\ stage = "names" /\ stage' = "names"
        /\ UNCHANGED <<file, columns, tpc, leaf, status>>
    BY <1>1, NamesKeepsInput DEF NamesStep, walk
  <2>2. QED
    BY <2>1, ResultStays, QuietStep
<1>2. CASE SeedsStep
  <2>1. /\ stage = "seeds" /\ stage' = "seeds"
        /\ UNCHANGED <<file, columns, tpc, leaf, status>>
    BY <1>2 DEF SeedsStep, input, walk
  <2>2. QED
    BY <2>1, ResultStays, QuietStep
<1>3. CASE NamesReturns \/ SeedsReturns \/ BuildReachable \/ TraverseReturns
  <2>1. /\ stage # "failed" /\ stage' # "failed"
        /\ UNCHANGED <<file, columns, tpc, leaf, status>>
    BY <1>3 DEF NamesReturns, SeedsReturns, BuildReachable, TraverseReturns, input, walk
  <2>2. QED
    BY <2>1, ResultStays, QuietStep
<1>4. CASE PhaseFails \/ HydrateFails
  <2>1. /\ stage \in {"names", "seeds", "hydrate"} /\ stage' = "failed"
        /\ UNCHANGED <<file, columns, tpc, leaf, status>>
    BY <1>4 DEF PhaseFails, HydrateFails, input, walk
  <2>2. leaf = <<>>
    BY <2>1 DEF IInv, StageInv
  <2>3. QED
    BY <2>1, <2>2, FailIsFail
<1>5. CASE Hydrate
  <2>1. /\ stage = "hydrate" /\ stage' = "traverse" /\ UNCHANGED <<file, columns>>
        /\ tpc' = [r \in Tr!Rows |-> "walk"] /\ leaf' = [r \in Tr!Rows |-> 0]
    BY <1>5 DEF Hydrate, input
  <2>2. Result = << >>
    BY <2>1, NothingYet DEF IInv, StageInv
  <2>3. {r \in DOMAIN leaf' : tpc'[r] = "done"} = {}
    BY <2>1
  <2>4. Result' = << >>
    BY <2>3 DEF Result
  <2>5. QED
    BY <2>1, <2>2, <2>4, QuietStep
<1>6. CASE WalkStep
  BY <1>6, WalkStepAnswers
<1>7. CASE Over \/ UNCHANGED vars
  <2>1. UNCHANGED <<stage, file, columns, tpc, leaf, status>>
    BY <1>7 DEF Over, vars, input, walk
  <2>2. QED
    BY <2>1, ResultStays DEF Promise
<1>8. QED
  BY <1>1, <1>2, <1>3, <1>4, <1>5, <1>6, <1>7 DEF Next

\* All phases together keep the promise of the resolver that nt_verify checks
\* them against: a row is answered at most once and as the direct walk over the
\* whole graph answers it, and a failure comes before any answer.
THEOREM AnswersAreRight == Spec => Resolver!Safe
<1>1. Init => Resolver!Init
  <2> SUFFICES ASSUME Init PROVE Resolver!Init
    OBVIOUS
  <2>1. leaf = <<>> /\ stage = "names"
    BY DEF Init
  <2>2. Result = << >>
    BY <2>1, NothingYet
  <2>3. QED
    BY <2>1, <2>2 DEF Resolver!Init
<1>2. QED
  BY <1>1, Invariance, StepAnswers, PTL DEF Spec, Resolver!Safe, Promise
=============================================================================
