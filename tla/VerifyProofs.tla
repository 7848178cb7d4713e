---------------------------- MODULE VerifyProofs ----------------------------
(***************************************************************************)
(* Proofs about emit and nt_verify, for every way the file is cut into     *)
(* batches, every number of bins, rows and runs, every batch size of the   *)
(* two programs and every failure between them.                            *)
(***************************************************************************)
EXTENDS Verify, SequenceTheorems, WellFoundedInduction, TLAPS

-----------------------------------------------------------------------------
(* Induction, with the predicate as a set.                                   *)

LEMMA LeastOf ==
  ASSUME NEW T \in SUBSET Nat, T # {}
  PROVE  \E m \in T : \A k \in T : m <= k
<1>1. PICK m \in T : \A k \in T : <<k, m>> \notin OpToRel(<, Nat)
  BY NatLessThanWellFounded, WFMin
<1>2. ASSUME NEW k \in T
      PROVE  m <= k
  <2>1. ~(k < m)
    BY <1>1 DEF OpToRel
  <2>2. QED
    BY <2>1
<1>3. QED
  BY <1>2

LEMMA InductionInSet ==
  ASSUME NEW S, 0 \in S, \A m \in Nat : m \in S => m + 1 \in S
  PROVE  \A m \in Nat : m \in S
<1> SUFFICES ASSUME Nat \ S # {} PROVE FALSE
  OBVIOUS
<1>1. PICK m \in Nat \ S : \A k \in Nat \ S : m <= k
  BY LeastOf
<1>2. m - 1 \in Nat /\ ~(m <= m - 1) /\ (m - 1) + 1 = m
  BY <1>1
<1>3. QED
  BY <1>1, <1>2

\* A set that holds the empty sequence and is closed under Append holds every
\* sequence.
LEMMA SequencesInSet ==
  ASSUME NEW T, NEW P, <<>> \in P,
         \A s \in Seq(T), e \in T : s \in P => Append(s, e) \in P
  PROVE  \A s \in Seq(T) : s \in P
<1> DEFINE Held == {l \in Nat : \A s \in Seq(T) : Len(s) = l => s \in P}
<1>1. 0 \in Held
  BY EmptySeq
<1>2. ASSUME NEW l \in Nat, l \in Held
      PROVE  l + 1 \in Held
  <2> SUFFICES ASSUME NEW s \in Seq(T), Len(s) = l + 1
               PROVE  s \in P
    OBVIOUS
  <2>1. s # <<>>
    BY EmptySeq
  <2>2. PICK r \in Seq(T), e \in T : s = Append(r, e)
    BY <2>1, SequenceEmptyOrAppend
  <2>3. Len(r) \in Nat /\ Len(s) = Len(r) + 1
    BY <2>2, AppendProperties, LenProperties
  <2>4. r \in P
    BY <1>2, <2>3
  <2>5. QED
    BY <2>2, <2>4
<1>3. \A l \in Nat : l \in Held
  <2> HIDE DEF Held
  <2>1. QED
    BY <1>1, <1>2, InductionInSet
<1>4. QED
  BY <1>3, LenProperties

-----------------------------------------------------------------------------
(* SelectIn.                                                                 *)

Selects(t, s, S, l) ==
  t = [m \in 0 .. l |->
        IF m = 0 THEN <<>>
        ELSE IF s[m] \in S THEN Append(t[m - 1], s[m]) ELSE t[m - 1]]

\* The recursion that defines SelectIn has a solution of every length.
LEMMA SelectsExists ==
  ASSUME NEW s, NEW S
  PROVE  \A l \in Nat : \E t : Selects(t, s, S, l)
<1> DEFINE Solved == {l \in Nat : \E t : Selects(t, s, S, l)}
<1>1. 0 \in Solved
  <2>1. Selects([m \in 0 .. 0 |-> <<>>], s, S, 0)
    BY DEF Selects
  <2>2. QED
    BY <2>1
<1>2. ASSUME NEW l \in Nat, l \in Solved
      PROVE  l + 1 \in Solved
  <2>1. PICK t : Selects(t, s, S, l)
    BY <1>2
  <2> DEFINE last == IF s[l + 1] \in S THEN Append(t[l], s[l + 1]) ELSE t[l]
             u == [m \in 0 .. l + 1 |-> IF m \in 0 .. l THEN t[m] ELSE last]
  <2>2. \A m \in 0 .. l :
          t[m] = IF m = 0 THEN <<>>
                 ELSE IF s[m] \in S THEN Append(t[m - 1], s[m]) ELSE t[m - 1]
    BY <2>1 DEF Selects
  <2>3. ASSUME NEW m \in 0 .. l + 1
        PROVE  u[m] = IF m = 0 THEN <<>>
                      ELSE IF s[m] \in S THEN Append(u[m - 1], s[m]) ELSE u[m - 1]
    <3>1. CASE m = 0
      BY <2>2, <3>1
    <3>2. CASE m \in 1 .. l
      <4>1. m - 1 \in 0 .. l /\ m \in 0 .. l /\ m # 0
        BY <3>2
      <4>2. u[m] = t[m] /\ u[m - 1] = t[m - 1]
        BY <4>1
      <4>3. QED
        BY <2>2, <4>1, <4>2
    <3>3. CASE m = l + 1
      <4>1. m - 1 = l /\ m - 1 \in 0 .. l /\ ~(m \in 0 .. l) /\ m # 0
        BY <3>3
      <4>2. u[m] = last /\ u[m - 1] = t[l]
        BY <4>1
      <4>3. QED
        BY <3>3, <4>1, <4>2
    <3>4. QED
      BY <3>1, <3>2, <3>3
  <2>4. Selects(u, s, S, l + 1)
    BY <2>3 DEF Selects
  <2> HIDE DEF u
  <2>5. \E v : Selects(v, s, S, l + 1)
    BY <2>4
  <2>6. QED
    BY <2>5
<1>3. \A l \in Nat : l \in Solved
  <2> HIDE DEF Solved
  <2>1. QED
    BY <1>1, <1>2, InductionInSet
<1>4. QED
  BY <1>3

LEMMA SelectSolves ==
  ASSUME NEW s, NEW S, Len(s) \in Nat
  PROVE  \E t : Selects(t, s, S, Len(s)) /\ SelectIn(s, S) = t[Len(s)]
<1> DEFINE T == CHOOSE t : Selects(t, s, S, Len(s))
<1>1. Selects(T, s, S, Len(s))
  BY SelectsExists
<1>2. SelectIn(s, S) = T[Len(s)]
  BY DEF SelectIn, Selects
<1>3. QED
  BY <1>1, <1>2

\* Solutions for two sequences agree as long as the sequences do.
LEMMA SelectsAgree ==
  ASSUME NEW s, NEW r, NEW S, NEW l \in Nat, NEW k \in Nat, l <= k,
         \A m \in 1 .. l : s[m] = r[m],
         NEW t, Selects(t, s, S, l), NEW u, Selects(u, r, S, k)
  PROVE  t[l] = u[l]
<1> DEFINE Agreed == {m \in Nat : m <= l => t[m] = u[m]}
<1>1. \A m \in 0 .. l :
        t[m] = IF m = 0 THEN <<>>
               ELSE IF s[m] \in S THEN Append(t[m - 1], s[m]) ELSE t[m - 1]
  BY DEF Selects
<1>2. \A m \in 0 .. k :
        u[m] = IF m = 0 THEN <<>>
               ELSE IF r[m] \in S THEN Append(u[m - 1], r[m]) ELSE u[m - 1]
  BY DEF Selects
<1>3. 0 \in Agreed
  BY <1>1, <1>2
<1>4. ASSUME NEW m \in Nat, m \in Agreed
      PROVE  m + 1 \in Agreed
  <2> SUFFICES ASSUME m + 1 <= l PROVE t[m + 1] = u[m + 1]
    OBVIOUS
  <2>1. m + 1 \in 0 .. l /\ m + 1 \in 0 .. k /\ m + 1 \in 1 .. l
        /\ m + 1 # 0 /\ (m + 1) - 1 = m /\ m <= l
    OBVIOUS
  <2>2. t[m] = u[m]
    BY <1>4, <2>1
  <2>3. s[m + 1] = r[m + 1]
    BY <2>1
  <2>4. QED
    BY <1>1, <1>2, <2>1, <2>2, <2>3
<1>5. \A m \in Nat : m \in Agreed
  <2> HIDE DEF Agreed
  <2>1. QED
    BY <1>3, <1>4, InductionInSet
<1>6. QED
  BY <1>5

LEMMA SelectEmpty == \A S : SelectIn(<<>>, S) = <<>>
<1> TAKE S
<1>1. Len(<<>>) = 0 /\ Len(<<>>) \in Nat
  BY EmptySeq
<1>2. PICK t : Selects(t, <<>>, S, 0) /\ SelectIn(<<>>, S) = t[0]
  BY <1>1, SelectSolves
<1>3. QED
  BY <1>2 DEF Selects

LEMMA SelectAppend ==
  ASSUME NEW T, NEW s \in Seq(T), NEW e \in T, NEW S
  PROVE  SelectIn(Append(s, e), S) =
           IF e \in S THEN Append(SelectIn(s, S), e) ELSE SelectIn(s, S)
<1> DEFINE a == Append(s, e)
<1>1. /\ Len(s) \in Nat /\ Len(a) = Len(s) + 1
      /\ \A m \in 1 .. Len(s) : s[m] = a[m]
      /\ a[Len(s) + 1] = e
  BY AppendProperties, LenProperties
<1> HIDE DEF a
<1>2. Len(a) \in Nat /\ Len(s) <= Len(a)
  BY <1>1
<1>3. PICK t : Selects(t, s, S, Len(s)) /\ SelectIn(s, S) = t[Len(s)]
  BY <1>1, SelectSolves
<1>4. PICK u : Selects(u, a, S, Len(a)) /\ SelectIn(a, S) = u[Len(a)]
  BY <1>2, SelectSolves
<1>5. t[Len(s)] = u[Len(s)]
  BY <1>1, <1>2, <1>3, <1>4, SelectsAgree
<1>6. u[Len(a)] = IF a[Len(a)] \in S THEN Append(u[Len(a) - 1], a[Len(a)])
                  ELSE u[Len(a) - 1]
  <2>1. \A m \in 0 .. Len(a) :
          u[m] = IF m = 0 THEN <<>>
                 ELSE IF a[m] \in S THEN Append(u[m - 1], a[m]) ELSE u[m - 1]
    BY <1>4 DEF Selects
  <2>2. Len(a) \in 0 .. Len(a) /\ Len(a) # 0
    BY <1>1
  <2>3. QED
    BY <2>1, <2>2
<1>7. Len(a) - 1 = Len(s)
  BY <1>1
<1>8. SelectIn(a, S) = IF e \in S THEN Append(u[Len(s)], e) ELSE u[Len(s)]
  BY <1>1, <1>4, <1>6, <1>7
<1>9. SelectIn(a, S) = IF e \in S THEN Append(SelectIn(s, S), e) ELSE SelectIn(s, S)
  BY <1>3, <1>5, <1>8
<1>10. QED
  BY <1>9 DEF a

LEMMA SelectTyped ==
  ASSUME NEW T, NEW S
  PROVE  \A s \in Seq(T) : SelectIn(s, S) \in Seq(T)
<1> DEFINE P == {s \in Seq(T) : SelectIn(s, S) \in Seq(T)}
<1>1. <<>> \in P
  BY SelectEmpty, EmptySeq
<1>2. ASSUME NEW s \in Seq(T), NEW e \in T, s \in P
      PROVE  Append(s, e) \in P
  <2>1. SelectIn(s, S) \in Seq(T)
    BY <1>2
  <2>2. SelectIn(Append(s, e), S) =
          IF e \in S THEN Append(SelectIn(s, S), e) ELSE SelectIn(s, S)
    BY SelectAppend
  <2>3. Append(SelectIn(s, S), e) \in Seq(T) /\ Append(s, e) \in Seq(T)
    BY <2>1, AppendProperties
  <2>4. QED
    BY <2>1, <2>2, <2>3
<1>3. \A s \in Seq(T) : s \in P
  <2> HIDE DEF P
  <2>1. QED
    BY <1>1, <1>2, SequencesInSet
<1>4. QED
  BY <1>3

LEMMA AppendToConcat ==
  ASSUME NEW T, NEW s \in Seq(T), NEW r \in Seq(T), NEW e \in T
  PROVE  s \o Append(r, e) = Append(s \o r, e)
<1>1. Append(r, e) = r \o <<e>> /\ <<e>> \in Seq(T)
  BY AppendIsConcat
<1>2. s \o r \in Seq(T) /\ Append(s \o r, e) = (s \o r) \o <<e>>
  BY ConcatProperties, AppendIsConcat
<1>3. QED
  BY <1>1, <1>2, ConcatAssociative

LEMMA SelectConcat ==
  ASSUME NEW T, NEW s \in Seq(T), NEW S
  PROVE  \A r \in Seq(T) : SelectIn(s \o r, S) = SelectIn(s, S) \o SelectIn(r, S)
<1> DEFINE P == {r \in Seq(T) : SelectIn(s \o r, S) = SelectIn(s, S) \o SelectIn(r, S)}
<1>1. <<>> \in P
  <2>1. SelectIn(s, S) \in Seq(T)
    BY SelectTyped
  <2>2. s \o <<>> = s /\ SelectIn(s, S) \o <<>> = SelectIn(s, S)
    BY <2>1, ConcatEmptySeq
  <2>3. QED
    BY <2>2, SelectEmpty, EmptySeq
<1>2. ASSUME NEW r \in Seq(T), NEW e \in T, r \in P
      PROVE  Append(r, e) \in P
  <2>1. /\ SelectIn(s, S) \in Seq(T) /\ SelectIn(r, S) \in Seq(T)
        /\ s \o r \in Seq(T) /\ Append(r, e) \in Seq(T)
    BY SelectTyped, ConcatProperties, AppendProperties
  <2>2. SelectIn(s \o Append(r, e), S) = SelectIn(Append(s \o r, e), S)
    <3>1. s \o Append(r, e) = Append(s \o r, e)
      BY AppendToConcat
    <3>2. QED
      BY <3>1
  <2>3. CASE e \in S
    <3>1. SelectIn(Append(s \o r, e), S) = Append(SelectIn(s \o r, S), e)
      <4> DEFINE c == s \o r
      <4>1. c \in Seq(T)
        BY <2>1
      <4> HIDE DEF c
      <4>2. SelectIn(Append(c, e), S) = Append(SelectIn(c, S), e)
        BY <2>3, <4>1, SelectAppend
      <4>3. QED
        BY <4>2 DEF c
    <3>2. SelectIn(Append(r, e), S) = Append(SelectIn(r, S), e)
      BY <2>3, SelectAppend
    <3>3. SelectIn(s \o r, S) = SelectIn(s, S) \o SelectIn(r, S)
      BY <1>2
    <3>4. SelectIn(s, S) \o Append(SelectIn(r, S), e)
            = Append(SelectIn(s, S) \o SelectIn(r, S), e)
      BY <2>1, AppendToConcat
    <3>5. QED
      BY <2>1, <2>2, <3>1, <3>2, <3>3, <3>4
  <2>4. CASE e \notin S
    <3>1. SelectIn(Append(s \o r, e), S) = SelectIn(s \o r, S)
      BY <2>1, <2>4, SelectAppend
    <3>2. SelectIn(Append(r, e), S) = SelectIn(r, S)
      BY <2>4, SelectAppend
    <3>3. QED
      BY <1>2, <2>1, <2>2, <3>1, <3>2
  <2>5. QED
    BY <2>3, <2>4
<1>3. \A r \in Seq(T) : r \in P
  <2> HIDE DEF P
  <2>1. QED
    BY <1>1, <1>2, SequencesInSet
<1>4. QED
  BY <1>3

-----------------------------------------------------------------------------
(* Sequences that have no element in a set, or have one just once.           *)

None(s, X) == \A p \in 1 .. Len(s) : s[p] \notin X

Once(s, X) == \E p \in 1 .. Len(s) : \A q \in 1 .. Len(s) : s[q] \in X <=> q = p

LEMMA EmptyOnce == \A X : None(<<>>, X) /\ ~Once(<<>>, X)
BY EmptySeq DEF None, Once

LEMMA ConcatOnce ==
  ASSUME NEW T, NEW s \in Seq(T), NEW r \in Seq(T), NEW X
  PROVE  /\ None(s \o r, X) <=> None(s, X) /\ None(r, X)
         /\ Once(s, X) /\ None(r, X) => Once(s \o r, X)
         /\ None(s, X) /\ Once(r, X) => Once(s \o r, X)
         /\ Once(s \o r, X) =>
              (Once(s, X) /\ None(r, X)) \/ (None(s, X) /\ Once(r, X))
<1> DEFINE c == s \o r
           a == Len(s)
           z == Len(r)
<1>1. /\ a \in Nat /\ z \in Nat /\ Len(c) = a + z
      /\ \A p \in 1 .. a : p \in 1 .. a + z /\ c[p] = s[p]
      /\ \A p \in 1 .. z : p + a \in 1 .. a + z /\ c[p + a] = r[p]
      /\ \A p \in 1 .. a + z : p \in 1 .. a \/ p - a \in 1 .. z
  <2>1. /\ a \in Nat /\ z \in Nat /\ Len(c) = a + z
        /\ \A p \in 1 .. a + z : c[p] = IF p <= a THEN s[p] ELSE r[p - a]
    BY LenProperties, ConcatProperties
  <2> HIDE DEF c, a, z
  <2>2. ASSUME NEW p \in 1 .. z
        PROVE  p + a \in 1 .. a + z /\ ~(p + a <= a) /\ (p + a) - a = p
    BY <2>1
  <2>3. ASSUME NEW p \in 1 .. a
        PROVE  p \in 1 .. a + z /\ p <= a
    BY <2>1
  <2>4. QED
    BY <2>1, <2>2, <2>3
<1>2. /\ \A Y : None(s, Y) <=> \A p \in 1 .. a : s[p] \notin Y
      /\ \A Y : None(r, Y) <=> \A p \in 1 .. z : r[p] \notin Y
      /\ \A Y : Once(s, Y) <=> \E p \in 1 .. a : \A q \in 1 .. a : s[q] \in Y <=> q = p
      /\ \A Y : Once(r, Y) <=> \E p \in 1 .. z : \A q \in 1 .. z : r[q] \in Y <=> q = p
  BY DEF None, Once
<1>3. /\ \A Y : None(c, Y) <=> \A p \in 1 .. a + z : c[p] \notin Y
      /\ \A Y : Once(c, Y) <=>
           \E p \in 1 .. a + z : \A q \in 1 .. a + z : c[q] \in Y <=> q = p
  <2> HIDE DEF c, a, z
  <2>1. QED
    BY <1>1 DEF None, Once
<1> HIDE DEF c, a, z
<1>4. \A p \in 1 .. a + z : p \in 1 .. a \/ (p - a \in 1 .. z /\ (p - a) + a = p)
  BY <1>1
<1>5. None(c, X) <=> None(s, X) /\ None(r, X)
  <2>1. ASSUME None(s, X), None(r, X), NEW p \in 1 .. a + z
        PROVE  c[p] \notin X
    <3>1. CASE p \in 1 .. a
      BY <1>1, <1>2, <2>1, <3>1
    <3>2. CASE p - a \in 1 .. z /\ (p - a) + a = p
      <4>1. r[p - a] \notin X
        BY <1>2, <2>1, <3>2
      <4>2. c[(p - a) + a] = r[p - a]
        BY <1>1, <3>2
      <4>3. QED
        BY <3>2, <4>1, <4>2
    <3>3. QED
      BY <1>4, <3>1, <3>2
  <2>2. ASSUME None(c, X)
        PROVE  None(s, X) /\ None(r, X)
    BY <1>1, <1>2, <1>3, <2>2
  <2>3. QED
    BY <1>3, <2>1, <2>2
<1>6. ASSUME Once(s, X), None(r, X)
      PROVE  Once(c, X)
  <2>1. PICK p \in 1 .. a : \A q \in 1 .. a : s[q] \in X <=> q = p
    BY <1>2, <1>6
  <2>2. ASSUME NEW q \in 1 .. a + z
        PROVE  c[q] \in X <=> q = p
    <3>1. CASE q \in 1 .. a
      BY <1>1, <2>1, <3>1
    <3>2. CASE q - a \in 1 .. z /\ (q - a) + a = q
      <4>1. r[q - a] \notin X
        BY <1>2, <1>6, <3>2
      <4>2. c[(q - a) + a] = r[q - a]
        BY <1>1, <3>2
      <4>3. q # p
        BY <1>1, <3>2
      <4>4. QED
        BY <3>2, <4>1, <4>2, <4>3
    <3>3. QED
      BY <1>4, <3>1, <3>2
  <2>3. p \in 1 .. a + z
    BY <1>1
  <2>4. QED
    BY <1>3, <2>2, <2>3
<1>7. ASSUME None(s, X), Once(r, X)
      PROVE  Once(c, X)
  <2>1. PICK p \in 1 .. z : \A q \in 1 .. z : r[q] \in X <=> q = p
    BY <1>2, <1>7
  <2>2. ASSUME NEW q \in 1 .. a + z
        PROVE  c[q] \in X <=> q = p + a
    <3>1. CASE q \in 1 .. a
      <4>1. s[q] \notin X
        BY <1>2, <1>7, <3>1
      <4>2. c[q] = s[q]
        BY <1>1, <3>1
      <4>3. q # p + a
        BY <1>1, <3>1
      <4>4. QED
        BY <4>1, <4>2, <4>3
    <3>2. CASE q - a \in 1 .. z /\ (q - a) + a = q
      <4>1. c[(q - a) + a] = r[q - a]
        BY <1>1, <3>2
      <4>2. q - a = p <=> q = p + a
        BY <1>1, <3>2
      <4>3. QED
        BY <2>1, <3>2, <4>1, <4>2
    <3>3. QED
      BY <1>4, <3>1, <3>2
  <2>3. p + a \in 1 .. a + z
    BY <1>1
  <2>4. QED
    BY <1>3, <2>2, <2>3
<1>8. ASSUME Once(c, X)
      PROVE  (Once(s, X) /\ None(r, X)) \/ (None(s, X) /\ Once(r, X))
  <2>1. PICK p \in 1 .. a + z : \A q \in 1 .. a + z : c[q] \in X <=> q = p
    BY <1>3, <1>8
  <2>2. CASE p \in 1 .. a
    <3>1. ASSUME NEW q \in 1 .. z
          PROVE  r[q] \notin X
      <4>1. q + a \in 1 .. a + z /\ c[q + a] = r[q]
        BY <1>1
      <4>2. q + a # p
        BY <1>1, <2>2
      <4>3. QED
        BY <2>1, <4>1, <4>2
    <3>2. \A q \in 1 .. a : s[q] \in X <=> q = p
      BY <1>1, <2>1
    <3>3. QED
      BY <1>2, <2>2, <3>1, <3>2
  <2>3. CASE p - a \in 1 .. z
    <3>1. ASSUME NEW q \in 1 .. z
          PROVE  r[q] \in X <=> q = p - a
      <4>1. q + a \in 1 .. a + z /\ c[q + a] = r[q]
        BY <1>1
      <4>2. q + a = p <=> q = p - a
        BY <1>1
      <4>3. QED
        BY <2>1, <4>1, <4>2
    <3>2. ASSUME NEW q \in 1 .. a
          PROVE  s[q] \notin X
      <4>1. q \in 1 .. a + z /\ c[q] = s[q]
        BY <1>1
      <4>2. q # p
        BY <1>1, <2>3
      <4>3. QED
        BY <2>1, <4>1, <4>2
    <3>3. None(s, X)
      BY <1>2, <3>2
    <3>4. Once(r, X)
      BY <1>2, <2>3, <3>1
    <3>5. QED
      BY <3>3, <3>4
  <2>4. QED
    BY <1>4, <2>2, <2>3
<1>9. QED
  BY <1>5, <1>6, <1>7, <1>8 DEF c

LEMMA AppendOnce ==
  ASSUME NEW T, NEW s \in Seq(T), NEW e \in T, NEW X
  PROVE  /\ None(Append(s, e), X) <=> None(s, X) /\ e \notin X
         /\ Once(Append(s, e), X) <=>
              (Once(s, X) /\ e \notin X) \/ (None(s, X) /\ e \in X)
<1> DEFINE u == <<e>>
<1>1. Append(s, e) = s \o u /\ u \in Seq(T)
  BY AppendIsConcat
<1>2. None(u, X) <=> e \notin X
  BY DEF None
<1>3. Once(u, X) <=> e \in X
  BY DEF Once
<1> HIDE DEF u
<1>4. QED
  BY <1>1, <1>2, <1>3, ConcatOnce

\* What a selection has, and has just once, is what the sequence has of it.
LEMMA SelectOnce ==
  ASSUME NEW T, NEW S, NEW X
  PROVE  \A s \in Seq(T) :
           /\ None(SelectIn(s, S), X) <=> None(s, X \cap S)
           /\ Once(SelectIn(s, S), X) <=> Once(s, X \cap S)
<1> DEFINE P == {s \in Seq(T) : /\ None(SelectIn(s, S), X) <=> None(s, X \cap S)
                                /\ Once(SelectIn(s, S), X) <=> Once(s, X \cap S)}
<1>1. <<>> \in P
  BY SelectEmpty, EmptyOnce, EmptySeq
<1>2. ASSUME NEW s \in Seq(T), NEW e \in T, s \in P
      PROVE  Append(s, e) \in P
  <2>1. SelectIn(s, S) \in Seq(T) /\ Append(s, e) \in Seq(T)
    BY SelectTyped, AppendProperties
  <2>2. /\ None(Append(s, e), X \cap S) <=> None(s, X \cap S) /\ e \notin X \cap S
        /\ Once(Append(s, e), X \cap S) <=>
             (Once(s, X \cap S) /\ e \notin X \cap S) \/ (None(s, X \cap S) /\ e \in X \cap S)
    BY AppendOnce
  <2>3. CASE e \in S
    <3>1. SelectIn(Append(s, e), S) = Append(SelectIn(s, S), e)
      BY <2>3, SelectAppend
    <3>2. /\ None(Append(SelectIn(s, S), e), X) <=> None(SelectIn(s, S), X) /\ e \notin X
          /\ Once(Append(SelectIn(s, S), e), X) <=>
               (Once(SelectIn(s, S), X) /\ e \notin X)
                 \/ (None(SelectIn(s, S), X) /\ e \in X)
      BY <2>1, AppendOnce
    <3>3. QED
      BY <1>2, <2>1, <2>2, <2>3, <3>1, <3>2
  <2>4. CASE e \notin S
    <3>1. SelectIn(Append(s, e), S) = SelectIn(s, S)
      BY <2>4, SelectAppend
    <3>2. QED
      BY <1>2, <2>1, <2>2, <2>4, <3>1
  <2>5. QED
    BY <2>3, <2>4
<1>3. \A s \in Seq(T) : s \in P
  <2> HIDE DEF P
  <2>1. QED
    BY <1>1, <1>2, SequencesInSet
<1>4. QED
  BY <1>3

-----------------------------------------------------------------------------
(* The position in the file.                                                 *)

Sums(t, bs) ==
  t = [q \in 0 .. Len(bs) |-> IF q = 0 THEN 0 ELSE t[q - 1] + bs[q]]

LEMMA RowsInUnfolds ==
  ASSUME NEW bs \in Seq(Nat)
  PROVE  /\ RowsIn(bs, 0) = 0
         /\ \A j \in 0 .. Len(bs) - 1 :
              RowsIn(bs, j + 1) = RowsIn(bs, j) + bs[j + 1]
<1> DEFINE Upto(t, l) == t = [q \in 0 .. l |-> IF q = 0 THEN 0 ELSE t[q - 1] + bs[q]]
           Solved == {l \in Nat : \E t : Upto(t, l)}
<1>1. 0 \in Solved
  <2>1. Upto([q \in 0 .. 0 |-> 0], 0)
    OBVIOUS
  <2>2. QED
    BY <2>1
<1>2. ASSUME NEW l \in Nat, l \in Solved
      PROVE  l + 1 \in Solved
  <2>1. PICK t : Upto(t, l)
    BY <1>2
  <2> DEFINE u == [q \in 0 .. l + 1 |-> IF q \in 0 .. l THEN t[q] ELSE t[l] + bs[l + 1]]
  <2>2. \A q \in 0 .. l : t[q] = IF q = 0 THEN 0 ELSE t[q - 1] + bs[q]
    BY <2>1
  <2>3. ASSUME NEW q \in 0 .. l + 1
        PROVE  u[q] = IF q = 0 THEN 0 ELSE u[q - 1] + bs[q]
    <3>1. CASE q = 0
      BY <2>2, <3>1
    <3>2. CASE q \in 1 .. l
      <4>1. q - 1 \in 0 .. l /\ q \in 0 .. l /\ q # 0
        BY <3>2
      <4>2. u[q] = t[q] /\ u[q - 1] = t[q - 1]
        BY <4>1
      <4>3. QED
        BY <2>2, <4>1, <4>2
    <3>3. CASE q = l + 1
      <4>1. q - 1 = l /\ q - 1 \in 0 .. l /\ ~(q \in 0 .. l) /\ q # 0
        BY <3>3
      <4>2. u[q] = t[l] + bs[l + 1] /\ u[q - 1] = t[l]
        BY <4>1
      <4>3. QED
        BY <3>3, <4>1, <4>2
    <3>4. QED
      BY <3>1, <3>2, <3>3
  <2>4. Upto(u, l + 1)
    BY <2>3
  <2> HIDE DEF u, Upto
  <2>5. \E v : Upto(v, l + 1)
    BY <2>4
  <2>6. QED
    BY <2>5
<1>3. \A l \in Nat : l \in Solved
  <2> HIDE DEF Solved
  <2>1. QED
    BY <1>1, <1>2, InductionInSet
<1>4. Len(bs) \in Nat
  OBVIOUS
<1>5. PICK t : Sums(t, bs)
  BY <1>3, <1>4 DEF Sums
<1> DEFINE C == CHOOSE c : Sums(c, bs)
<1>6. Sums(C, bs)
  BY <1>5
<1>7. \A j : RowsIn(bs, j) = C[j]
  BY DEF RowsIn, Sums
<1> HIDE DEF C
<1>8. \A q \in 0 .. Len(bs) : C[q] = IF q = 0 THEN 0 ELSE C[q - 1] + bs[q]
  BY <1>6 DEF Sums
<1>9. C[0] = 0
  BY <1>4, <1>8
<1>10. ASSUME NEW j \in 0 .. Len(bs) - 1
       PROVE  C[j + 1] = C[j] + bs[j + 1]
  <2>1. j + 1 \in 0 .. Len(bs) /\ j + 1 # 0 /\ (j + 1) - 1 = j
    BY <1>4
  <2>2. QED
    BY <1>8, <2>1
<1>11. QED
  BY <1>7, <1>9, <1>10

-----------------------------------------------------------------------------
(* The rows due to a bin.                                                    *)

ResultRow(r) == [file |-> r, seed |-> r]

FileUpTo(m) == [r \in 1 .. m |-> [file |-> r - 1, seed |-> r - 1]]

RowsOfBin(b) == {x \in OutRows : BinOf[x.seed] = b}

LEMMA FileUpToNext ==
  ASSUME NEW m \in Nat
  PROVE  /\ FileUpTo(m) \in Seq(OutRows) /\ Len(FileUpTo(m)) = m
         /\ ResultRow(m) \in OutRows
         /\ FileUpTo(m + 1) = Append(FileUpTo(m), ResultRow(m))
<1>1. \A r \in Nat : ResultRow(r) \in OutRows
  BY DEF ResultRow, OutRows
<1>2. \A k \in Nat : FileUpTo(k) = [r \in 1 .. k |-> ResultRow(r - 1)]
  BY DEF FileUpTo, ResultRow
<1>3. ASSUME NEW k \in Nat
      PROVE  /\ FileUpTo(k) \in Seq(OutRows) /\ Len(FileUpTo(k)) = k
             /\ \A r \in 1 .. k : FileUpTo(k)[r] = ResultRow(r - 1)
  <2>1. \A r \in 1 .. k : r - 1 \in Nat
    OBVIOUS
  <2>2. FileUpTo(k) \in [1 .. k -> OutRows]
    BY <1>1, <1>2, <2>1
  <2>3. FileUpTo(k) \in Seq(OutRows) /\ Len(FileUpTo(k)) = k
    BY <2>2, SeqDef
  <2>4. QED
    BY <1>2, <2>3
<1>4. m + 1 \in Nat /\ ResultRow(m) \in OutRows
  BY <1>1
<1> DEFINE s == FileUpTo(m)
           c == Append(s, ResultRow(m))
           d == FileUpTo(m + 1)
<1>5. /\ c \in Seq(OutRows) /\ Len(c) = m + 1
      /\ \A r \in 1 .. m : c[r] = s[r]
      /\ c[m + 1] = ResultRow(m)
  BY <1>3, <1>4, AppendProperties
<1>6. /\ d \in Seq(OutRows) /\ Len(d) = m + 1
      /\ \A r \in 1 .. m + 1 : d[r] = ResultRow(r - 1)
  BY <1>3, <1>4
<1>7. \A r \in 1 .. m : s[r] = ResultRow(r - 1)
  BY <1>3
<1>8. s \in Seq(OutRows) /\ Len(s) = m
  BY <1>3
<1> HIDE DEF s, c, d
<1>9. ASSUME NEW r \in 1 .. m + 1
      PROVE  c[r] = d[r]
  <2>1. CASE r \in 1 .. m
    BY <1>5, <1>6, <1>7, <2>1
  <2>2. CASE r = m + 1
    BY <1>5, <1>6, <2>2
  <2>3. QED
    BY <2>1, <2>2
<1>10. c = d
  BY <1>5, <1>6, <1>9, SeqEqual
<1>11. QED
  BY <1>4, <1>8, <1>10 DEF s, c, d

\* One more row of the file is due to its own bin and to no other.
LEMMA DueNext ==
  ASSUME NEW b, NEW m \in Nat
  PROVE  /\ Due(b, m) \in Seq(OutRows)
         /\ Due(b, 0) = <<>>
         /\ Due(b, m + 1) = IF BinOf[m] = b THEN Append(Due(b, m), ResultRow(m))
                            ELSE Due(b, m)
<1>1. \A k \in Nat : Due(b, k) = SelectIn(FileUpTo(k), RowsOfBin(b))
  BY DEF Due, FileUpTo, RowsOfBin
<1>2. Due(b, m) \in Seq(OutRows)
  BY <1>1, FileUpToNext, SelectTyped
<1>3. Due(b, 0) = <<>>
  <2>1. FileUpTo(0) = <<>>
    BY FileUpToNext, EmptySeq
  <2>2. QED
    BY <1>1, <2>1, SelectEmpty
<1>4. ResultRow(m) \in RowsOfBin(b) <=> BinOf[m] = b
  BY FileUpToNext DEF RowsOfBin, ResultRow
<1>5. SelectIn(Append(FileUpTo(m), ResultRow(m)), RowsOfBin(b)) =
        IF ResultRow(m) \in RowsOfBin(b)
          THEN Append(SelectIn(FileUpTo(m), RowsOfBin(b)), ResultRow(m))
          ELSE SelectIn(FileUpTo(m), RowsOfBin(b))
  <2>1. \A t \in Seq(OutRows), e \in OutRows : \A X :
          SelectIn(Append(t, e), X) =
            IF e \in X THEN Append(SelectIn(t, X), e) ELSE SelectIn(t, X)
    BY SelectAppend
  <2>2. FileUpTo(m) \in Seq(OutRows) /\ ResultRow(m) \in OutRows
    BY FileUpToNext
  <2>3. QED
    BY <2>1, <2>2
<1>6. m + 1 \in Nat /\ FileUpTo(m + 1) = Append(FileUpTo(m), ResultRow(m))
  <2>1. FileUpTo(m + 1) = Append(FileUpTo(m), ResultRow(m))
    BY FileUpToNext
  <2>2. QED
    BY <2>1
<1>7. Due(b, m + 1) = IF BinOf[m] = b THEN Append(Due(b, m), ResultRow(m)) ELSE Due(b, m)
  <2>1. Due(b, m + 1) = SelectIn(FileUpTo(m + 1), RowsOfBin(b))
    BY <1>1, <1>6
  <2>2. Due(b, m) = SelectIn(FileUpTo(m), RowsOfBin(b))
    BY <1>1
  <2>3. QED
    BY <1>4, <1>5, <1>6, <2>1, <2>2
<1>8. QED
  BY <1>2, <1>3, <1>7

\* A row of the file is due once to its own bin.
LEMMA DueOnce ==
  ASSUME NEW m \in Nat, NEW r \in 0 .. m - 1
  PROVE  Once(Due(BinOf[r], m), {ResultRow(r)})
<1> DEFINE b == BinOf[r]
           Y == {ResultRow(r)} \cap RowsOfBin(b)
           s == FileUpTo(m)
<1>1. Due(b, m) = SelectIn(s, RowsOfBin(b))
  BY DEF Due, FileUpTo, RowsOfBin
<1>2. s \in Seq(OutRows) /\ Len(s) = m
  BY FileUpToNext
<1>3. ASSUME NEW q \in 1 .. m
      PROVE  s[q] \in Y <=> q = r + 1
  <2>1. s[q] = [file |-> q - 1, seed |-> q - 1]
    BY DEF FileUpTo
  <2>2. s[q] \in OutRows /\ s[q].file = q - 1 /\ s[q].seed = q - 1
    BY <2>1 DEF OutRows
  <2>3. ResultRow(r).file = r
    BY DEF ResultRow
  <2>4. q = r + 1 => s[q] = ResultRow(r) /\ s[q] \in RowsOfBin(b)
    BY <2>1, <2>2 DEF ResultRow, RowsOfBin
  <2>5. QED
    BY <2>2, <2>3, <2>4
<1>4. r + 1 \in 1 .. m
  OBVIOUS
<1> HIDE DEF s, Y
<1>5. Once(s, Y)
  BY <1>2, <1>3, <1>4 DEF Once
<1>6. Once(SelectIn(s, RowsOfBin(b)), {ResultRow(r)}) <=> Once(s, Y)
  BY <1>2, SelectOnce DEF Y
<1>7. QED
  BY <1>1, <1>5, <1>6

-----------------------------------------------------------------------------
(* The inductive invariant of emit.                                          *)

\* An output row of bin b: joined with its own result, or of an earlier input.
BinRows(b) ==
  {x \in OutRows : /\ x.file = x.seed
                   /\ x.seed = -1 \/ (x.seed \in Nat /\ BinOf[x.seed] = b)}

States == {"none", "open", "closed"}

RowsInv ==
  /\ pending \in [Bins -> Seq(OutRows)]
  /\ part \in [Bins -> [state : States, rows : Seq(OutRows)]]
  /\ \A b \in Bins : /\ pending[b] \in Seq(BinRows(b))
                     /\ part[b].rows \in Seq(BinRows(b))

PositionInv ==
  /\ pc \in {"read", "rows", "finish", "ok"} => rowGlobal = RowsIn(batches, batch)
  /\ pc = "rows" =>
       /\ batch < Len(batches) /\ i <= batches[batch + 1]
       /\ rowGlobal + batches[batch + 1] <= nRows
  /\ pc \in {"finish", "ok"} => batch = Len(batches) /\ rowGlobal = nRows

\* Only the bins with a writer have rows in builders; a failure drops them all.
WriterInv ==
  /\ \A b \in Bins : b \notin live => pending[b] = <<>>
  /\ pc \in {"failed", "ok"} => live = {}

\* The loop over the writers: what was due to a bin is still between its
\* builders and its open part, or all in its closed part.
FinishInv ==
  pc \in {"finish", "ok"} =>
    \A b \in Bins :
      IF b \in live
        THEN OnDisk(b) \o pending[b] = Due(b, nRows)
        ELSE Due(b, nRows) # <<>> => part[b] = [state |-> "closed", rows |-> Due(b, nRows)]

EInv ==
  TypeOK /\ RowsInv /\ PositionInv /\ WriterInv /\ RowsAccounted /\ FinishInv

LEMMA Typed ==
  ASSUME TypeOK
  PROVE  /\ batches \in Seq(Nat) /\ Len(batches) \in Nat /\ nRows \in Nat
         /\ batch \in 0 .. Len(batches)
         /\ \A j \in 1 .. Len(batches) : batches[j] \in Nat
         /\ batch < Len(batches) => batch + 1 \in 1 .. Len(batches)
                                    /\ batch \in 0 .. Len(batches) - 1
                                    /\ batches[batch + 1] \in Nat
<1>1. batches \in Seq(Nat) /\ nRows \in Nat /\ batch \in 0 .. Len(batches)
  BY EmitAssumption DEF TypeOK
<1>2. Len(batches) \in Nat /\ \A j \in 1 .. Len(batches) : batches[j] \in Nat
  BY <1>1, LenProperties, ElementOfSeq
<1>3. batch < Len(batches) => batch + 1 \in 1 .. Len(batches)
                              /\ batch \in 0 .. Len(batches) - 1
  BY <1>1, <1>2
<1>4. QED
  BY <1>1, <1>2, <1>3

LEMMA BinRowsAreRows ==
  \A b : BinRows(b) \subseteq OutRows /\ \A s \in Seq(BinRows(b)) : s \in Seq(OutRows)
<1> TAKE b
<1>1. BinRows(b) \subseteq OutRows
  BY DEF BinRows
<1>2. QED
  BY <1>1, SeqMonotonic

LEMMA InitEInv == Init => EInv
<1> SUFFICES ASSUME Init PROVE EInv
  OBVIOUS
<1> USE DEF Init
<1>1. batches \in Seq(Nat) /\ Len(batches) \in Nat
  BY EmitAssumption
<1>2. <<>> \in Seq(OutRows) /\ \A b : <<>> \in Seq(BinRows(b))
  BY EmptySeq
<1>3. OldRow \in OutRows /\ \A b : OldRow \in BinRows(b)
  BY DEF OldRow, OutRows, BinRows
<1>4. <<OldRow>> \in Seq(OutRows) /\ \A b : <<OldRow>> \in Seq(BinRows(b))
  BY <1>3
<1>5. \A b \in Bins : part[b] \in {NoPart, OldPart} /\ pending[b] = <<>>
  OBVIOUS
<1>6. NoPart \in [state : States, rows : Seq(OutRows)]
      /\ OldPart \in [state : States, rows : Seq(OutRows)]
  BY <1>2, <1>4 DEF NoPart, OldPart, States
<1>7. TypeOK
  <2>1. Len(<<>>) = 0 /\ 0 < OutputBatch /\ 1 \in 1 .. MaxRuns
    BY EmitAssumption, EmptySeq
  <2>2. \A b \in Bins : part[b].state \in {"none", "open", "closed"}
    BY <1>5 DEF NoPart, OldPart
  <2>3. QED
    BY <1>1, <1>5, <2>1, <2>2 DEF TypeOK
<1>8. RowsInv
  <2>1. ASSUME NEW b \in Bins
        PROVE  part[b].rows \in Seq(BinRows(b))
    <3>1. NoPart.rows = <<>> /\ OldPart.rows = <<OldRow>>
      BY DEF NoPart, OldPart
    <3>2. part[b].rows = <<>> \/ part[b].rows = <<OldRow>>
      BY <1>5, <3>1
    <3>3. QED
      BY <1>2, <1>4, <3>2
  <2>2. part \in [Bins -> [state : States, rows : Seq(OutRows)]]
    BY <1>6
  <2>3. QED
    BY <1>2, <1>5, <2>1, <2>2 DEF RowsInv
<1>9. PositionInv /\ WriterInv /\ FinishInv
  BY <1>1, RowsInUnfolds DEF PositionInv, WriterInv, FinishInv
<1>10. RowsAccounted
  <2>1. Consumed = 0
    BY <1>1, RowsInUnfolds DEF Consumed
  <2>2. ASSUME NEW b \in Bins
        PROVE  OnDisk(b) \o pending[b] = Due(b, Consumed)
    <3>1. OnDisk(b) = <<>> /\ pending[b] = <<>>
      BY <1>5 DEF OnDisk
    <3>2. <<>> \o <<>> = <<>>
      BY <1>2, ConcatEmptySeq
    <3>3. Due(b, 0) = <<>>
      BY DueNext
    <3>4. QED
      BY <2>1, <3>1, <3>2, <3>3
  <2>3. QED
    BY <2>2 DEF RowsAccounted
<1>11. QED
  BY <1>7, <1>8, <1>9, <1>10 DEF EInv

-----------------------------------------------------------------------------
(* Every step of emit preserves it.                                          *)

\* The parts as any failure may leave them.
PartsTyped(p) ==
  /\ p \in [Bins -> [state : States, rows : Seq(OutRows)]]
  /\ \A b \in Bins : p[b].rows \in Seq(BinRows(b))

LEMMA FailStep ==
  ASSUME EInv, Fail, PartsTyped(part')
  PROVE  EInv'
<1> USE DEF Fail, inputs
<1>1. <<>> \in Seq(OutRows) /\ \A b : <<>> \in Seq(BinRows(b))
  BY EmptySeq
<1>2. TypeOK'
  <2>1. Len(<<>>) = 0 /\ 0 < OutputBatch
    BY EmitAssumption, EmptySeq
  <2>2. \A b \in Bins : part'[b].state \in {"none", "open", "closed"}
    BY DEF PartsTyped, States
  <2>3. QED
    BY <2>1, <2>2 DEF EInv, TypeOK
<1>3. RowsInv'
  BY <1>1 DEF RowsInv, PartsTyped
<1>4. PositionInv' /\ WriterInv' /\ RowsAccounted' /\ FinishInv'
  BY DEF PositionInv, WriterInv, RowsAccounted, FinishInv
<1>5. QED
  BY <1>2, <1>3, <1>4 DEF EInv

LEMMA SamePartsTyped == EInv => PartsTyped(part)
BY DEF EInv, RowsInv, PartsTyped

\* flush writes rows of the bin only.
LEMMA FlushedTyped ==
  ASSUME EInv, NEW b \in Bins, NEW rows \in Seq(BinRows(b))
  PROVE  /\ PartsTyped(Flushed(b, rows))
         /\ \A c \in Bins \ {b} : Flushed(b, rows)[c] = part[c]
         /\ Flushed(b, rows)[b].state = "open"
         /\ Flushed(b, rows)[b].rows = OnDisk(b) \o rows
<1> DEFINE new == IF b \in open THEN part[b].rows \o rows ELSE rows
<1>1. part[b].rows \in Seq(BinRows(b)) /\ part \in [Bins -> [state : States, rows : Seq(OutRows)]]
  BY DEF EInv, RowsInv
<1>2. new \in Seq(BinRows(b)) /\ new = OnDisk(b) \o rows
  BY <1>1, ConcatProperties, ConcatEmptySeq DEF OnDisk
<1>3. new \in Seq(OutRows)
  BY <1>2, BinRowsAreRows
<1>4. Flushed(b, rows) = [part EXCEPT ![b] = [state |-> "open", rows |-> new]]
  BY DEF Flushed
<1> HIDE DEF new
<1>5. [state |-> "open", rows |-> new] \in [state : States, rows : Seq(OutRows)]
  BY <1>3 DEF States
<1>6. Flushed(b, rows) \in [Bins -> [state : States, rows : Seq(OutRows)]]
  BY <1>1, <1>4, <1>5
<1>7. \A c \in Bins \ {b} : Flushed(b, rows)[c] = part[c]
  BY <1>1, <1>4
<1>8. Flushed(b, rows)[b] = [state |-> "open", rows |-> new]
  BY <1>1, <1>4
<1>9. ASSUME NEW c \in Bins
      PROVE  Flushed(b, rows)[c].rows \in Seq(BinRows(c))
  <2>1. CASE c = b
    <3>1. Flushed(b, rows)[b].rows = new
      BY <1>8
    <3>2. QED
      BY <1>2, <2>1, <3>1
  <2>2. CASE c # b
    BY <1>7, <2>2 DEF EInv, RowsInv
  <2>3. QED
    BY <2>1, <2>2
<1>10. QED
  BY <1>2, <1>6, <1>7, <1>8, <1>9 DEF PartsTyped

LEMMA ReadBatchStep == EInv /\ ReadBatch => EInv'
<1> SUFFICES ASSUME EInv, ReadBatch PROVE EInv'
  OBVIOUS
<1> USE DEF ReadBatch, inputs
<1>1. TypeOK /\ pc = "read" /\ batch < Len(batches) /\ batches[batch + 1] \in Nat
      /\ rowGlobal + batches[batch + 1] <= nRows
  BY Typed DEF EInv, More, TooMany, TypeOK
<1>2. TypeOK' /\ RowsInv'
  BY <1>1 DEF EInv, TypeOK, RowsInv
<1>3. PositionInv' /\ WriterInv' /\ FinishInv'
  BY <1>1 DEF EInv, PositionInv, WriterInv, FinishInv
<1>4. RowsAccounted'
  <2>1. Consumed = RowsIn(batches, batch) /\ RowsIn(batches, batch) = rowGlobal
    BY <1>1 DEF Consumed, EInv, PositionInv, TypeOK
  <2>2. Consumed' = RowsIn(batches, batch) + 0
    BY DEF Consumed
  <2>3. Consumed' = Consumed
    BY <1>1, <2>1, <2>2 DEF TypeOK
  <2>4. \A b : OnDisk(b)' = OnDisk(b)
    BY DEF OnDisk
  <2>5. QED
    BY <1>1, <2>3, <2>4 DEF EInv, RowsAccounted
<1>5. QED
  BY <1>2, <1>3, <1>4 DEF EInv

LEMMA ReadFailsStep == EInv /\ ReadFails => EInv'
BY SamePartsTyped, FailStep DEF ReadFails, PartsTyped

LEMMA CrashStep == EInv /\ Crash => EInv'
BY SamePartsTyped, FailStep DEF Crash, PartsTyped

LEMMA TooFewRowsStep == EInv /\ TooFewRows => EInv'
BY SamePartsTyped, FailStep DEF TooFewRows, PartsTyped

\* What the row being pushed is.
LEMMA RowPushed ==
  ASSUME EInv, InBatch
  PROVE  /\ Row \in Nat /\ Row < nRows /\ BinOf[Row] \in Bins
         /\ OutRow = ResultRow(Row) /\ OutRow \in BinRows(BinOf[Row])
         /\ OutRow \in OutRows
         /\ Consumed = Row
         /\ i + 1 <= batches[batch + 1]
<1>1. /\ TypeOK /\ pc = "rows" /\ i < batches[batch + 1]
      /\ batches[batch + 1] \in Nat /\ i \in Nat /\ rowGlobal \in Nat /\ nRows \in Nat
      /\ rowGlobal + batches[batch + 1] <= nRows
      /\ rowGlobal = RowsIn(batches, batch)
  BY Typed DEF EInv, InBatch, TypeOK, PositionInv
<1>2. rowGlobal + i \in Nat /\ rowGlobal + i < nRows
  BY <1>1
<1>3. Row \in Nat /\ Row < nRows
  BY <1>2 DEF Row
<1>4. Row \in 0 .. nRows - 1 /\ nRows \in SeedRows
  BY <1>1, <1>3 DEF TypeOK
<1>5. BinOf[Row] \in Bins
  BY <1>4, EmitAssumption
<1>6. OutRow = ResultRow(Row) /\ Consumed = Row
  BY <1>1 DEF OutRow, ResultRow, Row, Consumed
<1>7. ResultRow(Row) \in BinRows(BinOf[Row]) /\ ResultRow(Row) \in OutRows
  BY <1>3 DEF ResultRow, BinRows, OutRows
<1>8. QED
  BY <1>1, <1>3, <1>5, <1>6, <1>7

LEMMA PushFailsStep == EInv /\ PushFails => EInv'
<1> SUFFICES ASSUME EInv, PushFails PROVE EInv'
  OBVIOUS
<1>1. BinOf[Row] \in Bins
  BY RowPushed DEF PushFails
<1>2. <<>> \in Seq(BinRows(BinOf[Row]))
  BY EmptySeq
<1>3. PartsTyped(part')
  <2>1. CASE part' = part
    <3>1. PartsTyped(part)
      BY SamePartsTyped
    <3>2. QED
      BY <2>1, <3>1
  <2>2. CASE part' = Flushed(BinOf[Row], <<>>)
    <3>1. PartsTyped(Flushed(BinOf[Row], <<>>))
      BY <1>1, <1>2, FlushedTyped
    <3>2. QED
      BY <2>2, <3>1
  <2>3. QED
    BY <2>1, <2>2 DEF PushFails
<1>4. QED
  BY <1>3, FailStep DEF PushFails

LEMMA FinishFailsStep == EInv /\ FinishFails => EInv'
<1> SUFFICES ASSUME EInv, FinishFails PROVE EInv'
  OBVIOUS
<1>1. PICK b \in live :
        part' = part \/ \E rows \in {<<>>, pending[b]} : part' = Flushed(b, rows)
  BY DEF FinishFails
<1>2. b \in Bins /\ \A rows \in {<<>>, pending[b]} : rows \in Seq(BinRows(b))
  BY EmptySeq DEF EInv, TypeOK, RowsInv
<1>3. PartsTyped(part')
  <2>1. CASE part' = part
    <3>1. PartsTyped(part)
      BY SamePartsTyped
    <3>2. QED
      BY <2>1, <3>1
  <2>2. ASSUME NEW rows \in {<<>>, pending[b]}, part' = Flushed(b, rows)
        PROVE  PartsTyped(part')
    <3>1. PartsTyped(Flushed(b, rows))
      BY <1>2, FlushedTyped
    <3>2. QED
      BY <2>2, <3>1
  <2>3. QED
    BY <1>1, <2>1, <2>2
<1>4. QED
  BY <1>3, FailStep DEF FinishFails

\* One row moves from the file to its bin: into the builders, or with all of
\* these into the part.
LEMMA PushRowStep == EInv /\ PushRow => EInv'
<1> SUFFICES ASSUME EInv, PushRow PROVE EInv'
  OBVIOUS
<1> PICK b : b = BinOf[Row]
  OBVIOUS
<1> PICK rows : rows = Append(pending[b], OutRow)
  OBVIOUS
<1>1. /\ InBatch /\ i' = i + 1 /\ live' = live \cup {b}
      /\ UNCHANGED <<batches, nRows, pc, run, batch, rowGlobal>>
      /\ IF Full(rows)
           THEN /\ part' = Flushed(b, rows) /\ open' = open \cup {b}
                /\ pending' = [pending EXCEPT ![b] = AfterFlush(rows)]
           ELSE /\ pending' = [pending EXCEPT ![b] = rows]
                /\ UNCHANGED <<part, open>>
  BY DEF PushRow, inputs
<1>2. /\ Row \in Nat /\ Row < nRows /\ b \in Bins /\ OutRow = ResultRow(Row)
      /\ OutRow \in BinRows(b) /\ Consumed = Row /\ i + 1 <= batches[batch + 1]
  BY <1>1, RowPushed
<1>3. /\ TypeOK /\ pc = "rows" /\ i \in Nat /\ rowGlobal \in Nat
      /\ pending \in [Bins -> Seq(OutRows)] /\ pending[b] \in Seq(BinRows(b))
      /\ Len(pending[b]) < OutputBatch /\ OutputBatch \in Nat
  BY <1>1, <1>2, EmitAssumption DEF EInv, RowsInv, TypeOK, InBatch
<1>4. /\ rows \in Seq(BinRows(b)) /\ rows \in Seq(OutRows)
      /\ Len(rows) = Len(pending[b]) + 1 /\ Len(rows) \in Nat
      /\ Full(rows) <=> Len(rows) >= OutputBatch
      /\ AfterFlush(rows) = <<>>
  <2>1. rows \in Seq(BinRows(b)) /\ Len(rows) = Len(pending[b]) + 1
    BY <1>2, <1>3, AppendProperties
  <2>2. Len(rows) \in Nat /\ rows \in Seq(OutRows)
    BY <2>1, LenProperties, BinRowsAreRows
  <2>3. QED
    BY <2>1, <2>2 DEF Full, AfterFlush
<1>5. <<>> \in Seq(OutRows) /\ <<>> \in Seq(BinRows(b)) /\ Len(<<>>) = 0
  BY EmptySeq
<1>6. /\ PartsTyped(Flushed(b, rows))
      /\ \A c \in Bins \ {b} : Flushed(b, rows)[c] = part[c]
      /\ Flushed(b, rows)[b].state = "open"
      /\ Flushed(b, rows)[b].rows = OnDisk(b) \o rows
  BY <1>2, <1>4, FlushedTyped
<1>7. PartsTyped(part')
  BY <1>1, <1>6, SamePartsTyped
<1>8. TypeOK'
  <2>1. ASSUME NEW c \in Bins
        PROVE  Len(pending'[c]) < OutputBatch
    <3>1. CASE c = b
      BY <1>1, <1>2, <1>3, <1>4, <1>5, <3>1, EmitAssumption
    <3>2. CASE c # b
      BY <1>1, <1>3, <3>2 DEF TypeOK
    <3>3. QED
      BY <3>1, <3>2
  <2>2. ASSUME NEW c \in Bins
        PROVE  /\ part'[c].state \in {"none", "open", "closed"}
               /\ c \in open' => part'[c].state = "open"
    <3>1. part[c].state \in {"none", "open", "closed"} /\ (c \in open => part[c].state = "open")
      BY <1>3 DEF TypeOK
    <3>2. CASE Full(rows)
      <4>1. part' = Flushed(b, rows) /\ open' = open \cup {b}
        BY <1>1, <3>2
      <4>2. c = b => part'[c].state = "open"
        BY <1>6, <4>1
      <4>3. c # b => part'[c] = part[c] /\ (c \in open' => c \in open)
        BY <1>6, <4>1
      <4>4. QED
        BY <3>1, <4>2, <4>3
    <3>3. CASE ~Full(rows)
      <4>1. UNCHANGED <<part, open>>
        BY <1>1, <3>3
      <4>2. QED
        BY <3>1, <4>1
    <3>4. QED
      BY <3>2, <3>3
  <2>3. open' \subseteq live' /\ live' \subseteq Bins
    BY <1>1, <1>2, <1>3 DEF TypeOK
  <2>4. i' \in Nat
    BY <1>1, <1>3
  <2>5. QED
    BY <1>1, <1>3, <2>1, <2>2, <2>3, <2>4 DEF TypeOK
<1>9. RowsInv'
  <2>1. pending' \in [Bins -> Seq(OutRows)]
    <3>1. CASE Full(rows)
      <4>1. pending' = [pending EXCEPT ![b] = <<>>]
        BY <1>1, <1>4, <3>1
      <4>2. QED
        BY <1>3, <1>5, <4>1
    <3>2. CASE ~Full(rows)
      BY <1>1, <1>3, <1>4, <3>2
    <3>3. QED
      BY <3>1, <3>2
  <2>2. ASSUME NEW c \in Bins
        PROVE  pending'[c] \in Seq(BinRows(c))
    <3>1. CASE c = b
      <4>1. pending'[b] \in Seq(BinRows(b))
        BY <1>1, <1>2, <1>3, <1>4, <1>5
      <4>2. QED
        BY <3>1, <4>1
    <3>2. CASE c # b
      BY <1>1, <1>3, <3>2 DEF EInv, RowsInv
    <3>3. QED
      BY <3>1, <3>2
  <2>3. QED
    BY <1>7, <2>1, <2>2 DEF RowsInv, PartsTyped
<1>10. PositionInv'
  BY <1>1, <1>2, <1>3 DEF EInv, PositionInv
<1>11. WriterInv'
  <2>1. ASSUME NEW c \in Bins, c \notin live'
        PROVE  pending'[c] = <<>>
    <3>1. c # b /\ c \notin live
      BY <1>1, <2>1
    <3>2. pending'[c] = pending[c]
      BY <1>1, <1>3, <3>1
    <3>3. QED
      BY <3>1, <3>2 DEF EInv, WriterInv
  <2>2. QED
    BY <1>1, <1>3, <2>1 DEF WriterInv
<1>12. RowsAccounted'
  <2>1. Consumed' = Row + 1
    <3>1. RowsIn(batches, batch) = rowGlobal
      BY <1>3 DEF EInv, PositionInv
    <3>2. Consumed' = RowsIn(batches, batch) + (i + 1)
      BY <1>1, <1>3 DEF Consumed
    <3>3. QED
      BY <1>3, <3>1, <3>2 DEF Row
  <2>2. ASSUME NEW c \in Bins
        PROVE  OnDisk(c)' \o pending'[c] = Due(c, Row + 1)
    <3>1. OnDisk(c) \o pending[c] = Due(c, Row)
      BY <1>2, <1>3 DEF EInv, RowsAccounted
    <3>2. Due(c, Row + 1) = IF b = c THEN Append(Due(c, Row), ResultRow(Row))
                            ELSE Due(c, Row)
      BY <1>2, DueNext
    <3>3. CASE c # b
      <4>1. OnDisk(c)' = OnDisk(c) /\ pending'[c] = pending[c]
        BY <1>1, <1>3, <1>6, <3>3 DEF OnDisk
      <4>2. QED
        BY <3>1, <3>2, <3>3, <4>1
    <3>4. CASE c = b
      <4>1. OnDisk(b) \in Seq(OutRows) /\ pending[b] \in Seq(OutRows)
        BY <1>2, <1>5 DEF EInv, RowsInv, OnDisk
      <4>2. OnDisk(b) \o rows = Append(OnDisk(b) \o pending[b], OutRow)
        <5>1. OutRow \in OutRows
          BY <1>1, RowPushed
        <5>2. \A s, r \in Seq(OutRows) : s \o Append(r, OutRow) = Append(s \o r, OutRow)
          BY <5>1, AppendToConcat
        <5>3. QED
          BY <4>1, <5>2
      <4>3. OnDisk(b)' \o pending'[b] = OnDisk(b) \o rows
        <5>1. CASE Full(rows)
          <6>1. OnDisk(b)' = OnDisk(b) \o rows /\ pending'[b] = <<>>
            BY <1>1, <1>2, <1>3, <1>4, <1>6, <5>1 DEF OnDisk
          <6>2. OnDisk(b) \o rows \in Seq(OutRows)
            BY <1>4, <4>1, ConcatProperties
          <6>3. (OnDisk(b) \o rows) \o <<>> = OnDisk(b) \o rows
            BY <6>2, ConcatEmptySeq
          <6>4. QED
            BY <6>1, <6>3
        <5>2. CASE ~Full(rows)
          BY <1>1, <1>2, <1>3, <5>2 DEF OnDisk
        <5>3. QED
          BY <5>1, <5>2
      <4>4. QED
        BY <1>2, <3>1, <3>2, <3>4, <4>2, <4>3
    <3>5. QED
      BY <3>3, <3>4
  <2>3. QED
    BY <2>1, <2>2 DEF RowsAccounted
<1>13. FinishInv'
  BY <1>1, <1>3 DEF FinishInv
<1>14. QED
  BY <1>8, <1>9, <1>10, <1>11, <1>12, <1>13 DEF EInv

LEMMA BatchDoneStep == EInv /\ BatchDone => EInv'
<1> SUFFICES ASSUME EInv, BatchDone PROVE EInv'
  OBVIOUS
<1> USE DEF BatchDone, inputs
<1>1. /\ TypeOK /\ batch < Len(batches) /\ batch \in 0 .. Len(batches) - 1
      /\ batches \in Seq(Nat) /\ Len(batches) \in Nat
      /\ i = batches[batch + 1] /\ i \in Nat /\ rowGlobal \in Nat /\ nRows \in Nat
      /\ rowGlobal + i <= nRows /\ rowGlobal = RowsIn(batches, batch)
  BY Typed DEF EInv, PositionInv, TypeOK
<1>2. RowsIn(batches, batch + 1) = RowsIn(batches, batch) + i
  BY <1>1, RowsInUnfolds
<1>3. TypeOK'
  <2>1. batch + 1 \in 0 .. Len(batches) /\ rowGlobal + i \in Nat
    <3>1. /\ batch \in 0 .. Len(batches) - 1 /\ Len(batches) \in Nat
          /\ rowGlobal \in Nat /\ i \in Nat
      BY <1>1
    <3> HIDE DEF BatchDone
    <3>2. QED
      BY <3>1
  <2>2. /\ batch' \in 0 .. Len(batches') /\ rowGlobal' \in Nat /\ pc' = "read"
        /\ UNCHANGED <<batches, nRows, run, i, pending, open, live, part>>
    BY <2>1
  <2>3. /\ batches \in FileBatches /\ nRows \in SeedRows /\ run \in 1 .. MaxRuns
        /\ i \in Nat /\ open \subseteq live /\ live \subseteq Bins
        /\ \A b \in Bins :
             /\ Len(pending[b]) < OutputBatch
             /\ part[b].state \in {"none", "open", "closed"}
             /\ b \in open => part[b].state = "open"
    BY <1>1 DEF TypeOK
  <2> HIDE DEF BatchDone
  <2>4. /\ batches' \in FileBatches /\ nRows' \in SeedRows /\ run' \in 1 .. MaxRuns
        /\ i' \in Nat /\ open' \subseteq live' /\ live' \subseteq Bins
        /\ pc' \in {"read", "rows", "finish", "ok", "failed"}
        /\ batch' \in 0 .. Len(batches') /\ rowGlobal' \in Nat
    BY <2>2, <2>3
  <2>5. \A b \in Bins :
          /\ Len(pending'[b]) < OutputBatch
          /\ part'[b].state \in {"none", "open", "closed"}
          /\ b \in open' => part'[b].state = "open"
    BY <2>2, <2>3
  <2>6. QED
    BY <2>4, <2>5 DEF TypeOK
<1>4. RowsInv'
  BY DEF EInv, RowsInv
<1>5. PositionInv' /\ WriterInv' /\ FinishInv'
  BY <1>1, <1>2 DEF EInv, PositionInv, WriterInv, FinishInv
<1>6. RowsAccounted'
  <2>1. Consumed' = RowsIn(batches, batch + 1) + 0
    BY DEF Consumed
  <2>2. Consumed = RowsIn(batches, batch) + i
    BY DEF Consumed
  <2>3. Consumed' = Consumed
    BY <1>1, <1>2, <2>1, <2>2
  <2>4. \A b : OnDisk(b)' = OnDisk(b)
    BY DEF OnDisk
  <2>5. QED
    BY <2>3, <2>4 DEF EInv, RowsAccounted
<1>7. QED
  BY <1>3, <1>4, <1>5, <1>6 DEF EInv

LEMMA StartFinishStep == EInv /\ StartFinish => EInv'
<1> SUFFICES ASSUME EInv, StartFinish PROVE EInv'
  OBVIOUS
<1> USE DEF StartFinish, EndOfFile, inputs
<1>1. TypeOK' /\ RowsInv' /\ PositionInv' /\ WriterInv'
  BY DEF EInv, TypeOK, RowsInv, PositionInv, WriterInv
<1>2. Consumed = nRows
  <2>1. RowsIn(batches, batch) = rowGlobal /\ nRows \in Nat
    BY Typed DEF EInv, PositionInv
  <2>2. Consumed = RowsIn(batches, batch) + 0
    BY DEF Consumed
  <2>3. QED
    BY <2>1, <2>2
<1>3. RowsAccounted' /\ FinishInv'
  <2>1. ASSUME NEW b \in Bins
        PROVE  OnDisk(b)' \o pending'[b] = Due(b, nRows)
    BY <1>2 DEF EInv, RowsAccounted, OnDisk
  <2>2. ASSUME NEW b \in Bins, b \notin live
        PROVE  Due(b, nRows) = <<>>
    <3>1. b \notin open /\ pending[b] = <<>>
      BY <2>2 DEF EInv, TypeOK, WriterInv
    <3>2. <<>> \o <<>> = <<>>
      BY ConcatEmptySeq, EmptySeq
    <3>3. OnDisk(b) \o pending[b] = Due(b, nRows)
      BY <1>2 DEF EInv, RowsAccounted
    <3>4. QED
      BY <3>1, <3>2, <3>3 DEF OnDisk
  <2>3. QED
    BY <2>1, <2>2 DEF RowsAccounted, FinishInv
<1>4. QED
  BY <1>1, <1>3 DEF EInv

\* finish of one writer: its part is then complete.
LEMMA FinishStep ==
  ASSUME EInv, NEW b \in Bins, Finish(b)
  PROVE  EInv'
<1> PICK rows : rows = IF b \in open THEN part[b].rows \o pending[b] ELSE pending[b]
  OBVIOUS
<1>1. /\ pc = "finish" /\ b \in live /\ TypeOK
      /\ part' = [part EXCEPT ![b] = [state |-> "closed", rows |-> rows]]
      /\ pending' = [pending EXCEPT ![b] = <<>>]
      /\ open' = open \ {b} /\ live' = live \ {b}
      /\ UNCHANGED <<batches, nRows, pc, run, batch, i, rowGlobal>>
  BY DEF Finish, Closed, inputs, EInv
<1>2. /\ part \in [Bins -> [state : States, rows : Seq(OutRows)]]
      /\ pending \in [Bins -> Seq(OutRows)]
      /\ part[b].rows \in Seq(BinRows(b)) /\ pending[b] \in Seq(BinRows(b))
      /\ <<>> \in Seq(OutRows) /\ Len(<<>>) = 0 /\ \A c : <<>> \in Seq(BinRows(c))
  BY EmptySeq DEF EInv, RowsInv
<1>3. rows \in Seq(BinRows(b)) /\ rows = OnDisk(b) \o pending[b]
  BY <1>2, ConcatProperties, ConcatEmptySeq DEF OnDisk
<1>4. rows \in Seq(OutRows)
  BY <1>3, BinRowsAreRows
<1>5. /\ part' \in [Bins -> [state : States, rows : Seq(OutRows)]]
      /\ part'[b] = [state |-> "closed", rows |-> rows]
      /\ \A c \in Bins \ {b} : part'[c] = part[c] /\ pending'[c] = pending[c]
      /\ pending' \in [Bins -> Seq(OutRows)] /\ pending'[b] = <<>>
  <2>1. [state |-> "closed", rows |-> rows] \in [state : States, rows : Seq(OutRows)]
    BY <1>4 DEF States
  <2>2. QED
    BY <1>1, <1>2, <2>1
<1>6. TypeOK'
  <2>1. ASSUME NEW c \in Bins
        PROVE  /\ Len(pending'[c]) < OutputBatch
               /\ part'[c].state \in {"none", "open", "closed"}
               /\ c \in open' => part'[c].state = "open"
    <3>1. CASE c = b
      BY <1>1, <1>2, <1>5, <3>1, EmitAssumption
    <3>2. CASE c # b
      BY <1>1, <1>5, <3>2 DEF TypeOK
    <3>3. QED
      BY <3>1, <3>2
  <2>2. QED
    BY <1>1, <2>1 DEF TypeOK
<1>7. RowsInv'
  <2>1. ASSUME NEW c \in Bins
        PROVE  pending'[c] \in Seq(BinRows(c)) /\ part'[c].rows \in Seq(BinRows(c))
    <3>1. CASE c = b
      <4>1. part'[b].rows = rows
        BY <1>5
      <4>2. QED
        BY <1>2, <1>3, <1>5, <3>1, <4>1
    <3>2. CASE c # b
      BY <1>5, <3>2 DEF EInv, RowsInv
    <3>3. QED
      BY <3>1, <3>2
  <2>2. QED
    BY <1>5, <2>1 DEF RowsInv
<1>8. PositionInv' /\ RowsAccounted'
  BY <1>1 DEF EInv, PositionInv, RowsAccounted
<1>9. WriterInv'
  <2>1. ASSUME NEW c \in Bins, c \notin live'
        PROVE  pending'[c] = <<>>
    <3>1. CASE c = b
      BY <1>5, <3>1
    <3>2. CASE c # b
      BY <1>1, <1>5, <2>1, <3>2 DEF EInv, WriterInv
    <3>3. QED
      BY <3>1, <3>2
  <2>2. QED
    BY <1>1, <2>1 DEF WriterInv
<1>10. FinishInv'
  <2>1. OnDisk(b) \o pending[b] = Due(b, nRows)
    BY <1>1 DEF EInv, FinishInv
  <2>2. part'[b] = [state |-> "closed", rows |-> Due(b, nRows)]
    BY <1>3, <1>5, <2>1
  <2>3. ASSUME NEW c \in Bins \ {b}
        PROVE  IF c \in live'
                 THEN OnDisk(c)' \o pending'[c] = Due(c, nRows)
                 ELSE Due(c, nRows) # <<>> =>
                        part'[c] = [state |-> "closed", rows |-> Due(c, nRows)]
    <3>1. OnDisk(c)' = OnDisk(c) /\ pending'[c] = pending[c] /\ part'[c] = part[c]
      BY <1>1, <1>5 DEF OnDisk
    <3>2. c \in live' <=> c \in live
      BY <1>1
    <3>3. QED
      BY <1>1, <3>1, <3>2 DEF EInv, FinishInv
  <2>4. b \notin live' /\ nRows' = nRows
    BY <1>1
  <2>5. QED
    BY <2>2, <2>3, <2>4 DEF FinishInv
<1>11. QED
  BY <1>6, <1>7, <1>8, <1>9, <1>10 DEF EInv

LEMMA ReturnStep == EInv /\ Return => EInv'
<1> SUFFICES ASSUME EInv, Return PROVE EInv'
  OBVIOUS
<1> USE DEF Return, inputs
<1>1. TypeOK' /\ RowsInv' /\ PositionInv' /\ WriterInv' /\ RowsAccounted'
  BY DEF EInv, TypeOK, RowsInv, PositionInv, WriterInv, RowsAccounted
<1>2. FinishInv'
  BY DEF EInv, FinishInv
<1>3. QED
  BY <1>1, <1>2 DEF EInv

LEMMA RerunStep == EInv /\ Rerun => EInv'
<1> SUFFICES ASSUME EInv, Rerun PROVE EInv'
  OBVIOUS
<1> USE DEF Rerun
<1>1. TypeOK /\ live = {} /\ open = {} /\ \A b \in Bins : pending[b] = <<>>
  BY DEF EInv, TypeOK, WriterInv
<1>2. batches' \in Seq(Nat) /\ Len(batches') \in Nat /\ nRows' \in Nat
  BY EmitAssumption
<1>3. TypeOK'
  BY <1>1, <1>2, EmitAssumption DEF TypeOK
<1>4. RowsInv' /\ WriterInv' /\ FinishInv'
  BY <1>1 DEF EInv, RowsInv, WriterInv, FinishInv
<1>5. RowsIn(batches', 0) = 0
  BY <1>2, RowsInUnfolds
<1>6. PositionInv'
  BY <1>5 DEF PositionInv
<1>7. RowsAccounted'
  <2>1. Consumed' = 0
    BY <1>5 DEF Consumed
  <2>2. ASSUME NEW b \in Bins
        PROVE  OnDisk(b)' \o pending'[b] = Due(b, 0)
    <3>1. OnDisk(b)' = <<>> /\ pending'[b] = <<>>
      BY <1>1 DEF OnDisk
    <3>2. <<>> \o <<>> = <<>>
      BY ConcatEmptySeq, EmptySeq
    <3>3. Due(b, 0) = <<>>
      BY DueNext
    <3>4. QED
      BY <3>1, <3>2, <3>3
  <2>3. QED
    BY <2>1, <2>2 DEF RowsAccounted
<1>8. QED
  BY <1>3, <1>4, <1>6, <1>7 DEF EInv

LEMMA UnchangedStep == EInv /\ UNCHANGED vars => EInv'
<1> SUFFICES ASSUME EInv, UNCHANGED vars PROVE EInv'
  OBVIOUS
<1> USE DEF vars
<1>1. TypeOK' /\ RowsInv' /\ PositionInv' /\ WriterInv'
  BY DEF EInv, TypeOK, RowsInv, PositionInv, WriterInv
<1>2. Consumed' = Consumed /\ \A b : OnDisk(b)' = OnDisk(b)
  BY DEF Consumed, OnDisk
<1>3. RowsAccounted' /\ FinishInv'
  BY <1>2 DEF EInv, RowsAccounted, FinishInv
<1>4. QED
  BY <1>1, <1>3 DEF EInv

LEMMA NextEInv == EInv /\ [Next]_vars => EInv'
<1> SUFFICES ASSUME EInv, [Next]_vars PROVE EInv'
  OBVIOUS
<1>1. CASE ReadBatch \/ ReadFails \/ PushRow \/ PushFails \/ BatchDone
  BY <1>1, ReadBatchStep, ReadFailsStep, PushRowStep, PushFailsStep, BatchDoneStep
<1>2. CASE TooFewRows \/ StartFinish \/ FinishFails \/ Return \/ Crash \/ Rerun
  BY <1>2, TooFewRowsStep, StartFinishStep, FinishFailsStep, ReturnStep, CrashStep,
     RerunStep
<1>3. CASE \E b \in Bins : Finish(b)
  BY <1>3, FinishStep
<1>4. CASE Over \/ UNCHANGED vars
  BY <1>4, UnchangedStep DEF Over
<1>5. QED
  BY <1>1, <1>2, <1>3, <1>4 DEF Next

\* What the invariant says of a state.
LEMMA EInvGives == EInv => TypeOK /\ InBounds /\ RowsAccounted /\ OkMeansComplete
<1> SUFFICES ASSUME EInv PROVE TypeOK /\ InBounds /\ RowsAccounted /\ OkMeansComplete
  OBVIOUS
<1>1. InBounds
  BY RowPushed DEF InBounds
<1>2. OkMeansComplete
  <2>1. ASSUME pc = "ok"
        PROVE  FileRows(batches) = nRows
    BY <2>1 DEF EInv, PositionInv, FileRows
  <2>2. ASSUME pc = "ok", NEW b \in Bins, Due(b, nRows) # <<>>
        PROVE  part[b] = [state |-> "closed", rows |-> Due(b, nRows)]
    BY <2>2 DEF EInv, WriterInv, FinishInv
  <2>3. QED
    BY <2>1, <2>2 DEF OkMeansComplete
<1>3. QED
  BY <1>1, <1>2 DEF EInv

-----------------------------------------------------------------------------
(* Emit, under its own specification and under nt_verify's.                  *)

LEMMA EmitInvariance == Spec => []EInv
<1>1. Init => EInv
  BY InitEInv
<1>2. EInv /\ [Next]_vars => EInv'
  BY NextEInv
<1>3. QED
  BY <1>1, <1>2, PTL DEF Spec

\* What emit promises holds of nt_scratch alone, whether or not nt_verify runs.
THEOREM EmitCorrect ==
  Spec => [](TypeOK /\ InBounds /\ RowsAccounted /\ OkMeansComplete)
BY EmitInvariance, EInvGives, PTL

-----------------------------------------------------------------------------
(* The rows of the files, one file after the other.                          *)

Reads(t, fs, ps, l) ==
  t = [g \in 0 .. l |-> IF g = 0 THEN <<>> ELSE t[g - 1] \o ps[fs[g]].rows]

RowsTo(fs, ps, g) == (CHOOSE t : Reads(t, fs, ps, Len(fs)))[g]

Parts == [Bins -> [state : States, rows : Seq(OutRows)]]

LEMMA AllRowsIs ==
  /\ AllRows = RowsTo(files, part, Len(files))
  /\ AllRows' = RowsTo(files', part', Len(files'))
BY DEF AllRows, RowsTo, Reads, RowsOf

LEMMA ReadsExists ==
  ASSUME NEW fs, NEW ps
  PROVE  \A l \in Nat : \E t : Reads(t, fs, ps, l)
<1> DEFINE Solved == {l \in Nat : \E t : Reads(t, fs, ps, l)}
<1>1. 0 \in Solved
  <2>1. Reads([g \in 0 .. 0 |-> <<>>], fs, ps, 0)
    BY DEF Reads
  <2>2. QED
    BY <2>1
<1>2. ASSUME NEW l \in Nat, l \in Solved
      PROVE  l + 1 \in Solved
  <2>1. PICK t : Reads(t, fs, ps, l)
    BY <1>2
  <2> PICK last : last = t[l] \o ps[fs[l + 1]].rows
    OBVIOUS
  <2> DEFINE u == [g \in 0 .. l + 1 |-> IF g \in 0 .. l THEN t[g] ELSE last]
  <2>2. \A g \in 0 .. l : t[g] = IF g = 0 THEN <<>> ELSE t[g - 1] \o ps[fs[g]].rows
    BY <2>1 DEF Reads
  <2>3. ASSUME NEW g \in 0 .. l + 1
        PROVE  u[g] = IF g = 0 THEN <<>> ELSE u[g - 1] \o ps[fs[g]].rows
    <3>1. CASE g = 0
      BY <2>2, <3>1
    <3>2. CASE g \in 1 .. l
      <4>1. g - 1 \in 0 .. l /\ g \in 0 .. l /\ g # 0
        BY <3>2
      <4>2. u[g] = t[g] /\ u[g - 1] = t[g - 1]
        BY <4>1
      <4>3. QED
        BY <2>2, <4>1, <4>2
    <3>3. CASE g = l + 1
      <4>1. g - 1 = l /\ g - 1 \in 0 .. l /\ ~(g \in 0 .. l) /\ g # 0
        BY <3>3
      <4>2. u[g] = last
        BY <3>3, <4>1
      <4>3. u[g - 1] = t[l]
        BY <4>1
      <4>4. QED
        BY <3>3, <4>1, <4>2, <4>3
    <3>4. QED
      BY <3>1, <3>2, <3>3
  <2>4. Reads(u, fs, ps, l + 1)
    BY <2>3 DEF Reads
  <2> HIDE DEF u
  <2>5. \E v : Reads(v, fs, ps, l + 1)
    BY <2>4
  <2>6. QED
    BY <2>5
<1>3. \A l \in Nat : l \in Solved
  <2> HIDE DEF Solved
  <2>1. QED
    BY <1>1, <1>2, InductionInSet
<1>4. QED
  BY <1>3

LEMMA RowsToUnfolds ==
  ASSUME NEW fs \in Seq(Bins), NEW ps \in Parts
  PROVE  /\ Len(fs) \in Nat /\ \A g \in 1 .. Len(fs) : ps[fs[g]].rows \in Seq(OutRows)
         /\ RowsTo(fs, ps, 0) = <<>>
         /\ \A g \in 1 .. Len(fs) :
              RowsTo(fs, ps, g) = RowsTo(fs, ps, g - 1) \o ps[fs[g]].rows
         /\ \A g \in 0 .. Len(fs) : RowsTo(fs, ps, g) \in Seq(OutRows)
<1> PICK t : t = CHOOSE c : Reads(c, fs, ps, Len(fs))
  OBVIOUS
<1>1. Len(fs) \in Nat /\ \A g \in 1 .. Len(fs) : fs[g] \in Bins
  BY LenProperties, ElementOfSeq
<1>2. \A g \in 1 .. Len(fs) : ps[fs[g]].rows \in Seq(OutRows)
  BY <1>1 DEF Parts
<1>3. Reads(t, fs, ps, Len(fs))
  BY <1>1, ReadsExists
<1>4. \A g : RowsTo(fs, ps, g) = t[g]
  BY DEF RowsTo
<1>5. \A g \in 0 .. Len(fs) : t[g] = IF g = 0 THEN <<>> ELSE t[g - 1] \o ps[fs[g]].rows
  BY <1>3 DEF Reads
<1>6. t[0] = <<>> /\ \A g \in 1 .. Len(fs) : t[g] = t[g - 1] \o ps[fs[g]].rows
  <2>1. 0 \in 0 .. Len(fs) /\ \A g \in 1 .. Len(fs) : g \in 0 .. Len(fs) /\ g # 0
    BY <1>1
  <2>2. QED
    BY <1>5, <2>1
<1> DEFINE Typed0 == {g \in Nat : g <= Len(fs) => t[g] \in Seq(OutRows)}
<1>7. 0 \in Typed0
  BY <1>6, EmptySeq
<1>8. ASSUME NEW g \in Nat, g \in Typed0
      PROVE  g + 1 \in Typed0
  <2> SUFFICES ASSUME g + 1 <= Len(fs) PROVE t[g + 1] \in Seq(OutRows)
    OBVIOUS
  <2>1. g + 1 \in 1 .. Len(fs) /\ (g + 1) - 1 = g /\ g <= Len(fs)
    BY <1>1
  <2>2. t[g] \in Seq(OutRows) /\ ps[fs[g + 1]].rows \in Seq(OutRows)
    BY <1>2, <1>8, <2>1
  <2>3. t[g + 1] = t[g] \o ps[fs[g + 1]].rows
    BY <1>6, <2>1
  <2>4. QED
    BY <2>2, <2>3, ConcatProperties
<1>9. \A g \in Nat : g \in Typed0
  <2> HIDE DEF Typed0
  <2>1. QED
    BY <1>7, <1>8, InductionInSet
<1>10. \A g \in 0 .. Len(fs) : t[g] \in Seq(OutRows)
  BY <1>1, <1>9
<1>11. QED
  BY <1>1, <1>2, <1>4, <1>6, <1>10

LEMMA RowsAssociate ==
  \A x, y, z \in Seq(OutRows) : (x \o y) \o z = x \o (y \o z)
BY ConcatAssociative

\* The rows of the first files are a prefix of the rows of all.
LEMMA RowsToPrefix ==
  ASSUME NEW fs \in Seq(Bins), NEW ps \in Parts, NEW g \in 0 .. Len(fs)
  PROVE  \E rest \in Seq(OutRows) : RowsTo(fs, ps, Len(fs)) = RowsTo(fs, ps, g) \o rest
<1> DEFINE R(h) == RowsTo(fs, ps, h)
    Prefix == {d \in Nat : g + d <= Len(fs) =>
                             \E rest \in Seq(OutRows) : R(g + d) = R(g) \o rest}
<1>1. /\ Len(fs) \in Nat /\ \A h \in 0 .. Len(fs) : R(h) \in Seq(OutRows)
      /\ \A h \in 1 .. Len(fs) : /\ ps[fs[h]].rows \in Seq(OutRows)
                                 /\ R(h) = R(h - 1) \o ps[fs[h]].rows
  BY RowsToUnfolds
<1> HIDE DEF R
<1>2. 0 \in Prefix
  <2>1. R(g) \in Seq(OutRows) /\ g + 0 = g /\ <<>> \in Seq(OutRows)
    BY <1>1, EmptySeq
  <2>2. R(g) = R(g) \o <<>>
    BY <2>1, ConcatEmptySeq
  <2>3. \E rest \in Seq(OutRows) : R(g) = R(g) \o rest
    BY <2>1, <2>2
  <2>4. QED
    BY <2>1, <2>3
<1>3. ASSUME NEW d \in Nat, d \in Prefix
      PROVE  d + 1 \in Prefix
  <2> SUFFICES ASSUME g + (d + 1) <= Len(fs)
               PROVE  \E rest \in Seq(OutRows) : R(g + (d + 1)) = R(g) \o rest
    OBVIOUS
  <2>1. /\ g + (d + 1) \in 1 .. Len(fs) /\ (g + (d + 1)) - 1 = g + d
        /\ g + d <= Len(fs) /\ g \in 0 .. Len(fs)
    BY <1>1
  <2>2. PICK rest \in Seq(OutRows) : R(g + d) = R(g) \o rest
    BY <1>3, <2>1
  <2>3. PICK next \in Seq(OutRows) : R(g + (d + 1)) = R(g + d) \o next
    BY <1>1, <2>1
  <2>4. R(g) \in Seq(OutRows)
    BY <1>1, <2>1
  <2>5. (R(g) \o rest) \o next = R(g) \o (rest \o next) /\ rest \o next \in Seq(OutRows)
    <3>1. PICK a \in Seq(OutRows) : a = R(g)
      BY <2>4
    <3>2. (a \o rest) \o next = a \o (rest \o next)
      BY RowsAssociate
    <3>3. rest \o next \in Seq(OutRows)
      BY ConcatProperties
    <3>4. QED
      BY <3>1, <3>2, <3>3
  <2>6. QED
    BY <2>2, <2>3, <2>5
<1>4. \A d \in Nat : d \in Prefix
  <2> HIDE DEF Prefix
  <2>1. QED
    BY <1>2, <1>3, InductionInSet
<1>5. Len(fs) - g \in Nat /\ g + (Len(fs) - g) = Len(fs)
  BY <1>1
<1>6. \E rest \in Seq(OutRows) : R(Len(fs)) = R(g) \o rest
  <2>1. Len(fs) - g \in Prefix /\ g + (Len(fs) - g) <= Len(fs)
    <3> HIDE DEF Prefix
    <3>1. QED
      BY <1>1, <1>4, <1>5
  <2>2. \E rest \in Seq(OutRows) : R(g + (Len(fs) - g)) = R(g) \o rest
    BY <2>1
  <2>3. QED
    BY <1>5, <2>2
<1>7. QED
  BY <1>6 DEF R

\* A row that one file has once, and no other file, is read once.
LEMMA RowsToOnce ==
  ASSUME NEW fs \in Seq(Bins), NEW ps \in Parts, NEW X, NEW b \in Bins,
         Once(fs, {b}), Once(ps[b].rows, X),
         \A c \in Bins \ {b} : None(ps[c].rows, X)
  PROVE  Once(RowsTo(fs, ps, Len(fs)), X)
<1> DEFINE R(h) == RowsTo(fs, ps, h)
<1>1. /\ Len(fs) \in Nat /\ \A h \in 0 .. Len(fs) : R(h) \in Seq(OutRows)
      /\ R(0) = <<>>
      /\ \A h \in 1 .. Len(fs) : /\ ps[fs[h]].rows \in Seq(OutRows)
                                 /\ R(h) = R(h - 1) \o ps[fs[h]].rows
  BY RowsToUnfolds
<1>2. PICK p \in 1 .. Len(fs) : \A q \in 1 .. Len(fs) : fs[q] \in {b} <=> q = p
  BY DEF Once
<1>3. \A q \in 1 .. Len(fs) : fs[q] \in Bins
  BY ElementOfSeq
<1>4. \A q \in 1 .. Len(fs) : IF q = p THEN Once(ps[fs[q]].rows, X)
                              ELSE None(ps[fs[q]].rows, X)
  BY <1>2, <1>3
<1> DEFINE Held == {g \in Nat : g <= Len(fs) =>
                                  IF g < p THEN None(R(g), X) ELSE Once(R(g), X)}
<1> HIDE DEF R
<1>5. 0 \in Held
  BY <1>1, EmptyOnce
<1>6. ASSUME NEW g \in Nat, g \in Held
      PROVE  g + 1 \in Held
  <2> SUFFICES ASSUME g + 1 <= Len(fs)
               PROVE  IF g + 1 < p THEN None(R(g + 1), X) ELSE Once(R(g + 1), X)
    OBVIOUS
  <2>1. /\ g + 1 \in 1 .. Len(fs) /\ (g + 1) - 1 = g /\ g <= Len(fs)
        /\ g \in 0 .. Len(fs)
    BY <1>1
  <2>2. PICK next \in Seq(OutRows) : next = ps[fs[g + 1]].rows
    BY <1>1, <2>1
  <2>3. R(g + 1) = R(g) \o next /\ R(g) \in Seq(OutRows)
    BY <1>1, <2>1, <2>2
  <2>4. IF g < p THEN None(R(g), X) ELSE Once(R(g), X)
    BY <1>6, <2>1
  <2>5. IF g + 1 = p THEN Once(next, X) ELSE None(next, X)
    BY <1>4, <2>1, <2>2
  <2>6. /\ None(R(g), X) /\ None(next, X) => None(R(g) \o next, X)
        /\ Once(R(g), X) /\ None(next, X) => Once(R(g) \o next, X)
        /\ None(R(g), X) /\ Once(next, X) => Once(R(g) \o next, X)
    BY <2>3, ConcatOnce
  <2>7. CASE g + 1 < p
    <3>1. g < p /\ g + 1 # p
      BY <2>7
    <3>2. QED
      BY <2>3, <2>4, <2>5, <2>6, <2>7, <3>1
  <2>8. CASE g + 1 = p
    <3>1. g < p /\ ~(g + 1 < p)
      BY <2>8
    <3>2. QED
      BY <2>3, <2>4, <2>5, <2>6, <2>8, <3>1
  <2>9. CASE g + 1 > p
    <3>1. ~(g < p) /\ g + 1 # p /\ ~(g + 1 < p)
      BY <2>9
    <3>2. QED
      BY <2>3, <2>4, <2>5, <2>6, <3>1
  <2>10. QED
    BY <2>7, <2>8, <2>9
<1>7. \A g \in Nat : g \in Held
  <2> HIDE DEF Held
  <2>1. QED
    BY <1>5, <1>6, InductionInSet
<1>8. Once(R(Len(fs)), X)
  BY <1>1, <1>2, <1>7
<1>9. QED
  BY <1>8 DEF R

-----------------------------------------------------------------------------
(* The inductive invariant of nt_verify.                                     *)

\* Joined with its own result.
JoinedRows == {x \in OutRows : x.file = x.seed}

Reading == vpc \in {"open", "batch"}

\* The rows read so far, and the ok ones of them.
RowsSeen ==
  RowsTo(files, part, f - 1)
    \o (IF vpc = "batch" THEN SubSeq(RowsOf(files[f]), 1, at) ELSE <<>>)

CursorInv ==
  /\ n \in SampleSizes /\ files \in Seq(Bins) /\ f \in 1 .. Len(files) + 1
  /\ vpc = "batch" => f <= Len(files) /\ at \in 0 .. Len(RowsOf(files[f]))
  /\ vpc \in {"idle", "open", "batch", "judge", "pass", "fail", "error"}
  /\ vpc # "idle" => ~Emitting
  /\ vpc = "idle" => files = <<>> /\ f = 1 /\ sample = <<>>
  /\ vpc # "fail"

\* Each part is found once.
FilesInv ==
  vpc # "idle" =>
    \A b \in Bins : IF part[b].state = "none" THEN None(files, {b}) ELSE Once(files, {b})

SampleInv == sample \in Seq(JoinedRows) /\ Len(sample) <= n

\* While it reads, the sample is all it has seen; and every file passed, and
\* the open one, has a footer.
SeenInv ==
  Reading => /\ Len(sample) < n
             /\ sample = SelectIn(RowsSeen, OkRow)
             /\ \A g \in 1 .. Len(files) :
                  g < f \/ (vpc = "batch" /\ g = f) => Readable(files[g])

\* A sample that is too short is of everything.
ShortInv ==
  Sampling /\ Len(sample) < n =>
    /\ sample = OkRows
    /\ \A g \in 1 .. Len(files) : Readable(files[g])

VInv ==
  /\ EInv /\ CursorInv /\ FilesInv /\ SampleInv /\ SeenInv /\ ShortInv /\ SampleExact

LEMMA JoinedRowsOf ==
  /\ JoinedRows \subseteq OutRows /\ \A b : BinRows(b) \subseteq JoinedRows
  /\ \A s \in Seq(JoinedRows) : s \in Seq(OutRows)
  /\ EInv => part \in Parts /\ \A b \in Bins : part[b].rows \in Seq(JoinedRows)
<1>1. JoinedRows \subseteq OutRows /\ \A b : BinRows(b) \subseteq JoinedRows
  BY DEF JoinedRows, BinRows
<1>2. \A s \in Seq(JoinedRows) : s \in Seq(OutRows)
  BY <1>1, SeqMonotonic
<1>3. ASSUME EInv, NEW b \in Bins
      PROVE  part[b].rows \in Seq(JoinedRows)
  <2>1. part[b].rows \in Seq(BinRows(b))
    BY <1>3 DEF EInv, RowsInv
  <2>2. QED
    BY <1>1, <2>1, SeqMonotonic
<1>4. EInv => part \in Parts
  BY DEF EInv, RowsInv, Parts
<1>5. QED
  BY <1>1, <1>2, <1>3, <1>4

\* collect_parquets finds each part once.
LEMMA FilesFound ==
  LET fs == SelectIn(PathOrder, {b \in Bins : part[b].state # "none"}) IN
  /\ fs \in Seq(Bins)
  /\ \A b \in Bins : IF part[b].state = "none" THEN None(fs, {b}) ELSE Once(fs, {b})
<1> PICK F : F = {b \in Bins : part[b].state # "none"}
  OBVIOUS
<1>1. PathOrder \in Seq(Bins) /\ Len(PathOrder) \in Nat
      /\ DOMAIN PathOrder = 1 .. Len(PathOrder)
  BY VerifyAssumption, LenProperties
<1>2. SelectIn(PathOrder, F) \in Seq(Bins)
  BY <1>1, SelectTyped
<1>3. ASSUME NEW b \in Bins
      PROVE  IF b \in F THEN Once(SelectIn(PathOrder, F), {b})
                        ELSE None(SelectIn(PathOrder, F), {b})
  <2>1. /\ None(SelectIn(PathOrder, F), {b}) <=> None(PathOrder, {b} \cap F)
        /\ Once(SelectIn(PathOrder, F), {b}) <=> Once(PathOrder, {b} \cap F)
    BY <1>1, SelectOnce
  <2>2. CASE b \in F
    <3>1. PICK p \in 1 .. Len(PathOrder) : PathOrder[p] = b
      BY <1>1, VerifyAssumption
    <3>2. \A q \in 1 .. Len(PathOrder) : PathOrder[q] = b <=> q = p
      BY <1>1, <3>1, VerifyAssumption
    <3>3. {b} \cap F = {b}
      BY <2>2
    <3>4. Once(PathOrder, {b})
      BY <3>1, <3>2 DEF Once
    <3>5. QED
      BY <2>1, <2>2, <3>3, <3>4
  <2>3. CASE b \notin F
    <3>1. {b} \cap F = {}
      BY <2>3
    <3>2. None(PathOrder, {})
      BY DEF None
    <3>3. QED
      BY <2>1, <2>3, <3>1, <3>2
  <2>4. QED
    BY <2>2, <2>3
<1>4. QED
  BY <1>2, <1>3

\* Nothing but the phase of nt_verify matters to what it reads.
LEMMA SameFiles ==
  ASSUME UNCHANGED <<vars, files>>
  PROVE  /\ OkRows' = OkRows /\ (EInv => EInv')
         /\ \A g : Readable(files[g])' = Readable(files[g])
<1>1. AllRows' = AllRows
  BY AllRowsIs DEF vars
<1>2. OkRows' = OkRows
  BY <1>1 DEF OkRows
<1>3. EInv => EInv'
  BY UnchangedStep
<1>4. QED
  BY <1>2, <1>3 DEF Readable, vars

-----------------------------------------------------------------------------
(* Every step of nt_verify preserves it.                                     *)

LEMMA InitVInv == VerifyInit => VInv
<1> SUFFICES ASSUME VerifyInit PROVE VInv
  OBVIOUS
<1> USE DEF VerifyInit
<1>1. EInv
  BY InitEInv
<1>2. /\ <<>> \in Seq(Bins) /\ <<>> \in Seq(JoinedRows) /\ Len(<<>>) = 0
      /\ n \in SampleSizes /\ n \in Nat \ {0} /\ 1 \in 1 .. 0 + 1
  BY VerifyAssumption, EmptySeq
<1>3. CursorInv /\ FilesInv /\ SampleInv /\ SeenInv /\ ShortInv /\ SampleExact
  BY <1>2 DEF CursorInv, FilesInv, SampleInv, SeenInv, ShortInv, SampleExact, Reading,
              Sampling
<1>4. QED
  BY <1>1, <1>3 DEF VInv

\* nt_scratch runs on.
LEMMA EmitStep == VInv /\ vpc = "idle" /\ [Next]_vars /\ UNCHANGED verifying => VInv'
<1> SUFFICES ASSUME VInv, vpc = "idle", [Next]_vars, UNCHANGED verifying PROVE VInv'
  OBVIOUS
<1> USE DEF verifying
<1>1. EInv'
  BY NextEInv DEF VInv
<1>2. CursorInv /\ files = <<>> /\ SampleInv
  BY DEF VInv, CursorInv
<1>3. CursorInv' /\ FilesInv' /\ SampleInv' /\ SeenInv' /\ ShortInv' /\ SampleExact'
  BY <1>2 DEF CursorInv, FilesInv, SampleInv, SeenInv, ShortInv, SampleExact, Reading,
              Sampling
<1>4. QED
  BY <1>1, <1>3 DEF VInv

\* Facts about the state that every step below starts from.
LEMMA VTyped ==
  ASSUME VInv
  PROVE  /\ EInv /\ part \in Parts /\ files \in Seq(Bins) /\ Len(files) \in Nat
         /\ f \in 1 .. Len(files) + 1 /\ f - 1 \in 0 .. Len(files)
         /\ n \in Nat \ {0} /\ Len(sample) \in Nat /\ Len(sample) <= n
         /\ sample \in Seq(JoinedRows) /\ sample \in Seq(OutRows)
         /\ RowsTo(files, part, f - 1) \in Seq(OutRows)
         /\ f <= Len(files) =>
              /\ f \in 1 .. Len(files) /\ files[f] \in Bins
              /\ RowsOf(files[f]) \in Seq(JoinedRows)
              /\ RowsOf(files[f]) \in Seq(OutRows)
              /\ Len(RowsOf(files[f])) \in Nat
              /\ RowsTo(files, part, f) = RowsTo(files, part, f - 1) \o RowsOf(files[f])
<1>1. /\ EInv /\ files \in Seq(Bins) /\ n \in Nat \ {0} /\ f \in 1 .. Len(files) + 1
      /\ sample \in Seq(JoinedRows) /\ Len(sample) <= n
  BY VerifyAssumption DEF VInv, CursorInv, SampleInv
<1>2. Len(files) \in Nat /\ Len(sample) \in Nat /\ part \in Parts
      /\ sample \in Seq(OutRows)
  BY <1>1, LenProperties, JoinedRowsOf
<1>3. f - 1 \in 0 .. Len(files) /\ (f <= Len(files) => f \in 1 .. Len(files))
  BY <1>1, <1>2
<1>4. RowsTo(files, part, f - 1) \in Seq(OutRows)
  BY <1>1, <1>2, <1>3, RowsToUnfolds
<1>5. ASSUME f <= Len(files)
      PROVE  /\ files[f] \in Bins
             /\ RowsOf(files[f]) \in Seq(JoinedRows)
             /\ RowsOf(files[f]) \in Seq(OutRows)
             /\ Len(RowsOf(files[f])) \in Nat
             /\ RowsTo(files, part, f) = RowsTo(files, part, f - 1) \o RowsOf(files[f])
  <2>1. f \in 1 .. Len(files) /\ files[f] \in Bins
    BY <1>1, <1>3, <1>5, ElementOfSeq
  <2>2. RowsOf(files[f]) \in Seq(JoinedRows)
    BY <1>1, <2>1, JoinedRowsOf DEF RowsOf
  <2>3. RowsOf(files[f]) \in Seq(OutRows) /\ Len(RowsOf(files[f])) \in Nat
    BY <2>2, JoinedRowsOf, LenProperties
  <2>4. RowsTo(files, part, f) = RowsTo(files, part, f - 1) \o RowsOf(files[f])
    BY <1>1, <1>2, <2>1, RowsToUnfolds DEF RowsOf
  <2>5. QED
    BY <2>1, <2>2, <2>3, <2>4
<1>6. QED
  BY <1>1, <1>2, <1>3, <1>4, <1>5

LEMMA CollectStep == VInv /\ CollectParquets => VInv'
<1> SUFFICES ASSUME VInv, CollectParquets PROVE VInv'
  OBVIOUS
<1> USE DEF CollectParquets
<1>1. EInv'
  BY UnchangedStep DEF VInv
<1>2. /\ vpc = "idle" /\ ~Emitting /\ n' = n /\ f' = 1 /\ sample' = <<>>
      /\ part' = part /\ pc' = pc
      /\ vpc' = IF files' = <<>> THEN "error" ELSE "open"
  BY DEF VInv, CursorInv, vars
<1>3. files' \in Seq(Bins)
      /\ \A b \in Bins : IF part[b].state = "none" THEN None(files', {b})
                         ELSE Once(files', {b})
  BY FilesFound
<1>4. Len(files') \in Nat /\ 1 \in 1 .. Len(files') + 1
  BY <1>3, LenProperties
<1>5. n \in SampleSizes /\ n \in Nat \ {0} /\ Len(<<>>) = 0 /\ <<>> \in Seq(JoinedRows)
  BY VerifyAssumption, EmptySeq DEF VInv, CursorInv
<1>6. vpc' \in {"error", "open"} /\ ~Emitting'
  BY <1>2 DEF Emitting
<1>7. CursorInv'
  BY <1>2, <1>3, <1>4, <1>5, <1>6 DEF CursorInv
<1>8. FilesInv'
  BY <1>2, <1>3 DEF FilesInv
<1>9. SampleInv' /\ ShortInv' /\ SampleExact'
  BY <1>2, <1>5, <1>6 DEF SampleInv, ShortInv, SampleExact, Sampling
<1>10. SeenInv'
  <2> SUFFICES ASSUME vpc' = "open" PROVE SeenInv'
    BY <1>6 DEF SeenInv, Reading
  <2>1. RowsSeen' = RowsTo(files', part', 0) \o <<>>
    BY <1>2 DEF RowsSeen
  <2>2. RowsTo(files', part', 0) = <<>>
    BY <1>1, <1>3, JoinedRowsOf, RowsToUnfolds, <1>2 DEF VInv
  <2>3. <<>> \o <<>> = <<>>
    BY ConcatEmptySeq, EmptySeq
  <2>4. SelectIn(RowsSeen', OkRow) = <<>>
    BY <2>1, <2>2, <2>3, SelectEmpty
  <2>5. \A g \in 1 .. Len(files') : ~(g < 1)
    BY <1>4
  <2>6. QED
    BY <1>2, <1>5, <2>4, <2>5 DEF SeenInv
<1>11. QED
  BY <1>1, <1>7, <1>8, <1>9, <1>10 DEF VInv

LEMMA OpenFileStep == VInv /\ OpenFile => VInv'
<1> SUFFICES ASSUME VInv, OpenFile PROVE VInv'
  OBVIOUS
<1>1. /\ vpc = "open" /\ f <= Len(files)
      /\ vpc' = IF Readable(files[f]) THEN "batch" ELSE "error"
      /\ at' = 0 /\ UNCHANGED <<vars, n, files, f, sample>>
  BY DEF OpenFile
<1>2. /\ EInv' /\ OkRows' = OkRows /\ \A g : Readable(files[g])' = Readable(files[g])
      /\ part' = part /\ pc' = pc
  BY <1>1, SameFiles DEF VInv, vars
<1>3. 0 \in 0 .. Len(RowsOf(files[f])) /\ RowsOf(files[f])' = RowsOf(files[f])
  BY <1>1, <1>2, VTyped DEF RowsOf
<1>4. CursorInv'
  BY <1>1, <1>2, <1>3 DEF VInv, CursorInv, Emitting
<1>5. FilesInv' /\ SampleInv' /\ ShortInv' /\ SampleExact'
  BY <1>1, <1>2 DEF VInv, FilesInv, SampleInv, ShortInv, SampleExact, Sampling
<1>6. SeenInv'
  <2> SUFFICES ASSUME vpc' = "batch" PROVE SeenInv'
    BY <1>1 DEF SeenInv, Reading
  <2>1. SubSeq(RowsOf(files[f]), 1, 0) = <<>>
    BY SubSeqEmpty
  <2>2. RowsSeen' = RowsSeen
    BY <1>1, <1>2, <1>3, <2>1 DEF RowsSeen
  <2>3. Readable(files[f])
    BY <1>1
  <2>4. QED
    BY <1>1, <1>2, <2>2, <2>3 DEF VInv, SeenInv, Reading
<1>7. QED
  BY <1>2, <1>4, <1>5, <1>6 DEF VInv

LEMMA NextFileStep == VInv /\ NextFile => VInv'
<1> SUFFICES ASSUME VInv, NextFile PROVE VInv'
  OBVIOUS
<1>1. /\ vpc = "batch" /\ at = Len(RowsOf(files[f])) /\ f <= Len(files)
      /\ f' = f + 1 /\ vpc' = "open" /\ UNCHANGED <<vars, n, files, at, sample>>
  BY DEF NextFile, VInv, CursorInv
<1>2. /\ EInv' /\ OkRows' = OkRows /\ \A g : Readable(files[g])' = Readable(files[g])
      /\ part' = part /\ pc' = pc
  BY <1>1, SameFiles DEF VInv, vars
<1>3. /\ f \in 1 .. Len(files) /\ Len(files) \in Nat /\ f + 1 \in 1 .. Len(files) + 1
      /\ (f + 1) - 1 = f
      /\ RowsOf(files[f]) \in Seq(OutRows)
      /\ RowsTo(files, part, f) = RowsTo(files, part, f - 1) \o RowsOf(files[f])
      /\ RowsTo(files, part, f) \in Seq(OutRows)
  <2>1. /\ f \in 1 .. Len(files) /\ Len(files) \in Nat
        /\ files \in Seq(Bins) /\ part \in Parts
        /\ RowsOf(files[f]) \in Seq(OutRows)
        /\ RowsTo(files, part, f) = RowsTo(files, part, f - 1) \o RowsOf(files[f])
    BY <1>1, VTyped
  <2>2. f \in 0 .. Len(files) /\ f + 1 \in 1 .. Len(files) + 1 /\ (f + 1) - 1 = f
    BY <2>1
  <2>3. RowsTo(files, part, f) \in Seq(OutRows)
    BY <2>1, <2>2, RowsToUnfolds
  <2>4. QED
    BY <2>1, <2>2, <2>3
<1>4. CursorInv'
  BY <1>1, <1>2, <1>3 DEF VInv, CursorInv, Emitting
<1>5. FilesInv' /\ SampleInv' /\ ShortInv' /\ SampleExact'
  BY <1>1, <1>2 DEF VInv, FilesInv, SampleInv, ShortInv, SampleExact, Sampling
<1>6. SeenInv'
  <2>1. RowsSeen = RowsTo(files, part, f)
    <3>1. SubSeq(RowsOf(files[f]), 1, at) = RowsOf(files[f])
      BY <1>1, <1>3, SubSeqFull
    <3>2. QED
      BY <1>1, <1>3, <3>1 DEF RowsSeen
  <2>2. RowsSeen' = RowsTo(files, part, f) \o <<>>
    BY <1>1, <1>2, <1>3 DEF RowsSeen
  <2>3. RowsSeen' = RowsSeen
    BY <1>3, <2>1, <2>2, ConcatEmptySeq
  <2>4. \A g \in 1 .. Len(files) : g < f + 1 => g < f \/ g = f
    BY <1>3
  <2>5. QED
    BY <1>1, <1>2, <2>3, <2>4 DEF VInv, SeenInv, Reading
<1>7. QED
  BY <1>2, <1>4, <1>5, <1>6 DEF VInv

LEMMA AllReadStep == VInv /\ AllRead => VInv'
<1> SUFFICES ASSUME VInv, AllRead PROVE VInv'
  OBVIOUS
<1>1. /\ vpc = "open" /\ f > Len(files) /\ vpc' = "judge"
      /\ UNCHANGED <<vars, n, files, f, at, sample>>
  BY DEF AllRead
<1>2. /\ EInv' /\ OkRows' = OkRows /\ \A g : Readable(files[g])' = Readable(files[g])
      /\ part' = part /\ pc' = pc
  BY <1>1, SameFiles DEF VInv, vars
<1>3. /\ Len(files) \in Nat /\ f - 1 = Len(files)
      /\ \A g \in 1 .. Len(files) : g < f
      /\ RowsTo(files, part, Len(files)) \in Seq(OutRows)
      /\ n \in Nat /\ Len(sample) \in Nat /\ Len(sample) < n
      /\ sample \in Seq(OutRows)
  <2>1. Len(files) \in Nat /\ f - 1 = Len(files) /\ \A g \in 1 .. Len(files) : g < f
    BY <1>1, VTyped
  <2>2. Len(sample) < n
    BY <1>1 DEF VInv, SeenInv, Reading
  <2>3. QED
    BY <2>1, <2>2, VTyped
<1>4. sample = OkRows
  <2>1. RowsSeen = RowsTo(files, part, Len(files)) \o <<>>
    BY <1>1, <1>3 DEF RowsSeen
  <2>2. RowsSeen = AllRows
    BY <1>3, <2>1, ConcatEmptySeq, AllRowsIs
  <2>3. QED
    BY <1>1, <2>2 DEF VInv, SeenInv, Reading, OkRows
<1>5. CursorInv' /\ FilesInv' /\ SampleInv' /\ SeenInv'
  BY <1>1, <1>2 DEF VInv, CursorInv, FilesInv, SampleInv, SeenInv, Reading, Emitting
<1>6. ShortInv'
  BY <1>1, <1>2, <1>3, <1>4 DEF VInv, SeenInv, Reading, ShortInv
<1>7. SampleExact'
  <2>1. SubSeq(sample, 1, Len(sample)) = sample
    BY <1>3, SubSeqFull
  <2>2. ~(n < Len(sample))
    BY <1>3
  <2>3. QED
    BY <1>1, <1>2, <1>4, <2>1, <2>2 DEF SampleExact
<1>8. QED
  BY <1>2, <1>5, <1>6, <1>7 DEF VInv

\* A sampled row was joined with its own result: it is what the direct walk
\* finds.
LEMMA JudgeStep == VInv /\ Judge => VInv'
<1> SUFFICES ASSUME VInv, Judge PROVE VInv'
  OBVIOUS
<1>1. /\ vpc = "judge" /\ UNCHANGED <<vars, n, files, f, at, sample>>
  BY DEF Judge
<1>2. /\ EInv' /\ OkRows' = OkRows /\ \A g : Readable(files[g])' = Readable(files[g])
      /\ part' = part /\ pc' = pc
  BY <1>1, SameFiles DEF VInv, vars
<1>3. vpc' = "pass"
  <2>1. ASSUME NEW s \in DOMAIN sample
        PROVE  ~Discrepant(sample[s])
    <3>1. sample[s] \in JoinedRows
      BY <2>1, LenProperties, ElementOfSeq DEF VInv, SampleInv
    <3>2. QED
      BY <3>1 DEF JoinedRows, Discrepant, Direct
  <2>2. QED
    BY <2>1 DEF Judge
<1>4. CursorInv' /\ FilesInv' /\ SampleInv' /\ SeenInv'
  BY <1>1, <1>2, <1>3 DEF VInv, CursorInv, FilesInv, SampleInv, SeenInv, Reading, Emitting
<1>5. ShortInv' /\ SampleExact'
  BY <1>1, <1>2, <1>3 DEF VInv, ShortInv, SampleExact, Sampling
<1>6. QED
  BY <1>2, <1>4, <1>5 DEF VInv

\* The rows, cut after the first a and after the first u.
CutAt(T, rows, a, u) ==
  /\ SubSeq(rows, 1, a) \in Seq(T) /\ SubSeq(rows, a + 1, u) \in Seq(T)
  /\ SubSeq(rows, 1, u) \in Seq(T) /\ SubSeq(rows, u + 1, Len(rows)) \in Seq(T)
  /\ SubSeq(rows, 1, a) \o SubSeq(rows, a + 1, u) = SubSeq(rows, 1, u)
  /\ SubSeq(rows, 1, u) \o SubSeq(rows, u + 1, Len(rows)) = rows

\* A file cut at a row, and again at a later one.
LEMMA BatchCut ==
  ASSUME NEW T, NEW rows \in Seq(T), NEW a \in Nat, NEW u \in Nat,
         a <= u, u <= Len(rows)
  PROVE  CutAt(T, rows, a, u)
<1> DEFINE l == Len(rows)
<1>1. l \in Nat /\ \A p \in 1 .. l : rows[p] \in T
  BY LenProperties, ElementOfSeq
<1>2. ASSUME NEW x \in Nat, NEW y \in Nat, x + 1 >= 1, y <= l
      PROVE  SubSeq(rows, x + 1, y) \in Seq(T)
  <2>1. \A p \in x + 1 .. y : rows[p] \in T
    BY <1>1, <1>2
  <2>2. x + 1 \in Int /\ y \in Int
    OBVIOUS
  <2>3. QED
    BY <2>1, <2>2, SubSeqProperties
<1>3. 0 \in Nat /\ 0 + 1 = 1 /\ a <= l
  BY <1>1
<1>4. SubSeq(rows, 1, a) \in Seq(T) /\ SubSeq(rows, 1, u) \in Seq(T)
  BY <1>2, <1>3
<1>5. SubSeq(rows, a + 1, u) \in Seq(T) /\ SubSeq(rows, u + 1, Len(rows)) \in Seq(T)
  BY <1>1, <1>2
<1>6. /\ 1 \in 1 .. l + 1 /\ a \in 1 - 1 .. l /\ u \in a .. l
      /\ u \in 1 - 1 .. l /\ l \in u .. l
  BY <1>1
<1>7. SubSeq(rows, 1, a) \o SubSeq(rows, a + 1, u) = SubSeq(rows, 1, u)
  BY <1>6, ConcatAdjacentSubSeq
<1>8. SubSeq(rows, 1, u) \o SubSeq(rows, u + 1, l) = SubSeq(rows, 1, l)
  BY <1>6, ConcatAdjacentSubSeq
<1>9. QED
  BY <1>4, <1>5, <1>7, <1>8, SubSeqFull DEF CutAt

Front(s, k) == IF Len(s) <= k THEN s ELSE SubSeq(s, 1, k)

LEMMA FrontOf ==
  ASSUME NEW T, NEW s \in Seq(T), NEW k \in Nat \ {0}
  PROVE  /\ Front(s, k) \in Seq(T) /\ Len(s) \in Nat
         /\ Len(Front(s, k)) = IF Len(s) <= k THEN Len(s) ELSE k
         /\ \A r \in Seq(T) : k <= Len(s) =>
              Front(s, k) = SubSeq(s \o r, 1, IF k < Len(s \o r) THEN k ELSE Len(s \o r))
<1>1. Len(s) \in Nat /\ \A p \in 1 .. Len(s) : s[p] \in T
  BY LenProperties, ElementOfSeq
<1>2. CASE Len(s) > k
  <2>1. \A p \in 1 .. k : s[p] \in T
    BY <1>1, <1>2
  <2>2. 1 \in Int /\ k \in Int /\ k - 1 + 1 = k /\ 1 <= k
    OBVIOUS
  <2>3. SubSeq(s, 1, k) \in Seq(T) /\ Len(SubSeq(s, 1, k)) = k
    BY <2>1, <2>2, SubSeqProperties
  <2>4. QED
    <3>1. Front(s, k) = SubSeq(s, 1, k) /\ ~(Len(s) <= k)
      BY <1>1, <1>2 DEF Front
    <3>2. ASSUME NEW r \in Seq(T)
          PROVE  Front(s, k) = SubSeq(s \o r, 1, IF k < Len(s \o r) THEN k ELSE Len(s \o r))
      <4>1. Len(s \o r) = Len(s) + Len(r) /\ Len(r) \in Nat
        BY ConcatProperties, LenProperties
      <4>2. k < Len(s \o r)
        BY <1>1, <1>2, <4>1
      <4>3. 1 \in 1 .. Len(s) /\ k \in 1 .. Len(s)
        BY <1>1, <1>2
      <4>4. SubSeq(s \o r, 1, k) = SubSeq(s, 1, k)
        BY <4>3, SubSeqOfConcat1
      <4>5. QED
        BY <3>1, <4>2, <4>4
    <3>3. QED
      BY <1>1, <2>3, <3>1, <3>2
<1>3. CASE Len(s) <= k
  <2>1. Front(s, k) = s
    BY <1>3 DEF Front
  <2>2. ASSUME NEW r \in Seq(T), k <= Len(s)
        PROVE  s = SubSeq(s \o r, 1, IF k < Len(s \o r) THEN k ELSE Len(s \o r))
    <3>1. Len(s) = k
      BY <1>1, <1>3, <2>2
    <3>2. Len(s \o r) = Len(s) + Len(r) /\ Len(r) \in Nat
      BY ConcatProperties, LenProperties
    <3>3. (IF k < Len(s \o r) THEN k ELSE Len(s \o r)) = k
      BY <3>1, <3>2
    <3>4. 1 \in 1 .. Len(s) /\ k \in 1 .. Len(s)
      BY <3>1
    <3>5. SubSeq(s \o r, 1, k) = SubSeq(s, 1, k) /\ SubSeq(s, 1, Len(s)) = s
      BY <3>4, SubSeqOfConcat1, SubSeqFull
    <3>6. QED
      BY <3>1, <3>3, <3>5
  <2>3. QED
    BY <1>1, <1>3, <2>1, <2>2
<1>4. QED
  BY <1>1, <1>2, <1>3

\* Concatenation of output rows, under a name that keeps the provers from
\* expanding it.
Cat(s, r) == s \o r

LEMMA CatAssoc ==
  \A s, r, q \in Seq(OutRows) : Cat(Cat(s, r), q) = Cat(s, Cat(r, q))
BY ConcatAssociative DEF Cat

LEMMA CatClosed == \A s, r \in Seq(OutRows) : Cat(s, r) \in Seq(OutRows)
BY ConcatProperties DEF Cat

LEMMA RowsSelect ==
  \A s, r \in Seq(OutRows) :
    SelectIn(s \o r, OkRow) = SelectIn(s, OkRow) \o SelectIn(r, OkRow)
BY SelectConcat

\* The rows seen when k rows of file g are read.
SeenOf(fs, ps, g, k) == RowsTo(fs, ps, g - 1) \o SubSeq(ps[fs[g]].rows, 1, k)

Grown(fs, ps, g, a, u) ==
  /\ SeenOf(fs, ps, g, a) \in Seq(OutRows) /\ SeenOf(fs, ps, g, u) \in Seq(OutRows)
  /\ SubSeq(ps[fs[g]].rows, a + 1, u) \in Seq(OutRows)
  /\ SeenOf(fs, ps, g, u) = SeenOf(fs, ps, g, a) \o SubSeq(ps[fs[g]].rows, a + 1, u)
  /\ \E rest \in Seq(OutRows) :
       RowsTo(fs, ps, Len(fs)) = SeenOf(fs, ps, g, u) \o rest

\* What has been seen, after rows more of a file: a prefix of all rows.
LEMMA SeenGrows ==
  ASSUME NEW fs \in Seq(Bins), NEW ps \in Parts, NEW g \in 1 .. Len(fs),
         NEW a \in Nat, NEW u \in Nat, a <= u, u <= Len(ps[fs[g]].rows)
  PROVE  Grown(fs, ps, g, a, u)
<1>1. Len(fs) \in Nat
  BY LenProperties
<1>2. g - 1 \in 0 .. Len(fs) /\ g \in 0 .. Len(fs)
  BY <1>1
<1>3. /\ RowsTo(fs, ps, g - 1) \in Seq(OutRows) /\ ps[fs[g]].rows \in Seq(OutRows)
      /\ RowsTo(fs, ps, g) = RowsTo(fs, ps, g - 1) \o ps[fs[g]].rows
  BY <1>2, RowsToUnfolds
<1>4. PICK before \in Seq(OutRows), rows \in Seq(OutRows) :
        before = RowsTo(fs, ps, g - 1) /\ rows = ps[fs[g]].rows
  BY <1>3
<1>5. u <= Len(rows)
  BY <1>4
<1>6. PICK x \in Seq(OutRows), y \in Seq(OutRows), z \in Seq(OutRows), w \in Seq(OutRows) :
        /\ x = SubSeq(rows, 1, a) /\ y = SubSeq(rows, a + 1, u)
        /\ z = SubSeq(rows, 1, u) /\ x \o y = z /\ z \o w = rows
  <2>1. /\ SubSeq(rows, 1, a) \in Seq(OutRows) /\ SubSeq(rows, a + 1, u) \in Seq(OutRows)
        /\ SubSeq(rows, 1, u) \in Seq(OutRows)
        /\ SubSeq(rows, u + 1, Len(rows)) \in Seq(OutRows)
        /\ SubSeq(rows, 1, a) \o SubSeq(rows, a + 1, u) = SubSeq(rows, 1, u)
        /\ SubSeq(rows, 1, u) \o SubSeq(rows, u + 1, Len(rows)) = rows
    <3>1. a <= u /\ u <= Len(rows) /\ rows \in Seq(OutRows)
      BY <1>5
    <3>2. CutAt(OutRows, rows, a, u)
      BY <3>1, BatchCut
    <3>3. QED
      BY <3>2 DEF CutAt
  <2>2. QED
    BY <2>1
<1>7. PICK more \in Seq(OutRows) : RowsTo(fs, ps, Len(fs)) = RowsTo(fs, ps, g) \o more
  BY <1>2, RowsToPrefix
<1>8. /\ Cat(x, y) = z /\ Cat(z, w) = rows
      /\ RowsTo(fs, ps, Len(fs)) = Cat(Cat(before, rows), more)
      /\ SeenOf(fs, ps, g, a) = Cat(before, x) /\ SeenOf(fs, ps, g, u) = Cat(before, z)
      /\ SubSeq(ps[fs[g]].rows, a + 1, u) = y
  BY <1>3, <1>4, <1>6, <1>7 DEF Cat, SeenOf
<1>9. /\ Cat(before, x) \in Seq(OutRows) /\ Cat(before, z) \in Seq(OutRows)
      /\ Cat(w, more) \in Seq(OutRows)
  BY CatClosed
<1>10. Cat(before, z) = Cat(Cat(before, x), y)
  BY <1>8, CatAssoc
<1>11. Cat(before, rows) = Cat(Cat(before, z), w)
  BY <1>8, CatAssoc
<1>12. Cat(Cat(Cat(before, z), w), more) = Cat(Cat(before, z), Cat(w, more))
  BY <1>9, CatAssoc
<1>13. RowsTo(fs, ps, Len(fs)) = Cat(Cat(before, z), Cat(w, more))
  BY <1>8, <1>11, <1>12
<1>14. \E rest \in Seq(OutRows) : RowsTo(fs, ps, Len(fs)) = Cat(SeenOf(fs, ps, g, u), rest)
  BY <1>8, <1>9, <1>13
<1>15. SeenOf(fs, ps, g, u) = Cat(SeenOf(fs, ps, g, a), SubSeq(ps[fs[g]].rows, a + 1, u))
  BY <1>8, <1>10
<1>16. QED
  BY <1>8, <1>9, <1>14, <1>15 DEF Grown, Cat

\* A batch of rows: the sample stays all the ok rows seen, or is cut to n.
LEMMA ReadRowsStep == VInv /\ ReadRows => VInv'
<1> SUFFICES ASSUME VInv, ReadRows PROVE VInv'
  OBVIOUS
<1> DEFINE rows == RowsOf(files[f])
    upTo0 == at + (IF Len(rows) - at < ReadSize THEN Len(rows) - at ELSE ReadSize)
<1>1. PICK upTo : upTo = upTo0
  OBVIOUS
<1> DEFINE chunk == SubSeq(rows, at + 1, upTo)
           all == sample \o SelectIn(chunk, OkRow)
           seen == SeenOf(files, part, f, upTo)
<1>2. /\ vpc = "batch" /\ at < Len(rows) /\ f <= Len(files)
      /\ at' = upTo
      /\ sample' = Front(all, n)
      /\ vpc' = IF Len(sample') >= n THEN "judge" ELSE "batch"
      /\ UNCHANGED <<vars, n, files, f>>
  <2>1. f <= Len(files)
    BY DEF ReadRows, VInv, CursorInv
  <2>2. QED
    BY <1>1, <2>1 DEF ReadRows, Sampled, Front
<1>3. /\ EInv' /\ OkRows' = OkRows /\ \A g : Readable(files[g])' = Readable(files[g])
      /\ part' = part /\ pc' = pc /\ rows' = rows
  BY <1>2, SameFiles DEF VInv, vars, RowsOf
<1>4. /\ files \in Seq(Bins) /\ part \in Parts /\ Len(files) \in Nat
      /\ f \in 1 .. Len(files) /\ n \in Nat \ {0} /\ sample \in Seq(JoinedRows)
      /\ rows \in Seq(JoinedRows) /\ Len(rows) \in Nat /\ rows = part[files[f]].rows
  BY <1>2, VTyped DEF RowsOf
<1>5. at \in Nat /\ upTo \in Nat /\ at <= upTo /\ upTo <= Len(rows)
  <2>1. at \in 0 .. Len(rows) /\ ReadSize \in Nat \ {0}
    BY <1>2, VerifyAssumption DEF VInv, CursorInv
  <2> HIDE DEF rows
  <2>2. CASE Len(rows) - at < ReadSize
    BY <1>1, <1>4, <2>1, <2>2
  <2>3. CASE ~(Len(rows) - at < ReadSize)
    BY <1>1, <1>4, <2>1, <2>3
  <2>4. QED
    BY <2>2, <2>3
<1>6. /\ SeenOf(files, part, f, at) \in Seq(OutRows)
      /\ seen \in Seq(OutRows) /\ chunk \in Seq(OutRows)
      /\ seen = SeenOf(files, part, f, at) \o chunk
      /\ \E rest \in Seq(OutRows) : AllRows = seen \o rest
  <2>1. PICK g \in 1 .. Len(files), a \in Nat, ps \in Parts :
          g = f /\ a = at /\ ps = part /\ rows = ps[files[g]].rows
    BY <1>4, <1>5
  <2>2. a <= upTo /\ upTo <= Len(ps[files[g]].rows)
    BY <1>5, <2>1
  <2>3. Grown(files, ps, g, a, upTo)
    BY <1>4, <1>5, <2>2, SeenGrows
  <2>4. QED
    BY <2>1, <2>3, AllRowsIs DEF Grown
<1>7. chunk \in Seq(JoinedRows)
  BY <1>4, <1>5, BatchCut DEF CutAt
<1>8. RowsSeen = SeenOf(files, part, f, at)
  BY <1>2 DEF RowsSeen, SeenOf, RowsOf
<1>9. sample = SelectIn(RowsSeen, OkRow)
  BY <1>2 DEF VInv, SeenInv, Reading
<1>10. vpc' = "batch" => RowsSeen' = seen
  BY <1>2, <1>3 DEF RowsSeen, SeenOf, RowsOf
<1>11. chunk = SubSeq(rows, at + 1, upTo) /\ all = sample \o SelectIn(chunk, OkRow)
  OBVIOUS
<1> HIDE DEF rows, chunk, all, seen
<1>12. all = SelectIn(seen, OkRow)
  <2>1. RowsSeen \in Seq(OutRows) /\ seen = RowsSeen \o chunk
    BY <1>6, <1>8
  <2>2. SelectIn(RowsSeen \o chunk, OkRow)
          = SelectIn(RowsSeen, OkRow) \o SelectIn(chunk, OkRow)
    BY <1>6, <2>1, RowsSelect
  <2>3. QED
    BY <1>9, <1>11, <2>1, <2>2
<1>13. all \in Seq(JoinedRows) /\ all \in Seq(OutRows)
  <2>1. SelectIn(chunk, OkRow) \in Seq(JoinedRows)
    BY <1>7, SelectTyped
  <2>2. all \in Seq(JoinedRows)
    BY <1>4, <1>11, <2>1, ConcatProperties
  <2>3. QED
    BY <2>2, JoinedRowsOf
<1>14. /\ sample' \in Seq(JoinedRows) /\ Len(all) \in Nat
       /\ Len(sample') = IF Len(all) <= n THEN Len(all) ELSE n
  BY <1>2, <1>4, <1>13, FrontOf
<1>15. CursorInv'
  <2>1. vpc' \in {"judge", "batch"} /\ upTo \in 0 .. Len(rows)
    BY <1>2, <1>4, <1>5
  <2>2. at' \in 0 .. Len(rows')
    BY <1>2, <1>3, <2>1
  <2>3. QED
    BY <1>2, <1>3, <2>1, <2>2 DEF VInv, CursorInv, Emitting, rows
<1>16. FilesInv' /\ SampleInv'
  <2>1. Len(sample') <= n
    BY <1>4, <1>14
  <2>2. QED
    BY <1>2, <1>3, <1>14, <2>1 DEF VInv, FilesInv, SampleInv
<1>17. ShortInv'
  BY <1>2, <1>4, <1>14 DEF ShortInv, Sampling
<1>18. SeenInv'
  <2> SUFFICES ASSUME vpc' = "batch" PROVE SeenInv'
    BY <1>2 DEF SeenInv, Reading
  <2>1. Len(sample') < n /\ Len(all) <= n
    BY <1>2, <1>4, <1>14
  <2>2. sample' = all
    BY <1>2, <2>1 DEF Front
  <2>3. QED
    BY <1>2, <1>3, <1>10, <1>12, <2>1, <2>2 DEF VInv, SeenInv, Reading
<1>19. SampleExact'
  <2> SUFFICES ASSUME vpc' = "judge" PROVE SampleExact'
    BY <1>2 DEF SampleExact, Sampling
  <2>1. n <= Len(all)
    BY <1>2, <1>4, <1>14
  <2>2. PICK rest \in Seq(OutRows) : AllRows = seen \o rest
    BY <1>6
  <2>3. SelectIn(seen \o rest, OkRow) = SelectIn(seen, OkRow) \o SelectIn(rest, OkRow)
    BY <1>6, RowsSelect
  <2>4. PICK tail \in Seq(OutRows) : tail = SelectIn(rest, OkRow)
    BY SelectTyped
  <2>5. OkRows = all \o tail
    BY <1>12, <2>2, <2>3, <2>4 DEF OkRows
  <2>6. Front(all, n) = SubSeq(all \o tail, 1,
                               IF n < Len(all \o tail) THEN n ELSE Len(all \o tail))
    <3>1. n \in Nat \ {0} /\ all \in Seq(OutRows) /\ tail \in Seq(OutRows)
      BY <1>4, <1>13
    <3>2. \A t \in Seq(OutRows) : n <= Len(all) =>
            Front(all, n) = SubSeq(all \o t, 1, IF n < Len(all \o t) THEN n ELSE Len(all \o t))
      BY <3>1, FrontOf
    <3>3. QED
      BY <2>1, <3>1, <3>2
  <2>7. sample' = Front(all, n) /\ OkRows' = OkRows /\ n' = n
    BY <1>2, <1>3
  <2>8. QED
    BY <2>5, <2>6, <2>7 DEF SampleExact
<1>20. QED
  BY <1>3, <1>15, <1>16, <1>17, <1>18, <1>19 DEF VInv

LEMMA NextVInv == VInv /\ [VerifyNext]_allVars => VInv'
<1> SUFFICES ASSUME VInv, [VerifyNext]_allVars PROVE VInv'
  OBVIOUS
<1>1. CASE vpc = "idle" /\ Next /\ UNCHANGED verifying
  BY <1>1, EmitStep
<1>2. CASE CollectParquets \/ OpenFile \/ ReadRows \/ NextFile \/ AllRead \/ Judge
  BY <1>2, CollectStep, OpenFileStep, ReadRowsStep, NextFileStep, AllReadStep, JudgeStep
<1>3. CASE UNCHANGED allVars
  <2>1. UNCHANGED <<vars, n, files, f, at, sample, vpc>>
    BY <1>3 DEF allVars, verifying
  <2>2. /\ EInv' /\ OkRows' = OkRows /\ \A g : Readable(files[g])' = Readable(files[g])
        /\ part' = part /\ pc' = pc
    BY <2>1, SameFiles DEF VInv, vars
  <2>3. RowsSeen' = RowsSeen /\ RowsOf(files[f])' = RowsOf(files[f])
    BY <2>1, <2>2 DEF RowsSeen, RowsOf
  <2>4. CursorInv' /\ FilesInv' /\ SampleInv' /\ SeenInv'
    BY <2>1, <2>2, <2>3 DEF VInv, CursorInv, FilesInv, SampleInv, SeenInv, Reading, Emitting
  <2>5. ShortInv' /\ SampleExact'
    BY <2>1, <2>2 DEF VInv, ShortInv, SampleExact, Sampling
  <2>6. QED
    BY <2>2, <2>4, <2>5 DEF VInv
<1>4. QED
  BY <1>1, <1>2, <1>3 DEF VerifyNext

\* A PASS on a short sample, from the invariant.
LEMMA VInvShort == VInv => ShortPassCovers
<1> SUFFICES ASSUME VInv, vpc = "pass", Len(sample) < n
             PROVE  /\ \A b \in Bins : part[b].state # "open"
                    /\ pc = "ok" =>
                         \A r \in 0 .. nRows - 1 : Leaf[r] # NoLeaf =>
                           \E s \in DOMAIN sample :
                              \A q \in DOMAIN sample : sample[q].file = r <=> q = s
  BY DEF ShortPassCovers
<1>1. /\ sample = OkRows /\ \A g \in 1 .. Len(files) : Readable(files[g])
      /\ \A b \in Bins : part[b].state # "none" => Once(files, {b})
      /\ files \in Seq(Bins) /\ part \in Parts /\ Len(files) \in Nat
      /\ sample \in Seq(JoinedRows) /\ EInv
  BY VTyped DEF VInv, ShortInv, Sampling, FilesInv
<1>2. ASSUME NEW b \in Bins, part[b].state = "open"
      PROVE  FALSE
  <2>1. Once(files, {b})
    BY <1>1, <1>2
  <2>2. PICK g \in 1 .. Len(files) : files[g] = b
    BY <2>1 DEF Once
  <2>3. Readable(b)
    BY <1>1, <2>2
  <2>4. QED
    BY <1>2, <2>3 DEF Readable
<1>3. ASSUME pc = "ok", NEW r \in 0 .. nRows - 1, Leaf[r] # NoLeaf
      PROVE  \E s \in DOMAIN sample :
               \A q \in DOMAIN sample : sample[q].file = r <=> q = s
  <2> PICK b : b = BinOf[r]
    OBVIOUS
  <2>1. nRows \in Nat /\ b \in Bins /\ r \in Nat
    BY <1>1, Typed, EmitAssumption DEF EInv, TypeOK
  <2>2. Once(Due(b, nRows), {ResultRow(r)})
    BY <2>1, DueOnce
  <2>3. Due(b, nRows) # <<>>
    BY <2>2, EmptyOnce
  <2>4. part[b] = [state |-> "closed", rows |-> Due(b, nRows)]
    BY <1>1, <1>3, <2>1, <2>3, EInvGives DEF OkMeansComplete
  <2>5. Once(part[b].rows, {ResultRow(r)}) /\ Once(files, {b})
    BY <1>1, <2>1, <2>2, <2>4
  <2>6. ASSUME NEW c \in Bins \ {b}
        PROVE  None(part[c].rows, {ResultRow(r)})
    <3>1. part[c].rows \in Seq(BinRows(c))
      BY <1>1 DEF EInv, RowsInv
    <3>2. ResultRow(r) \notin BinRows(c)
      BY <2>1 DEF BinRows, ResultRow
    <3>3. QED
      BY <3>1, <3>2, ElementOfSeq DEF None
  <2>7. Once(AllRows, {ResultRow(r)})
    BY <1>1, <2>1, <2>5, <2>6, RowsToOnce, AllRowsIs
  <2>8. ResultRow(r) \in OkRow
    BY <1>3, <2>1, FileUpToNext DEF OkRow, ResultRow
  <2>9. Once(OkRows, {ResultRow(r)})
    <3>1. {ResultRow(r)} \cap OkRow = {ResultRow(r)}
      BY <2>8
    <3>2. AllRows \in Seq(OutRows)
      <4>1. Len(files) \in 0 .. Len(files)
        BY <1>1
      <4>2. QED
        BY <1>1, <4>1, RowsToUnfolds, AllRowsIs
    <3>3. Once(SelectIn(AllRows, OkRow), {ResultRow(r)})
            <=> Once(AllRows, {ResultRow(r)} \cap OkRow)
      BY <3>2, SelectOnce
    <3>4. QED
      BY <2>7, <3>1, <3>3 DEF OkRows
  <2>10. DOMAIN sample = 1 .. Len(sample)
    BY <1>1, LenProperties
  <2>11. ASSUME NEW q \in 1 .. Len(sample)
         PROVE  sample[q].file = r <=> sample[q] \in {ResultRow(r)}
    <3>1. sample[q] \in JoinedRows
      BY <1>1, ElementOfSeq
    <3>2. QED
      BY <3>1 DEF JoinedRows, OutRows, ResultRow
  <2>12. PICK s \in 1 .. Len(sample) :
           \A q \in 1 .. Len(sample) : sample[q] \in {ResultRow(r)} <=> q = s
    BY <1>1, <2>9 DEF Once
  <2>13. QED
    BY <2>10, <2>11, <2>12
<1>4. QED
  BY <1>2, <1>3

LEMMA VInvGives ==
  VInv => /\ VerifyTypeOK /\ InBounds /\ RowsAccounted /\ OkMeansComplete
          /\ SampleExact /\ ShortPassCovers /\ NoFalseAlarm
<1> SUFFICES ASSUME VInv
             PROVE  /\ VerifyTypeOK /\ InBounds /\ RowsAccounted /\ OkMeansComplete
                    /\ SampleExact /\ ShortPassCovers /\ NoFalseAlarm
  OBVIOUS
<1>1. EInv /\ SampleExact /\ CursorInv /\ SampleInv
  BY DEF VInv
<1>2. VerifyTypeOK
  BY <1>1, EInvGives DEF VerifyTypeOK, CursorInv, SampleInv
<1>3. NoFalseAlarm
  BY <1>1 DEF NoFalseAlarm, CursorInv
<1>4. QED
  BY <1>1, <1>2, <1>3, EInvGives, VInvShort

LEMMA Invariance == VerifySpec => []VInv
<1>1. VerifyInit => VInv
  BY InitVInv
<1>2. VInv /\ [VerifyNext]_allVars => VInv'
  BY NextVInv
<1>3. QED
  BY <1>1, <1>2, PTL DEF VerifySpec

-----------------------------------------------------------------------------
(* The theorems: emit, and nt_verify over what emit left.                    *)

\* No builder holds a full batch, and nt_verify reads within the files it
\* found and never samples more than --n rows.
THEOREM TypeCorrect == VerifySpec => []VerifyTypeOK
BY Invariance, VInvGives, PTL

\* leaf, status and seeds.bin are never indexed past their end: a file with
\* more rows than the seeds is an error, never a panic.
THEOREM IndexInBounds == VerifySpec => []InBounds
BY Invariance, VInvGives, PTL

\* No row consumed is lost, doubled, moved to another bin or joined with the
\* result of another row.
THEOREM NoRowLost == VerifySpec => []RowsAccounted
BY Invariance, VInvGives, PTL

\* If emit returns Ok the parts hold the whole file, whatever runs failed
\* before it.
THEOREM OkIsComplete == VerifySpec => []OkMeansComplete
BY Invariance, VInvGives, PTL

\* The sample is the first n ok rows of the parts in path order.
THEOREM SampleIsFront == VerifySpec => []SampleExact
BY Invariance, VInvGives, PTL

\* A PASS on a sample smaller than asked for covers every row of the file.
THEOREM ShortPassIsFull == VerifySpec => []ShortPassCovers
BY Invariance, VInvGives, PTL

\* nt_verify reports no discrepancy that nt_scratch did not produce.
THEOREM VerdictIsSound == VerifySpec => []NoFalseAlarm
BY Invariance, VInvGives, PTL
=============================================================================
