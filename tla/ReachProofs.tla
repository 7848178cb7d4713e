---------------------------- MODULE ReachProofs -----------------------------
(***************************************************************************)
(* Proofs about the parallel reach walks, for every graph, every set of    *)
(* roots, every word size and every schedule.                              *)
(***************************************************************************)
EXTENDS Reach, SequenceTheorems, TLAPS

-----------------------------------------------------------------------------
(* Sequences used as stacks and worklists.                                 *)

\* Appending keeps the elements and their places and adds one at the end.
LEMMA PushElements ==
  ASSUME NEW S, NEW s \in Seq(S), NEW x \in S
  PROVE  /\ Append(s, x) \in Seq(S)
         /\ Append(s, x) # <<>>
         /\ Len(Append(s, x)) = Len(s) + 1
         /\ Append(s, x)[Len(s) + 1] = x
         /\ \A i \in 1 .. Len(s) : Append(s, x)[i] = s[i]
OBVIOUS

\* The first m elements of a sequence.
LEMMA PrefixElements ==
  ASSUME NEW S, NEW s, NEW m \in Nat, \A i \in 1 .. m : s[i] \in S
  PROVE  /\ SubSeq(s, 1, m) \in Seq(S)
         /\ Len(SubSeq(s, 1, m)) = m
         /\ \A i \in 1 .. m : SubSeq(s, 1, m)[i] = s[i]
BY SubSeqProperties

\* Vec::pop removes the last element and keeps the others in place.
LEMMA PopElements ==
  ASSUME NEW S, NEW s \in Seq(S), s # <<>>, NEW t, t = SubSeq(s, 1, Len(s) - 1)
  PROVE  /\ Len(s) \in Nat \ {0}
         /\ s[Len(s)] \in S
         /\ t \in Seq(S)
         /\ Len(t) = Len(s) - 1
         /\ \A i \in 1 .. Len(s) - 1 : t[i] = s[i]
<1>1. Len(s) \in Nat \ {0}
  BY EmptySeq
<1>2. \A i \in 1 .. Len(s) : s[i] \in S
  BY ElementOfSeq
<1>3. Len(s) - 1 \in Nat /\ \A i \in 1 .. Len(s) - 1 : s[i] \in S
  BY <1>1, <1>2
<1>4. s[Len(s)] \in S
  BY <1>1, <1>2
<1>5. PICK m \in Nat : m = Len(s) - 1
  BY <1>3
<1>6. /\ SubSeq(s, 1, m) \in Seq(S)
      /\ Len(SubSeq(s, 1, m)) = m
      /\ \A i \in 1 .. m : SubSeq(s, 1, m)[i] = s[i]
  BY <1>3, <1>5, PrefixElements
<1>7. t = SubSeq(s, 1, m)
  BY <1>5, Zenon
<1>8. QED
  BY <1>1, <1>4, <1>5, <1>6, <1>7, Zenon

\* Advancing an iterator drops the head only.
LEMMA TailElements ==
  ASSUME NEW S, NEW s \in Seq(S), s # <<>>
  PROVE  /\ Head(s) \in S
         /\ Head(s) = s[1]
         /\ Tail(s) \in Seq(S)
         /\ Len(s) \in Nat \ {0}
         /\ Len(Tail(s)) = Len(s) - 1
         /\ \A i \in 1 .. Len(s) - 1 : Tail(s)[i] = s[i + 1]
<1>1. Head(s) = s[1]
  OBVIOUS
<1>2. QED
  BY <1>1, EmptySeq, HeadTailProperties

-----------------------------------------------------------------------------
(* The bitset: word and bit index determine the node.                      *)

LEMMA NodeOfBit ==
  ASSUME NEW m \in Node, NEW n \in Node, Word(m) = Word(n), Bit(m) = Bit(n)
  PROVE  m = n
<1>1. WordBits \in Nat \ {0} /\ m \in Nat /\ n \in Nat
  BY ReachAssumption, GraphAssumption DEF Node
<1>2. m = WordBits * (m \div WordBits) + (m % WordBits)
  BY <1>1
<1>3. n = WordBits * (n \div WordBits) + (n % WordBits)
  BY <1>1
<1>4. QED
  BY <1>2, <1>3 DEF Word, Bit

\* fetch_or on v's bit changes the mark of v and of no other node, in the same
\* word or in another one.
LEMMA SetBitMarks ==
  ASSUME TypeOK, NEW v \in Node, SetBit(v)
  PROVE  /\ words' \in [WordIndex -> SUBSET (0 .. WordBits - 1)]
         /\ \A n \in Node : IsSet(n)' <=> IsSet(n) \/ n = v
         /\ ReachedSet' = ReachedSet \cup {v}
<1>1. \A n \in Node : Word(n) \in WordIndex
  BY DEF WordIndex
<1>2. Bit(v) \in 0 .. WordBits - 1
  BY ReachAssumption, GraphAssumption DEF Bit, Node
<1>3. words' = [words EXCEPT ![Word(v)] = words[Word(v)] \cup {Bit(v)}]
  BY DEF SetBit
<1>4. words \in [WordIndex -> SUBSET (0 .. WordBits - 1)]
  BY DEF TypeOK
<1>5. words' \in [WordIndex -> SUBSET (0 .. WordBits - 1)]
  BY <1>1, <1>2, <1>3, <1>4
<1>6. ASSUME NEW n \in Node
      PROVE  IsSet(n)' <=> IsSet(n) \/ n = v
  <2>1. IsSet(n)' <=> Bit(n) \in words'[Word(n)]
    BY DEF IsSet, Bit, Word
  <2>2. CASE Word(n) = Word(v)
    <3>1. words'[Word(n)] = words[Word(n)] \cup {Bit(v)}
      BY <1>1, <1>3, <1>4, <2>2
    <3>2. QED
      BY <2>1, <2>2, <3>1, NodeOfBit DEF IsSet
  <2>3. CASE Word(n) # Word(v)
    <3>1. words'[Word(n)] = words[Word(n)]
      BY <1>1, <1>3, <1>4, <2>3
    <3>2. QED
      BY <2>1, <2>3, <3>1 DEF IsSet
  <2>4. QED
    BY <2>2, <2>3
<1>7. QED
  BY <1>5, <1>6 DEF ReachedSet

\* The bitset is read by a step that does not write it.
LEMMA SameMarks ==
  ASSUME UNCHANGED words
  PROVE  /\ \A n \in Node : IsSet(n)' <=> IsSet(n)
         /\ ReachedSet' = ReachedSet
BY DEF IsSet, Bit, Word, ReachedSet

-----------------------------------------------------------------------------
(* The reference set: it holds the roots and is closed under subdirectories. *)

Goal == Abstract!ReachableDirs

\* The instance is of the same graph.
LEMMA GoalIs ==
  Goal = {n \in Directory : \A S \in SUBSET Directory :
            Roots \subseteq S /\ ClosedUnderSubdirs(S) => n \in S}
<1>1. Abstract!Directory = Directory
  BY DEF Abstract!Directory, Directory, Abstract!IsDir, IsDir, Abstract!Node, Node
<1>2. \A S : Abstract!ClosedUnderSubdirs(S) <=> ClosedUnderSubdirs(S)
  BY DEF Abstract!ClosedUnderSubdirs, ClosedUnderSubdirs, Abstract!IsDir, IsDir
<1>3. QED
  BY <1>1, <1>2 DEF Goal, Abstract!ReachableDirs, Abstract!DirsBelow

LEMMA RootsReachable == Roots \subseteq Goal
BY ReachAssumption, GoalIs

LEMMA GoalClosed ==
  ASSUME NEW n \in Goal, NEW i \in 1 .. Len(Succ[n]), IsDir(Succ[n][i])
  PROVE  Succ[n][i] \in Goal
<1>1. n \in Node /\ Succ[n] \in Seq(Node)
  BY GraphAssumption, GoalIs DEF Directory
<1>2. Succ[n][i] \in Directory
  BY <1>1, ElementOfSeq DEF Directory
<1>3. ASSUME NEW S \in SUBSET Directory, Roots \subseteq S, ClosedUnderSubdirs(S)
      PROVE  Succ[n][i] \in S
  BY <1>3, GoalIs DEF ClosedUnderSubdirs
<1>4. QED
  BY <1>2, <1>3, GoalIs

LEMMA GoalLeast ==
  ASSUME NEW S \in SUBSET Directory, Roots \subseteq S, ClosedUnderSubdirs(S)
  PROVE  Goal \subseteq S
BY GoalIs

-----------------------------------------------------------------------------
(* The inductive invariant.  ExploredOnce and NoLostSubtree are not          *)
(* inductive alone: a directory is popped once because it is pushed only     *)
(* when its bit flips, so every stacked directory is marked, unexplored and  *)
(* stacked in one place.                                                     *)

ControlInv ==
  \A r \in Roots :
    /\ pc[r] # "walk" => stack[r] = <<>> /\ todo[r] = <<>>
    /\ pc[r] # "claim" => IsSet(r)

StackInv ==
  \A r \in Roots : \A i \in 1 .. Len(stack[r]) :
    stack[r][i] \in ReachedSet /\ explorers[stack[r][i]] = <<>>

DistinctInv ==
  \A r, s \in Roots : \A i \in 1 .. Len(stack[r]), j \in 1 .. Len(stack[s]) :
    stack[r][i] = stack[s][j] => r = s /\ i = j

ExploredInv == \A n \in Node : explorers[n] # <<>> => IsSet(n)

SoundInv ==
  /\ \A n \in Node : IsSet(n) => n \in Goal
  /\ \A r \in Roots : \A i \in 1 .. Len(todo[r]) :
       IsDir(todo[r][i]) => todo[r][i] \in Goal

IInv ==
  /\ TypeOK
  /\ ControlInv
  /\ StackInv
  /\ DistinctInv
  /\ ExploredInv
  /\ ExploredOnce
  /\ NoLostSubtree
  /\ SoundInv

-----------------------------------------------------------------------------
(* One lemma per action of a walk.                                           *)

LEMMA Typed ==
  ASSUME TypeOK, NEW s \in Roots
  PROVE  /\ s \in Node /\ s \in Directory
         /\ stack[s] \in Seq(Directory) /\ todo[s] \in Seq(Node)
         /\ Len(stack[s]) \in Nat /\ Len(todo[s]) \in Nat
         /\ \A i \in 1 .. Len(stack[s]) :
              stack[s][i] \in Node /\ stack[s][i] \in Directory
         /\ \A i \in 1 .. Len(todo[s]) : todo[s][i] \in Node
<1>1. s \in Node /\ s \in Directory
  BY ReachAssumption DEF Directory
<1>2. stack[s] \in Seq(Directory) /\ todo[s] \in Seq(Node)
  BY DEF TypeOK
<1>3. ASSUME NEW i \in 1 .. Len(stack[s])
      PROVE  stack[s][i] \in Node /\ stack[s][i] \in Directory
  <2>1. stack[s][i] \in Directory
    BY <1>2, ElementOfSeq
  <2>2. QED
    BY <2>1 DEF Directory
<1>4. ASSUME NEW i \in 1 .. Len(todo[s])
      PROVE  todo[s][i] \in Node
  BY <1>2, ElementOfSeq
<1>5. QED
  BY <1>1, <1>2, <1>3, <1>4, LenProperties

LEMMA SuccTyped ==
  ASSUME NEW n \in Node
  PROVE  /\ Succ[n] \in Seq(Node)
         /\ \A i \in 1 .. Len(Succ[n]) : Succ[n][i] \in Node
BY GraphAssumption, ElementOfSeq

LEMMA ClaimRootStep ==
  ASSUME IInv, NEW r \in Roots, ClaimRoot(r)
  PROVE  IInv'
<1> USE DEF ClaimRoot
<1>1. TypeOK
  BY DEF IInv
<1>2. r \in Node /\ r \in Directory /\ ~IsSet(r) /\ stack[r] = <<>>
  BY <1>1, Typed DEF Flips, IInv, ControlInv
<1>3. /\ \A n \in Node : IsSet(n)' <=> IsSet(n) \/ n = r
      /\ ReachedSet' = ReachedSet \cup {r}
      /\ r \notin ReachedSet
  BY <1>1, <1>2, SetBitMarks DEF ReachedSet
<1>4. /\ stack'[r] = <<r>> /\ Len(stack'[r]) = 1 /\ stack'[r][1] = r
      /\ pc[r] = "claim" /\ pc'[r] = "walk"
      /\ \A s \in Roots \ {r} : stack'[s] = stack[s] /\ pc'[s] = pc[s]
  BY <1>1 DEF TypeOK
<1>5. \A s \in Roots : \A i \in 1 .. Len(stack[s]) :
        stack[s][i] \in Node /\ stack[s][i] # r
  BY <1>1, <1>3, Typed DEF IInv, StackInv
<1>6. TypeOK'
  BY <1>1, <1>2, SetBitMarks DEF TypeOK
<1>7. ControlInv'
  <2>1. ASSUME NEW s \in Roots
        PROVE  /\ pc'[s] # "walk" => stack'[s] = <<>> /\ todo'[s] = <<>>
               /\ pc'[s] # "claim" => IsSet(s)'
    BY <1>1, <1>3, <1>4, Typed DEF TypeOK, IInv, ControlInv
  <2>2. QED
    BY <2>1 DEF ControlInv
<1>8. StackInv'
  <2>1. explorers'[r] = <<>>
    BY <1>2 DEF IInv, ExploredInv
  <2>2. QED
    BY <1>3, <1>4, <2>1 DEF IInv, StackInv
<1>9. DistinctInv'
  BY <1>4, <1>5 DEF IInv, DistinctInv
<1>10. ExploredInv' /\ ExploredOnce'
  BY <1>3 DEF IInv, ExploredInv, ExploredOnce
<1>11. NoLostSubtree'
  <2>1. \A n \in Node : OnStack(n) \/ n = r => OnStack(n)'
    BY <1>2, <1>4 DEF OnStack
  <2>2. \A n \in Node : Pending(n) => Pending(n)'
    BY <1>4 DEF Pending
  <2>3. QED
    BY <1>3, <2>1, <2>2, SuccTyped DEF IInv, NoLostSubtree
<1>12. SoundInv'
  BY <1>3, RootsReachable DEF IInv, SoundInv
<1>13. QED
  BY <1>6, <1>7, <1>8, <1>9, <1>10, <1>11, <1>12 DEF IInv

LEMMA RootTakenStep ==
  ASSUME IInv, NEW r \in Roots, RootTaken(r)
  PROVE  IInv'
<1> USE DEF RootTaken
<1>1. /\ \A n \in Node : IsSet(n)' <=> IsSet(n)
      /\ ReachedSet' = ReachedSet
  BY SameMarks
<1>2. TypeOK /\ IsSet(r) /\ stack[r] = <<>> /\ todo[r] = <<>>
  BY DEF IInv, ControlInv, Flips
<1>3. TypeOK'
  BY <1>2 DEF TypeOK
<1>4. ControlInv'
  BY <1>1, <1>2, Typed DEF IInv, ControlInv, TypeOK
<1>5. StackInv' /\ DistinctInv' /\ ExploredInv' /\ ExploredOnce'
  BY <1>1 DEF IInv, StackInv, DistinctInv, ExploredInv, ExploredOnce
<1>6. NoLostSubtree' /\ SoundInv'
  BY <1>1, SuccTyped
     DEF IInv, NoLostSubtree, SoundInv, OnStack, Pending
<1>7. QED
  BY <1>3, <1>4, <1>5, <1>6 DEF IInv

LEMMA FinishStep ==
  ASSUME IInv, NEW r \in Roots, Finish(r)
  PROVE  IInv'
<1> USE DEF Finish, Exhausted, ScanOver
<1>1. /\ \A n \in Node : IsSet(n)' <=> IsSet(n)
      /\ ReachedSet' = ReachedSet
  BY SameMarks
<1>2. TypeOK /\ IsSet(r)
  BY DEF IInv, ControlInv
<1>3. TypeOK'
  BY <1>2 DEF TypeOK
<1>4. ControlInv'
  BY <1>1, <1>2, Typed DEF IInv, ControlInv, TypeOK
<1>5. StackInv' /\ DistinctInv' /\ ExploredInv' /\ ExploredOnce'
  BY <1>1 DEF IInv, StackInv, DistinctInv, ExploredInv, ExploredOnce
<1>6. NoLostSubtree'
  <2>1. \A n \in Node : OnStack(n) => OnStack(n)'
    <3>1. ASSUME NEW n \in Node, NEW t \in Roots, pc[t] = "walk",
                 \E j \in 1 .. Len(stack[t]) : stack[t][j] = n
          PROVE  OnStack(n)'
      <4>1. t # r
        BY <3>1
      <4>2. pc'[t] = "walk" /\ stack' = stack
        BY <1>2, <3>1, <4>1 DEF TypeOK
      <4>3. QED
        BY <3>1, <4>2 DEF OnStack
    <3>2. QED
      BY <3>1 DEF OnStack
  <2>2. \A n \in Node : Pending(n) => Pending(n)'
    <3>1. ASSUME NEW n \in Node, NEW t \in Roots, pc[t] = "walk",
                 \E j \in 1 .. Len(todo[t]) : todo[t][j] = n
          PROVE  Pending(n)'
      <4>1. t # r
        BY <3>1
      <4>2. pc'[t] = "walk" /\ todo' = todo
        BY <1>2, <3>1, <4>1 DEF TypeOK
      <4>3. QED
        BY <3>1, <4>2 DEF Pending
    <3>2. QED
      BY <3>1 DEF Pending
  <2>3. QED
    BY <1>1, <2>1, <2>2, SuccTyped DEF IInv, NoLostSubtree
<1>7. SoundInv'
  BY <1>1 DEF IInv, SoundInv
<1>8. QED
  BY <1>3, <1>4, <1>5, <1>6, <1>7 DEF IInv

LEMMA PopStep ==
  ASSUME IInv, NEW r \in Roots, Pop(r)
  PROVE  IInv'
<1>0. stack[r] # <<>> /\ stack[r][Len(stack[r])] \in Node
  <2>1. stack[r] \in Seq(Directory) /\ stack[r] # <<>>
    BY Typed DEF IInv, Pop
  <2>2. stack[r][Len(stack[r])] \in Directory
    BY <2>1, PopElements
  <2>3. QED
    BY <2>1, <2>2 DEF Directory
<1> PICK u \in Node : u = stack[r][Len(stack[r])]
  BY <1>0
<1>1. /\ TypeOK /\ stack[r] # <<>> /\ todo[r] = <<>> /\ UNCHANGED <<words, pc>>
      /\ stack' = [stack EXCEPT ![r] = SubSeq(@, 1, Len(@) - 1)]
      /\ todo' = [todo EXCEPT ![r] = Succ[u]]
      /\ explorers' = [explorers EXCEPT ![u] = Append(@, r)]
      /\ u = stack[r][Len(stack[r])] /\ pc[r] = "walk"
  BY DEF IInv, Pop, ScanOver
<1>2. /\ \A n \in Node : IsSet(n)' <=> IsSet(n)
      /\ ReachedSet' = ReachedSet
  BY <1>1, SameMarks
<1>3. /\ stack[r] \in Seq(Directory)
      /\ Len(stack[r]) \in Nat \ {0}
      /\ stack'[r] \in Seq(Directory)
      /\ Len(stack'[r]) = Len(stack[r]) - 1
      /\ \A i \in 1 .. Len(stack[r]) - 1 : stack'[r][i] = stack[r][i]
      /\ \A s \in Roots \ {r} : stack'[s] = stack[s]
  <2>1. stack[r] \in Seq(Directory)
    BY <1>1, Typed
  <2>2. stack'[r] = SubSeq(stack[r], 1, Len(stack[r]) - 1)
    BY <1>1 DEF TypeOK
  <2>3. \A s \in Roots \ {r} : stack'[s] = stack[s]
    BY <1>1 DEF TypeOK
  <2>4. PICK t : t = stack'[r]
    OBVIOUS
  <2>5. t = SubSeq(stack[r], 1, Len(stack[r]) - 1)
    BY <2>2, <2>4, Zenon
  <2>6. /\ Len(stack[r]) \in Nat \ {0}
        /\ t \in Seq(Directory)
        /\ Len(t) = Len(stack[r]) - 1
        /\ \A i \in 1 .. Len(stack[r]) - 1 : t[i] = stack[r][i]
    BY <1>1, <2>1, <2>5, PopElements
  <2>7. QED
    BY <2>1, <2>3, <2>4, <2>6, Zenon
<1>4. /\ u \in Node /\ u \in ReachedSet /\ explorers[u] = <<>> /\ u \in Goal
      /\ IsSet(u)
  BY <1>1, <1>3, Typed DEF IInv, StackInv, SoundInv, ReachedSet
<1>5. /\ explorers'[u] \in Seq(Roots) /\ Len(explorers'[u]) <= 1
      /\ explorers'[u] # <<>>
      /\ \A n \in Node \ {u} : explorers'[n] = explorers[n]
  <2>1. explorers'[u] = Append(explorers[u], r) /\ explorers[u] \in Seq(Roots)
    BY <1>1, <1>4 DEF TypeOK
  <2>2. \A n \in Node \ {u} : explorers'[n] = explorers[n]
    BY <1>1 DEF TypeOK
  <2>3. QED
    BY <1>4, <2>1, <2>2, PushElements
<1>6. todo'[r] = Succ[u] /\ \A s \in Roots \ {r} : todo'[s] = todo[s]
  BY <1>1 DEF TypeOK
<1>7. TypeOK'
  BY <1>1, <1>3, <1>4, <1>5, SuccTyped DEF TypeOK
<1>8. ControlInv'
  BY <1>1, <1>2, <1>3, <1>6, Typed DEF IInv, ControlInv
<1>9. \A s \in Roots : \A i \in 1 .. Len(stack'[s]) :
        /\ i \in 1 .. Len(stack[s]) /\ stack'[s][i] = stack[s][i]
        /\ stack[s][i] \in Node \ {u}
  <2>1. ASSUME NEW s \in Roots, NEW i \in 1 .. Len(stack'[s])
        PROVE  /\ i \in 1 .. Len(stack[s]) /\ stack'[s][i] = stack[s][i]
               /\ s = r => i # Len(stack[r])
    BY <1>3
  <2>2. ASSUME NEW s \in Roots, NEW i \in 1 .. Len(stack[s]),
               s = r => i # Len(stack[r])
        PROVE  stack[s][i] # u
    BY <1>1, <1>3, <2>2 DEF IInv, DistinctInv
  <2>3. QED
    BY <1>1, <2>1, <2>2, Typed
<1>10. StackInv'
  BY <1>2, <1>5, <1>9 DEF IInv, StackInv
<1>11. DistinctInv'
  BY <1>9 DEF IInv, DistinctInv
<1>12. ExploredInv' /\ ExploredOnce'
  <2>1. ExploredInv'
    BY <1>2, <1>4, <1>5 DEF IInv, ExploredInv
  <2>2. ASSUME NEW n \in Node
        PROVE  Len(explorers'[n]) <= 1
    <3>1. CASE n = u
      BY <1>5, <3>1, Zenon
    <3>2. CASE n # u
      <4>1. explorers'[n] = explorers[n] /\ Len(explorers[n]) <= 1
        BY <1>5, <3>2 DEF IInv, ExploredOnce
      <4>2. QED
        BY <4>1
    <3>3. QED
      BY <3>1, <3>2
  <2>3. QED
    BY <2>1, <2>2 DEF ExploredOnce
<1>13. NoLostSubtree'
  <2>1. \A n \in Node : OnStack(n) /\ n # u => OnStack(n)'
    <3>1. ASSUME NEW n \in Node, n # u,
                 NEW s \in Roots, NEW i \in 1 .. Len(stack[s]), stack[s][i] = n
          PROVE  i \in 1 .. Len(stack'[s]) /\ stack'[s][i] = n
      BY <1>1, <1>3, <3>1
    <3>2. QED
      BY <1>1, <3>1 DEF OnStack
  <2>2. \A n \in Node : Pending(n) => Pending(n)'
    BY <1>1, <1>6 DEF Pending
  <2>3. \A i \in 1 .. Len(Succ[u]) : Pending(Succ[u][i])'
    BY <1>1, <1>6 DEF Pending
  <2>4. ASSUME NEW n \in Node \ {u}, IsSet(n)
        PROVE  \/ OnStack(n)'
               \/ /\ explorers'[n] # <<>>
                  /\ \A i \in 1 .. Len(Succ[n]) : IsDir(Succ[n][i]) =>
                       IsSet(Succ[n][i])' \/ Pending(Succ[n][i])'
    BY <1>2, <1>5, <2>1, <2>2, <2>4, SuccTyped DEF IInv, NoLostSubtree
  <2>5. QED
    BY <1>2, <1>5, <2>3, <2>4 DEF NoLostSubtree
<1>14. SoundInv'
  <2>1. \A i \in 1 .. Len(Succ[u]) : IsDir(Succ[u][i]) => Succ[u][i] \in Goal
    BY <1>4, GoalClosed
  <2>2. QED
    BY <1>2, <1>6, <2>1 DEF IInv, SoundInv
<1>15. QED
  BY <1>7, <1>8, <1>10, <1>11, <1>12, <1>13, <1>14 DEF IInv

\* What advancing the iterator of walk r past v does to the worklists.
LEMMA Advance ==
  ASSUME TypeOK, NEW r \in Roots, todo[r] # <<>>,
         todo' = [todo EXCEPT ![r] = Tail(@)], pc[r] = "walk", UNCHANGED pc
  PROVE  /\ todo' \in [Roots -> Seq(Node)]
         /\ Head(todo[r]) \in Node /\ Head(todo[r]) = todo[r][1]
         /\ 1 \in 1 .. Len(todo[r])
         /\ \A n \in Node : Pending(n) => n = Head(todo[r]) \/ Pending(n)'
         /\ \A s \in Roots : \A i \in 1 .. Len(todo'[s]) :
              \E j \in 1 .. Len(todo[s]) : todo'[s][i] = todo[s][j]
<1>1. todo[r] \in Seq(Node) /\ todo \in [Roots -> Seq(Node)]
  BY DEF TypeOK
<1>2. PICK t : t = Tail(todo[r])
  OBVIOUS
<1>3. /\ Head(todo[r]) \in Node /\ Head(todo[r]) = todo[r][1]
      /\ t \in Seq(Node) /\ Len(todo[r]) \in Nat \ {0}
      /\ Len(t) = Len(todo[r]) - 1
      /\ \A i \in 1 .. Len(todo[r]) - 1 : t[i] = todo[r][i + 1]
  BY <1>1, <1>2, TailElements
<1>4. /\ todo'[r] = t
      /\ \A s \in Roots \ {r} : todo'[s] = todo[s]
      /\ todo' \in [Roots -> Seq(Node)]
  BY <1>1, <1>2, <1>3
<1>5. \A i \in 2 .. Len(todo[r]) :
        i - 1 \in 1 .. Len(t) /\ t[i - 1] = todo[r][i]
  BY <1>3
<1>6. \A i \in 1 .. Len(t) :
        i + 1 \in 1 .. Len(todo[r]) /\ t[i] = todo[r][i + 1]
  BY <1>3
<1>7. ASSUME NEW n \in Node, Pending(n), n # Head(todo[r])
      PROVE  Pending(n)'
  <2>1. PICK s \in Roots :
          pc[s] = "walk" /\ \E i \in 1 .. Len(todo[s]) : todo[s][i] = n
    BY <1>7 DEF Pending
  <2> PICK i \in 1 .. Len(todo[s]) : todo[s][i] = n
    BY <2>1
  <2>2. CASE s = r
    <3>1. i \in 2 .. Len(todo[r])
      BY <1>3, <1>7, <2>1, <2>2
    <3>2. QED
      BY <1>4, <1>5, <2>1, <2>2, <3>1 DEF Pending
  <2>3. CASE s # r
    BY <1>4, <2>1, <2>3 DEF Pending
  <2>4. QED
    BY <2>2, <2>3
<1>8. ASSUME NEW s \in Roots, NEW i \in 1 .. Len(todo'[s])
      PROVE  \E j \in 1 .. Len(todo[s]) : todo'[s][i] = todo[s][j]
  BY <1>4, <1>6
<1>9. 1 \in 1 .. Len(todo[r])
  BY <1>3
<1>10. \A n \in Node : Pending(n) => n = Head(todo[r]) \/ Pending(n)'
  BY <1>7
<1>11. QED
  BY <1>3, <1>4, <1>8, <1>9, <1>10

LEMMA VisitSkipStep ==
  ASSUME IInv, NEW r \in Roots, VisitSkip(r)
  PROVE  IInv'
<1>1. /\ TypeOK /\ todo[r] # <<>> /\ todo' = [todo EXCEPT ![r] = Tail(@)]
      /\ UNCHANGED <<words, pc, stack, explorers>>
      /\ pc[r] = "walk" /\ ~Descends(Head(todo[r]))
  BY DEF IInv, VisitSkip
<1>2. /\ \A n \in Node : IsSet(n)' <=> IsSet(n)
      /\ ReachedSet' = ReachedSet
  BY <1>1, SameMarks
<1>3. TypeOK'
  BY <1>1, Advance DEF TypeOK
<1>4. ControlInv'
  BY <1>1, <1>2, Typed DEF IInv, ControlInv, TypeOK
<1>5. StackInv' /\ DistinctInv' /\ ExploredInv' /\ ExploredOnce'
  BY <1>1, <1>2 DEF IInv, StackInv, DistinctInv, ExploredInv, ExploredOnce
<1>6. NoLostSubtree'
  <2>1. \A n \in Node : OnStack(n)' <=> OnStack(n)
    BY <1>1 DEF OnStack
  <2>2. \A n \in Node : IsDir(n) /\ Pending(n) => IsSet(n)' \/ Pending(n)'
    BY <1>1, <1>2, Advance DEF Descends, Flips
  <2>3. QED
    BY <1>1, <1>2, <2>1, <2>2, SuccTyped DEF IInv, NoLostSubtree
<1>7. SoundInv'
  <2>1. \A s \in Roots : \A i \in 1 .. Len(todo'[s]) :
          IsDir(todo'[s][i]) => todo'[s][i] \in Goal
    BY <1>1, Advance DEF IInv, SoundInv
  <2>2. QED
    BY <1>2, <2>1 DEF IInv, SoundInv
<1>8. QED
  BY <1>3, <1>4, <1>5, <1>6, <1>7 DEF IInv

LEMMA VisitClaimStep ==
  ASSUME IInv, NEW r \in Roots, VisitClaim(r)
  PROVE  IInv'
<1>1. PICK v : v = Head(todo[r])
  OBVIOUS
<1>2. /\ TypeOK /\ todo[r] # <<>> /\ todo' = [todo EXCEPT ![r] = Tail(@)]
      /\ stack' = [stack EXCEPT ![r] = Append(@, v)]
      /\ UNCHANGED <<pc, explorers>> /\ pc[r] = "walk"
      /\ IsDir(v) /\ ~IsSet(v) /\ SetBit(v)
  BY <1>1 DEF IInv, VisitClaim, Descends, Flips
<1>3. v \in Node /\ v \in Directory /\ v \notin ReachedSet /\ v \in Goal
  <2>1. v \in Node /\ v = todo[r][1] /\ 1 \in 1 .. Len(todo[r])
    BY <1>1, <1>2, Advance
  <2>2. v \in Directory /\ v \notin ReachedSet
    BY <1>2, <2>1 DEF Directory, ReachedSet
  <2>3. v \in Goal
    BY <1>2, <2>1 DEF IInv, SoundInv
  <2>4. QED
    BY <2>1, <2>2, <2>3
<1>4. /\ \A n \in Node : IsSet(n)' <=> IsSet(n) \/ n = v
      /\ ReachedSet' = ReachedSet \cup {v}
      /\ words' \in [WordIndex -> SUBSET (0 .. WordBits - 1)]
  BY <1>2, <1>3, SetBitMarks
<1>5. PICK t : t = stack'[r]
  OBVIOUS
<1>6. /\ stack[r] \in Seq(Directory) /\ Len(stack[r]) \in Nat
      /\ t = Append(stack[r], v)
      /\ \A s \in Roots \ {r} : stack'[s] = stack[s]
  BY <1>2, <1>5, Typed DEF TypeOK
<1>7. /\ t \in Seq(Directory) /\ Len(t) = Len(stack[r]) + 1
      /\ t[Len(stack[r]) + 1] = v
      /\ \A i \in 1 .. Len(stack[r]) : t[i] = stack[r][i]
  BY <1>3, <1>6, PushElements
<1>8. TypeOK'
  <2>1. stack' \in [Roots -> Seq(Directory)]
    BY <1>2, <1>6, <1>7 DEF TypeOK
  <2>2. QED
    BY <1>2, <1>4, <2>1, Advance DEF TypeOK
<1>9. \A s \in Roots : \A i \in 1 .. Len(stack'[s]) :
        \/ i \in 1 .. Len(stack[s]) /\ stack'[s][i] = stack[s][i]
        \/ s = r /\ i = Len(stack[r]) + 1 /\ stack'[s][i] = v
  <2>1. \A i \in 1 .. Len(t) : \/ i \in 1 .. Len(stack[r]) /\ t[i] = stack[r][i]
                               \/ i = Len(stack[r]) + 1 /\ t[i] = v
    BY <1>6, <1>7
  <2>2. QED
    BY <1>5, <1>6, <2>1, Zenon
<1>10. \A s \in Roots : \A i \in 1 .. Len(stack[s]) :
         /\ i \in 1 .. Len(stack'[s]) /\ stack'[s][i] = stack[s][i]
         /\ stack[s][i] # v
  <2>1. \A s \in Roots : \A i \in 1 .. Len(stack[s]) : stack[s][i] # v
    BY <1>3 DEF IInv, StackInv
  <2>2. \A i \in 1 .. Len(stack[r]) : i \in 1 .. Len(t) /\ t[i] = stack[r][i]
    BY <1>6, <1>7
  <2>3. QED
    BY <1>5, <1>6, <2>1, <2>2, Zenon
<1>11. ControlInv'
  BY <1>2, <1>4, <1>6, Typed DEF IInv, ControlInv, TypeOK
<1>12. StackInv'
  <2>1. explorers'[v] = <<>>
    BY <1>2, <1>3 DEF IInv, ExploredInv
  <2>2. QED
    BY <1>2, <1>4, <1>9, <2>1 DEF IInv, StackInv
<1>13. DistinctInv'
  <2>1. ASSUME NEW s \in Roots, NEW i \in 1 .. Len(stack'[s]),
               NEW q \in Roots, NEW j \in 1 .. Len(stack'[q]),
               stack'[s][i] = stack'[q][j]
        PROVE  s = q /\ i = j
    <3> PICK x : x = stack'[s][i] /\ x = stack'[q][j]
      BY <2>1
    <3>1. \/ i \in 1 .. Len(stack[s]) /\ x = stack[s][i] /\ x # v
          \/ s = r /\ i = Len(stack[r]) + 1 /\ x = v
      BY <1>9, <1>10
    <3>2. \/ j \in 1 .. Len(stack[q]) /\ x = stack[q][j] /\ x # v
          \/ q = r /\ j = Len(stack[r]) + 1 /\ x = v
      BY <1>9, <1>10
    <3>3. CASE x # v
      BY <3>1, <3>2, <3>3 DEF IInv, DistinctInv
    <3>4. CASE x = v
      BY <3>1, <3>2, <3>4, Zenon
    <3>5. QED
      BY <3>3, <3>4
  <2>2. QED
    BY <2>1 DEF DistinctInv
<1>14. ExploredInv' /\ ExploredOnce'
  BY <1>2, <1>4 DEF IInv, ExploredInv, ExploredOnce
<1>15. NoLostSubtree'
  <2>1. \A n \in Node : OnStack(n) => OnStack(n)'
    BY <1>2, <1>10 DEF OnStack
  <2>2. OnStack(v)'
    <3>1. Len(stack[r]) + 1 \in 1 .. Len(t) /\ t[Len(stack[r]) + 1] = v
      BY <1>6, <1>7
    <3>2. \E i \in 1 .. Len(stack'[r]) : stack'[r][i] = v
      BY <1>5, <3>1, Zenon
    <3>3. QED
      BY <1>2, <3>2 DEF OnStack
  <2>3. \A n \in Node : Pending(n) => IsSet(n)' \/ Pending(n)'
    BY <1>1, <1>2, <1>4, Advance
  <2>4. QED
    BY <1>2, <1>4, <2>1, <2>2, <2>3, SuccTyped DEF IInv, NoLostSubtree
<1>16. SoundInv'
  <2>1. \A s \in Roots : \A i \in 1 .. Len(todo'[s]) :
          IsDir(todo'[s][i]) => todo'[s][i] \in Goal
    BY <1>2, Advance DEF IInv, SoundInv
  <2>2. QED
    BY <1>3, <1>4, <2>1 DEF IInv, SoundInv
<1>17. QED
  BY <1>8, <1>11, <1>12, <1>13, <1>14, <1>15, <1>16 DEF IInv

-----------------------------------------------------------------------------
(* The theorems.                                                             *)

LEMMA InitIInv == Init => IInv
<1> SUFFICES ASSUME Init PROVE IInv
  OBVIOUS
<1> USE DEF Init
<1>1. \A n \in Node : ~IsSet(n)
  BY DEF IsSet, WordIndex
<1>2. TypeOK
  BY DEF TypeOK
<1>3. ControlInv /\ StackInv /\ DistinctInv
  BY DEF ControlInv, StackInv, DistinctInv
<1>4. ExploredInv /\ ExploredOnce /\ NoLostSubtree /\ SoundInv
  BY <1>1 DEF ExploredInv, ExploredOnce, NoLostSubtree, SoundInv
<1>5. QED
  BY <1>2, <1>3, <1>4 DEF IInv

LEMMA StutterStep == IInv /\ UNCHANGED vars => IInv'
<1> SUFFICES ASSUME IInv, UNCHANGED vars PROVE IInv'
  OBVIOUS
<1> USE DEF vars
<1>1. TypeOK' /\ ControlInv' /\ StackInv' /\ DistinctInv'
  BY DEF IInv, TypeOK, ControlInv, StackInv, DistinctInv, ReachedSet, IsSet
<1>2. ExploredInv' /\ ExploredOnce' /\ NoLostSubtree' /\ SoundInv'
  BY DEF IInv, ExploredInv, ExploredOnce, NoLostSubtree, SoundInv, IsSet,
         OnStack, Pending
<1>3. QED
  BY <1>1, <1>2 DEF IInv

LEMMA NextIInv == IInv /\ [Next]_vars => IInv'
<1> SUFFICES ASSUME IInv, [Next]_vars PROVE IInv'
  OBVIOUS
<1>1. CASE UNCHANGED vars
  BY <1>1, StutterStep
<1>2. ASSUME NEW r \in Roots, Walk(r)
      PROVE  IInv'
  BY <1>2, ClaimRootStep, RootTakenStep, PopStep, VisitClaimStep,
     VisitSkipStep, FinishStep DEF Walk
<1>3. CASE Joined
  BY <1>3, StutterStep DEF Joined
<1>4. QED
  BY <1>1, <1>2, <1>3 DEF Next

\* The invariant holds in every reachable state of every instance.
THEOREM Invariance == Spec => []IInv
<1>1. QED
  BY InitIInv, NextIInv, PTL DEF Spec

\* The bitset's words, the walks' control points, stacks and worklists keep
\* their types: stacks hold directories only.
THEOREM TypeCorrect == Spec => []TypeOK
<1>1. IInv => TypeOK
  BY DEF IInv
<1>2. QED
  BY <1>1, Invariance, PTL

\* No directory is popped twice, whatever the number of walks and the overlap
\* of their trees: the claim before the push makes the walks disjoint.
THEOREM EachDirExploredOnce == Spec => []ExploredOnce
<1>1. IInv => ExploredOnce
  BY DEF IInv
<1>2. QED
  BY <1>1, Invariance, PTL

\* A walk that loses a claim may skip the directory: what is marked is still
\* stacked or its subdirectories are marked or pending in some walk.
THEOREM NothingDropped == Spec => []NoLostSubtree
<1>1. IInv => NoLostSubtree
  BY DEF IInv
<1>2. QED
  BY <1>1, Invariance, PTL

LEMMA ExactWhenDone == IInv => ReachedExact
<1> SUFFICES ASSUME IInv, AllDone PROVE ReachedSet = Goal
  BY DEF ReachedExact, Goal
<1>1. ReachedSet \subseteq Goal /\ Goal \subseteq Directory
  BY GoalIs DEF IInv, SoundInv, ReachedSet
<1>2. Roots \subseteq ReachedSet
  BY ReachAssumption DEF AllDone, IInv, ControlInv, ReachedSet, Directory
<1>3. \A n \in Node : ~OnStack(n) /\ ~Pending(n)
  BY DEF AllDone, IInv, ControlInv, OnStack, Pending
<1>4. ClosedUnderSubdirs(ReachedSet)
  BY <1>3, SuccTyped DEF ClosedUnderSubdirs, IInv, NoLostSubtree, ReachedSet
<1>5. QED
  BY <1>1, <1>2, <1>4, GoalLeast

\* When for_each has returned the bitset holds exactly the directories
\* reachable from the roots: the set hydrate scans for.
THEOREM DoneMeansExact == Spec => []ReachedExact
<1>1. QED
  BY ExactWhenDone, Invariance, PTL

absVars == <<ReachedSet, AllDone>>

LEMMA InitRefines == Init => Abstract!Init
<1> SUFFICES ASSUME Init PROVE Abstract!Init
  OBVIOUS
<1>1. ReachedSet = {}
  BY DEF Init, ReachedSet, IsSet, WordIndex
<1>2. AllDone \in BOOLEAN
  BY DEF AllDone
<1>3. AllDone => Goal = {}
  <2>1. AllDone => Roots = {}
    BY DEF AllDone, Init
  <2>2. ClosedUnderSubdirs({})
    BY DEF ClosedUnderSubdirs
  <2>3. QED
    BY <2>1, <2>2, GoalIs
<1>4. QED
  BY <1>1, <1>2, <1>3 DEF Abstract!Init, Goal

LEMMA MarkRefines ==
  ASSUME IInv, IInv', NEW r \in Roots, ClaimRoot(r) \/ VisitClaim(r)
  PROVE  Abstract!Mark
<1>1. ~AllDone /\ ~AllDone'
  BY DEF ClaimRoot, VisitClaim, AllDone, IInv, TypeOK
<1>2. PICK v \in Node : ~IsSet(v) /\ SetBit(v)
  <2>1. CASE ClaimRoot(r)
    BY <2>1, Typed DEF ClaimRoot, Flips, IInv
  <2>2. CASE VisitClaim(r)
    BY <2>2, Advance DEF VisitClaim, Descends, Flips, IInv
  <2>3. QED
    BY <2>1, <2>2
<1>3. v \notin ReachedSet /\ ReachedSet' = ReachedSet \cup {v}
  BY <1>2, SetBitMarks DEF ReachedSet, IInv
<1>4. v \in Goal
  BY <1>3 DEF IInv, SoundInv, ReachedSet
<1>5. AllDone' = AllDone
  BY <1>1 DEF AllDone
<1>6. QED
  BY <1>1, <1>3, <1>4, <1>5, Zenon DEF Abstract!Mark, Goal

LEMMA ReturnRefines ==
  ASSUME IInv, IInv', NEW r \in Roots, RootTaken(r) \/ Finish(r)
  PROVE  Abstract!Finish \/ UNCHANGED absVars
<1>1. ReachedSet' = ReachedSet
  BY SameMarks DEF RootTaken, Finish
<1>2. ~AllDone
  BY DEF RootTaken, Finish, Exhausted, ScanOver, AllDone
<1>3. CASE AllDone'
  <2>1. ReachedSet' = Goal
    <3>1. ReachedExact'
      BY ExactWhenDone, PTL
    <3>2. QED
      BY <1>3, <3>1 DEF ReachedExact, Goal
  <2>2. QED
    BY <1>1, <1>2, <1>3, <2>1, Zenon DEF Abstract!Finish, Goal
<1>4. CASE ~AllDone'
  <2>1. AllDone' = AllDone
    BY <1>2, <1>4 DEF AllDone
  <2>2. QED
    BY <1>1, <2>1 DEF absVars
<1>5. QED
  BY <1>3, <1>4

LEMMA StepRefines ==
  IInv /\ IInv' /\ [Next]_vars => [Abstract!Next]_absVars
<1> SUFFICES ASSUME IInv, IInv', [Next]_vars
             PROVE  [Abstract!Next]_absVars
  OBVIOUS
<1>1. ASSUME UNCHANGED words, UNCHANGED pc
      PROVE  UNCHANGED absVars
  <2>1. ReachedSet' = ReachedSet
    BY <1>1, SameMarks
  <2>2. AllDone' = AllDone
    BY <1>1 DEF AllDone
  <2>3. QED
    BY <2>1, <2>2 DEF absVars
<1>2. CASE UNCHANGED vars
  BY <1>1, <1>2 DEF vars
<1>3. CASE Joined
  BY <1>1, <1>3 DEF Joined, vars
<1>4. ASSUME NEW r \in Roots, Walk(r)
      PROVE  [Abstract!Next]_absVars
  <2>1. CASE ClaimRoot(r) \/ VisitClaim(r)
    BY <2>1, MarkRefines DEF Abstract!Next
  <2>2. CASE RootTaken(r) \/ Finish(r)
    BY <2>2, ReturnRefines DEF Abstract!Next
  <2>3. CASE Pop(r) \/ VisitSkip(r)
    BY <1>1, <2>3 DEF Pop, VisitSkip
  <2>4. QED
    BY <1>4, <2>1, <2>2, <2>3 DEF Walk
<1>5. QED
  BY <1>2, <1>3, <1>4 DEF Next

\* The walks implement ReachSpec (its safety part): they mark reachable
\* directories only, one at a time, never withdraw a mark, and the phase is
\* over only when the set is exact.
THEOREM WalksImplementReachSpec ==
  Spec => Abstract!Init /\ [][Abstract!Next]_absVars
<1>1. QED
  BY InitRefines, StepRefines, Invariance, PTL DEF Spec

=============================================================================
