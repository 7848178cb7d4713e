--------------------------- MODULE PrefetchProofs ---------------------------
(***************************************************************************)
(* Proofs about the threads of the scan, for every number of bands, every  *)
(* split, every window, chunk and publication interval, and every failure. *)
(***************************************************************************)
EXTENDS Prefetch, TLAPS

-----------------------------------------------------------------------------
(* Bands and byte positions.                                                 *)

\* A worker has a band of nodes of the graph.
LEMMA BandOf ==
  ASSUME NEW w \in Workers
  PROVE  /\ w \in Nat /\ w + 1 \in 0 .. K
         /\ Bounds[w] \in 0 .. NumNodes /\ Bounds[w + 1] \in 0 .. NumNodes
         /\ Bounds[w] <= Bounds[w + 1]
BY PrefetchAssumption DEF Workers

\* Labels are stored in node order: byte positions grow with the node.
LEMMA ByteOfMonotonic ==
  ASSUME NEW m \in 0 .. NumNodes, NEW n \in 0 .. NumNodes, m <= n
  PROVE  ByteOf(m) \in Nat /\ ByteOf(n) \in Nat /\ ByteOf(m) <= ByteOf(n)
<1>1. Ef[m] \in Nat /\ Ef[n] \in Nat /\ Ef[m] <= Ef[n]
  BY PrefetchAssumption
<1>2. QED
  BY <1>1 DEF ByteOf

\* The byte range of a band.
LEMMA BytesOfBand ==
  ASSUME NEW w \in Workers, NEW n \in Bounds[w] .. Bounds[w + 1]
  PROVE  /\ n \in 0 .. NumNodes
         /\ ByteLo(w) \in Nat /\ ByteHi(w) \in Nat /\ ByteOf(n) \in Nat
         /\ ByteLo(w) <= ByteOf(n) /\ ByteOf(n) <= ByteHi(w)
<1>1. /\ Bounds[w] \in 0 .. NumNodes /\ Bounds[w + 1] \in 0 .. NumNodes
      /\ n \in 0 .. NumNodes /\ Bounds[w] <= n /\ n <= Bounds[w + 1]
  <2>1. NumNodes \in Nat
    BY PrefetchAssumption
  <2>2. Bounds[w] \in 0 .. NumNodes /\ Bounds[w + 1] \in 0 .. NumNodes
    BY BandOf
  <2>3. QED
    BY <2>1, <2>2
<1>2. QED
  BY <1>1, ByteOfMonotonic DEF ByteLo, ByteHi

-----------------------------------------------------------------------------
(* The inductive invariant.                                                  *)

FunctionInv ==
  /\ node \in [Workers -> Int]
  /\ pos \in [Workers -> Int]
  /\ visPos \in [Workers -> Int]
  /\ ppos \in [Workers -> Int]

\* A decoder is inside its band while it decodes and at its end afterwards.
DecoderInv ==
  \A w \in Workers :
    /\ dpc[w] = "decode" => InBand(w)
    /\ dpc[w] \in {"signal", "finished"} => node[w] = Bounds[w + 1]

\* What is published, and so what is seen of it, is never ahead of the node.
BehindInv ==
  \A w \in Workers :
    pos[w] <= ByteOf(node[w]) /\ visPos[w] <= ByteOf(node[w])

\* Between the throttle test and the read, the prefetcher is inside the
\* window of a node that its decoder has reached.
ReadInv ==
  \A w \in Workers : ppc[w] = "read" => ppos[w] <= ByteOf(node[w]) + Window

\* The caller has joined the decoders below next, all of them when it leaves.
JoinInv ==
  /\ mpc = "join" => \A w \in Workers : w < next => dpc[w] = "finished"
  /\ mpc \in {"leave", "returned"} => \A w \in Workers : dpc[w] = "finished"

IInv ==
  /\ TypeOK
  /\ FunctionInv
  /\ DecoderInv
  /\ BehindInv
  /\ ReadInv
  /\ AheadBounded
  /\ JoinInv

\* What the invariant says of one worker's numbers.
LEMMA Typed ==
  ASSUME IInv, NEW w \in Workers
  PROVE  /\ node[w] \in Bounds[w] .. Bounds[w + 1] /\ node[w] \in 0 .. NumNodes
         /\ pos[w] \in Nat /\ visPos[w] \in Nat /\ ppos[w] \in Nat
         /\ ByteOf(node[w]) \in Nat
         /\ ByteLo(w) \in Nat /\ ByteHi(w) \in Nat
         /\ ByteLo(w) <= ByteOf(node[w]) /\ ByteOf(node[w]) <= ByteHi(w)
<1>1. /\ node[w] \in Bounds[w] .. Bounds[w + 1]
      /\ pos[w] \in ByteLo(w) .. ByteHi(w)
      /\ visPos[w] \in ByteLo(w) .. ByteHi(w)
      /\ ppos[w] \in ByteLo(w) .. ByteHi(w)
  BY DEF IInv, TypeOK
<1>2. QED
  BY <1>1, BytesOfBand

LEMMA InitIInv == Init => IInv
<1> SUFFICES ASSUME Init PROVE IInv
  OBVIOUS
<1>1. \A w \in Workers :
        /\ Bounds[w] \in Bounds[w] .. Bounds[w + 1]
        /\ ByteLo(w) \in ByteLo(w) .. ByteHi(w)
        /\ ByteLo(w) \in Nat /\ ByteLo(w) = ByteOf(Bounds[w])
  <2> TAKE w \in Workers
  <2>1. Bounds[w] \in Bounds[w] .. Bounds[w + 1]
    BY BandOf
  <2>2. QED
    BY <2>1, BytesOfBand DEF ByteLo
<1>2. K \in Nat \ {0} /\ Window \in Nat /\ Chunk \in Nat
  BY PrefetchAssumption
<1>3. \A w \in Workers :
        /\ node[w] = Bounds[w] /\ pos[w] = ByteLo(w) /\ visPos[w] = ByteLo(w)
        /\ ppos[w] = ByteLo(w) /\ Bounds[w] \in Int
  BY BandOf DEF Init
<1>4. TypeOK /\ FunctionInv
  BY <1>1, <1>2, <1>3 DEF Init, TypeOK, FunctionInv
<1>5. BehindInv /\ AheadBounded
  BY <1>1, <1>2, <1>3 DEF BehindInv, AheadBounded
<1>6. DecoderInv /\ ReadInv /\ JoinInv
  BY DEF Init, DecoderInv, ReadInv, JoinInv
<1>7. QED
  BY <1>4, <1>5, <1>6 DEF IInv

-----------------------------------------------------------------------------
(* One lemma per kind of step.                                               *)

\* The caller's steps: they move next, spawn a thread, or only mpc.
LEMMA MainStep ==
  ASSUME IInv, Main
  PROVE  IInv'
<1> USE DEF IInv
<1>1. K \in Nat \ {0} /\ next \in 0 .. K
  BY PrefetchAssumption DEF TypeOK
<1>2. UNCHANGED <<sequential, node, pos, done, visPos, visDone, ppos>>
  BY DEF Main, SpawnFails, SpawnPrefetcher, PrefetchersSpawned, SpawnDecoder,
         DecodersSpawned, Join, Collected, ScopeEnds, flagVars, visVars
<1>3. \A w \in Workers : ByteOf(node[w])' = ByteOf(node[w]) /\ InBand(w)' = InBand(w)
  BY <1>2 DEF ByteOf, InBand
<1>4. next < K => next \in Workers
  BY <1>1 DEF Workers
<1>5. FunctionInv' /\ BehindInv' /\ AheadBounded'
  BY <1>2, <1>3 DEF FunctionInv, BehindInv, AheadBounded
<1>6. CASE SpawnFails
  <2>1. TypeOK' /\ DecoderInv' /\ ReadInv' /\ JoinInv'
    BY <1>2, <1>3, <1>6 DEF SpawnFails, TypeOK, DecoderInv, ReadInv, JoinInv
  <2>2. QED
    BY <1>5, <2>1
<1>7. CASE SpawnPrefetcher
  <2>1. TypeOK'
    BY <1>1, <1>2, <1>4, <1>7 DEF SpawnPrefetcher, TypeOK
  <2>2. DecoderInv' /\ JoinInv'
    BY <1>2, <1>3, <1>7 DEF SpawnPrefetcher, DecoderInv, JoinInv
  <2>3. ReadInv'
    BY <1>2, <1>3, <1>4, <1>7 DEF SpawnPrefetcher, ReadInv, TypeOK
  <2>4. QED
    BY <1>5, <2>1, <2>2, <2>3
<1>8. CASE PrefetchersSpawned
  <2>1. TypeOK' /\ DecoderInv' /\ ReadInv' /\ JoinInv'
    BY <1>1, <1>2, <1>3, <1>8
       DEF PrefetchersSpawned, TypeOK, DecoderInv, ReadInv, JoinInv
  <2>2. QED
    BY <1>5, <2>1
<1>9. CASE SpawnDecoder
  <2>1. TypeOK'
    BY <1>1, <1>2, <1>4, <1>9 DEF SpawnDecoder, TypeOK
  <2>2. DecoderInv'
    BY <1>2, <1>3, <1>4, <1>9 DEF SpawnDecoder, DecoderInv, TypeOK
  <2>3. ReadInv' /\ JoinInv'
    BY <1>2, <1>3, <1>9 DEF SpawnDecoder, ReadInv, JoinInv
  <2>4. QED
    BY <1>5, <2>1, <2>2, <2>3
<1>10. CASE DecodersSpawned
  <2>1. TypeOK' /\ DecoderInv' /\ ReadInv'
    BY <1>1, <1>2, <1>3, <1>10 DEF DecodersSpawned, TypeOK, DecoderInv, ReadInv
  <2>2. JoinInv'
    BY <1>1, <1>10 DEF DecodersSpawned, JoinInv, Workers
  <2>3. QED
    BY <1>5, <2>1, <2>2
<1>11. CASE Join
  <2>1. TypeOK' /\ DecoderInv' /\ ReadInv'
    BY <1>1, <1>2, <1>3, <1>11 DEF Join, TypeOK, DecoderInv, ReadInv
  <2>2. JoinInv'
    <3>1. CASE dpc[next] = "finished" /\ next' = next + 1 /\ mpc' = "join"
      <4> SUFFICES ASSUME NEW w \in Workers, w < next + 1
                   PROVE  dpc[w] = "finished"
        BY <1>11, <3>1 DEF Join, JoinInv
      <4>1. w < next \/ w = next
        BY <1>1 DEF Workers
      <4>2. QED
        BY <1>11, <3>1, <4>1 DEF Join, JoinInv
    <3>2. CASE mpc' = "unwind"
      BY <3>2 DEF JoinInv
    <3>3. QED
      BY <1>11, <3>1, <3>2 DEF Join
  <2>3. QED
    BY <1>5, <2>1, <2>2
<1>12. CASE Collected
  <2>1. TypeOK' /\ DecoderInv' /\ ReadInv'
    BY <1>1, <1>2, <1>3, <1>12 DEF Collected, TypeOK, DecoderInv, ReadInv
  <2>2. JoinInv'
    BY <1>1, <1>12 DEF Collected, JoinInv, Workers
  <2>3. QED
    BY <1>5, <2>1, <2>2
<1>13. CASE ScopeEnds
  <2>1. TypeOK' /\ DecoderInv' /\ ReadInv' /\ JoinInv'
    BY <1>1, <1>2, <1>3, <1>13 DEF ScopeEnds, TypeOK, DecoderInv, ReadInv, JoinInv
  <2>2. QED
    BY <1>5, <2>1
<1>14. QED
  BY <1>6, <1>7, <1>8, <1>9, <1>10, <1>11, <1>12, <1>13 DEF Main

\* A decoder's steps: it publishes a position it has reached, and goes on.
LEMMA DecoderStep ==
  ASSUME IInv, NEW v \in Workers, Decoder(v)
  PROVE  IInv'
<1> USE DEF IInv
<1>1. UNCHANGED <<sequential, mpc, next, visPos, visDone, ppc, ppos>>
  BY DEF Decoder, Publish, Decode, DecoderPanics, PublishEnd, SignalDone,
         mainVars, flagVars, visVars
<1>2. /\ Window \in Nat /\ Chunk \in Nat
      /\ node[v] \in Bounds[v] .. Bounds[v + 1]
      /\ Bounds[v] \in Nat /\ Bounds[v + 1] \in Nat
  BY PrefetchAssumption, Typed, BandOf
<1>3. \A w \in Workers : dpc'[w] # "finished" => w = v \/ dpc[w] # "finished"
  BY DEF Decoder, Publish, Decode, DecoderPanics, PublishEnd, SignalDone, TypeOK
<1>4. dpc[v] # "finished"
  BY DEF Decoder, Publish, Decode, DecoderPanics, PublishEnd, SignalDone
<1>5. JoinInv'
  <2>1. ASSUME mpc = "join", NEW w \in Workers, w < next
        PROVE  dpc'[w] = "finished"
    BY <1>3, <1>4, <2>1 DEF JoinInv
  <2>2. ASSUME mpc \in {"leave", "returned"}
        PROVE  FALSE
    BY <1>4, <2>2 DEF JoinInv
  <2>3. QED
    BY <1>1, <2>1, <2>2 DEF JoinInv
<1>6. \A w \in Workers : ByteOf(node[w]) \in Nat /\ ByteOf(node[w]) \in ByteLo(w) .. ByteHi(w)
                         /\ ByteHi(w) \in Nat /\ ByteLo(w) \in Nat
  BY Typed
<1>7. CASE UNCHANGED node
  <2>1. \A w \in Workers : ByteOf(node[w])' = ByteOf(node[w]) /\ InBand(w)' = InBand(w)
    BY <1>7 DEF ByteOf, InBand
  <2>2. /\ pos' \in [Workers -> Int]
        /\ \A w \in Workers : w # v => pos'[w] = pos[w] /\ dpc'[w] = dpc[w]
    BY <1>2, <1>6 DEF Decoder, Publish, Decode, DecoderPanics, PublishEnd, SignalDone,
           TypeOK, FunctionInv, flagVars
  <2>3. pos'[v] \in {pos[v], ByteOf(node[v])}
    <3>1. CASE PublishEnd(v)
      <4>1. node[v] = Bounds[v + 1]
        BY <1>2, <3>1 DEF PublishEnd, InBand
      <4>2. QED
        BY <3>1, <4>1 DEF PublishEnd, ByteHi, FunctionInv
    <3>2. QED
      BY <1>7, <3>1 DEF Decoder, Publish, Decode, DecoderPanics, SignalDone,
                   FunctionInv, flagVars
  <2>4. TypeOK'
    <3>1. dpc' \in [Workers -> {"unborn", "publish", "decode", "signal", "finished", "panicked"}]
          /\ done' \in [Workers -> BOOLEAN]
      BY DEF Decoder, Publish, Decode, DecoderPanics, PublishEnd, SignalDone,
             flagVars, TypeOK
    <3>2. \A w \in Workers : pos'[w] \in ByteLo(w) .. ByteHi(w)
      BY <1>6, <2>2, <2>3 DEF TypeOK
    <3>3. QED
      BY <1>1, <1>7, <3>1, <3>2 DEF TypeOK
  <2>5. DecoderInv'
    <3>1. dpc'[v] = "decode" => InBand(v)
      BY <1>7, <1>2 DEF Decoder, Publish, Decode, DecoderPanics, PublishEnd, SignalDone, TypeOK
    <3>2. dpc'[v] \in {"signal", "finished"} => node[v] = Bounds[v + 1]
      BY <1>2 DEF Decoder, Publish, Decode, DecoderPanics, PublishEnd, SignalDone,
                  InBand, TypeOK, DecoderInv
    <3>3. QED
      BY <1>7, <2>1, <2>2, <3>1, <3>2 DEF DecoderInv
  <2>6. BehindInv'
    BY <1>1, <1>6, <2>1, <2>2, <2>3 DEF BehindInv
  <2>7. FunctionInv' /\ ReadInv' /\ AheadBounded'
    BY <1>1, <1>7, <2>1, <2>2 DEF FunctionInv, ReadInv, AheadBounded
  <2>8. QED
    BY <1>5, <2>4, <2>5, <2>6, <2>7
<1>8. CASE Decode(v)
  <2>1. node' = [node EXCEPT ![v] = node[v] + 1] /\ UNCHANGED <<pos, done>>
        /\ dpc' = [dpc EXCEPT ![v] = "publish"]
    BY <1>8 DEF Decode, flagVars
  <2>2. node'[v] = node[v] + 1 /\ \A w \in Workers : w # v => node'[w] = node[w]
    BY <2>1 DEF FunctionInv
  <2>3. node[v] < Bounds[v + 1] /\ node[v] + 1 \in Bounds[v] .. Bounds[v + 1]
    BY <1>2, <1>8 DEF Decode, DecoderInv, InBand
  <2>4. TypeOK' /\ FunctionInv'
    BY <1>1, <1>2, <2>1, <2>2, <2>3 DEF TypeOK, FunctionInv
  <2>5. ByteOf(node[v]) <= ByteOf(node[v] + 1) /\ ByteOf(node[v] + 1) \in Nat
    <3>1. /\ node[v] \in 0 .. NumNodes /\ node[v] + 1 \in 0 .. NumNodes
          /\ node[v] <= node[v] + 1
      <4>1. /\ Bounds[v] \in 0 .. NumNodes /\ Bounds[v + 1] \in 0 .. NumNodes
            /\ NumNodes \in Nat
        BY BandOf, PrefetchAssumption
      <4>2. node[v] \in Int
        BY DEF FunctionInv
      <4>3. QED
        BY <1>2, <2>3, <4>1, <4>2
    <3>2. QED
      BY <3>1, ByteOfMonotonic
  <2>6. \A w \in Workers : ByteOf(node[w]) <= ByteOf(node[w])' /\ ByteOf(node[w])' \in Nat
    BY <1>6, <2>2, <2>5 DEF ByteOf
  <2>7. DecoderInv'
    BY <2>1, <2>2 DEF DecoderInv, InBand, TypeOK
  <2>8. BehindInv'
    <3> SUFFICES ASSUME NEW w \in Workers
                 PROVE  pos[w] <= ByteOf(node[w])' /\ visPos[w] <= ByteOf(node[w])'
      BY <1>1, <2>1 DEF BehindInv
    <3>1. pos[w] <= ByteOf(node[w]) /\ visPos[w] <= ByteOf(node[w])
          /\ pos[w] \in Nat /\ visPos[w] \in Nat
      BY Typed DEF BehindInv
    <3>2. QED
      BY <1>6, <2>6, <3>1
  <2>9. ReadInv' /\ AheadBounded'
    <3> SUFFICES ASSUME NEW w \in Workers
                 PROVE  /\ ppc[w] = "read" => ppos[w] <= ByteOf(node[w])' + Window
                        /\ ppos[w] <= ByteOf(node[w])' + Window + Chunk
      BY <1>1 DEF ReadInv, AheadBounded
    <3>1. ppos[w] \in Nat /\ ppos[w] <= ByteOf(node[w]) + Window + Chunk
      BY Typed DEF AheadBounded
    <3>2. ppc[w] = "read" => ppos[w] <= ByteOf(node[w]) + Window
      BY DEF ReadInv
    <3>3. QED
      BY <1>2, <1>6, <2>6, <3>1, <3>2
  <2>10. QED
    BY <1>5, <2>4, <2>7, <2>8, <2>9
<1>9. QED
  BY <1>7, <1>8 DEF Decoder, Publish, DecoderPanics, PublishEnd, SignalDone

\* A store becomes visible.
LEMMA VisibleStep ==
  ASSUME IInv, NEW v \in Workers, PosVisible(v) \/ DoneVisible(v)
  PROVE  IInv'
<1> USE DEF IInv
<1>1. UNCHANGED <<sequential, mpc, next, dpc, node, pos, done, ppc, ppos>>
  BY DEF PosVisible, DoneVisible, mainVars, flagVars
<1>2. visPos' \in [Workers -> Int] /\ visDone' \in [Workers -> BOOLEAN]
      /\ \A w \in Workers : visPos'[w] \in {visPos[w], pos[w]}
  BY DEF PosVisible, DoneVisible, TypeOK, FunctionInv
<1>3. \A w \in Workers : ByteOf(node[w])' = ByteOf(node[w]) /\ InBand(w)' = InBand(w)
  BY <1>1 DEF ByteOf, InBand
<1>4. TypeOK'
  <2>1. \A w \in Workers : visPos'[w] \in ByteLo(w) .. ByteHi(w)
    BY <1>2 DEF TypeOK
  <2>2. QED
    BY <1>1, <1>2, <2>1 DEF TypeOK
<1>5. BehindInv'
  BY <1>1, <1>2, <1>3 DEF BehindInv
<1>6. FunctionInv' /\ DecoderInv' /\ ReadInv' /\ AheadBounded' /\ JoinInv'
  BY <1>1, <1>2, <1>3 DEF FunctionInv, DecoderInv, ReadInv, AheadBounded, JoinInv
<1>7. QED
  BY <1>4, <1>5, <1>6

\* A prefetcher's steps: the position it compares with may be stale, but a
\* stale position is one the decoder has passed.
LEMMA PrefetcherStep ==
  ASSUME IInv, NEW v \in Workers, Prefetcher(v)
  PROVE  IInv'
<1> USE DEF IInv
<1>1. UNCHANGED <<sequential, mpc, next, dpc, node, pos, done, visPos, visDone>>
  BY DEF Prefetcher, Open, Check, LoadPos, Read, GoTo, mainVars, flagVars, visVars
<1>2. \A w \in Workers : ByteOf(node[w])' = ByteOf(node[w]) /\ InBand(w)' = InBand(w)
  BY <1>1 DEF ByteOf, InBand
<1>3. DecoderInv' /\ BehindInv' /\ JoinInv'
  BY <1>1, <1>2 DEF DecoderInv, BehindInv, JoinInv
<1>4. ppc' \in [Workers -> {"unborn", "open", "loop", "load", "read", "exited"}]
      /\ \A w \in Workers : w # v => ppc'[w] = ppc[w]
  BY DEF Prefetcher, Open, Check, LoadPos, Read, GoTo, TypeOK
<1>5. /\ Window \in Nat /\ Chunk \in Nat \ {0}
      /\ ppos[v] \in ByteLo(v) .. ByteHi(v) /\ ppos[v] \in Nat /\ visPos[v] \in Nat
      /\ ByteLo(v) \in Nat /\ ByteHi(v) \in Nat /\ ByteOf(node[v]) \in Nat
  BY PrefetchAssumption, Typed DEF TypeOK
<1>6. CASE UNCHANGED ppos
  <2>1. TypeOK' /\ FunctionInv' /\ AheadBounded'
    BY <1>1, <1>2, <1>4, <1>6 DEF TypeOK, FunctionInv, AheadBounded
  <2>2. ppc'[v] = "read" => ppos[v] <= ByteOf(node[v]) + Window
    <3>1. CASE LoadPos(v)
      <4>1. ppc'[v] = "read" => ppos[v] <= visPos[v] + Window
        BY <1>5, <3>1 DEF LoadPos, GoTo, Throttled, TypeOK
      <4>2. QED
        BY <1>5, <4>1 DEF BehindInv
    <3>2. CASE Open(v) \/ Check(v) \/ Read(v)
      BY <3>2 DEF Open, Check, Read, GoTo, TypeOK, ReadInv
    <3>3. QED
      BY <3>1, <3>2 DEF Prefetcher
  <2>3. ReadInv'
    BY <1>2, <1>4, <1>6, <2>2 DEF ReadInv
  <2>4. QED
    BY <1>3, <2>1, <2>3
<1>7. ASSUME NEW n \in 1 .. Want(v), ppc[v] = "read",
             ppos' = [ppos EXCEPT ![v] = ppos[v] + n], GoTo(v, "loop")
      PROVE  IInv'
  <2>1. n \in Nat /\ n <= Chunk /\ n <= ByteHi(v) - ppos[v]
    BY <1>5, <1>7 DEF Want
  <2>2. ppos'[v] = ppos[v] + n /\ \A w \in Workers : w # v => ppos'[w] = ppos[w]
    BY <1>7 DEF FunctionInv
  <2>3. \A w \in Workers : ppos'[w] \in ByteLo(w) .. ByteHi(w)
    BY <1>5, <2>1, <2>2 DEF TypeOK
  <2>4. TypeOK'
    BY <1>1, <1>4, <2>3 DEF TypeOK
  <2>5. FunctionInv'
    BY <1>1, <1>5, <1>7, <2>1 DEF FunctionInv
  <2>6. AheadBounded'
    <3>1. ppos[v] + n <= ByteOf(node[v]) + Window + Chunk
      BY <1>5, <1>7, <2>1 DEF ReadInv
    <3>2. QED
      BY <1>2, <2>2, <3>1 DEF AheadBounded
  <2>7. ReadInv'
    BY <1>2, <1>7, <2>2 DEF ReadInv, GoTo, TypeOK
  <2>8. QED
    BY <1>3, <2>4, <2>5, <2>6, <2>7
<1>8. QED
  BY <1>6, <1>7 DEF Prefetcher, Open, Check, LoadPos, Read

LEMMA NextIInv ==
  ASSUME IInv, [Next]_vars
  PROVE  IInv'
<1>1. CASE Main
  BY <1>1, MainStep
<1>2. ASSUME NEW w \in Workers, Decoder(w) PROVE IInv'
  BY <1>2, DecoderStep
<1>3. ASSUME NEW w \in Workers, PosVisible(w) \/ DoneVisible(w) PROVE IInv'
  BY <1>3, VisibleStep
<1>4. ASSUME NEW w \in Workers, Prefetcher(w) PROVE IInv'
  BY <1>4, PrefetcherStep
<1>5. CASE UNCHANGED vars
  BY <1>5 DEF vars, IInv, TypeOK, FunctionInv, DecoderInv, BehindInv, ReadInv,
              AheadBounded, JoinInv, ByteOf, InBand
<1>6. QED
  BY <1>1, <1>2, <1>3, <1>4, <1>5 DEF Next, Over

LEMMA Invariance == Spec => []IInv
BY InitIInv, NextIInv, PTL DEF Spec

-----------------------------------------------------------------------------

\* Nodes, positions and control points keep their ranges: the atomics only
\* ever hold byte positions of the band they belong to.
THEOREM TypeCorrect == Spec => []TypeOK
<1>1. IInv => TypeOK
  BY DEF IInv
<1>2. QED
  BY <1>1, Invariance, PTL

\* The throttle of prefetch_band bounds what is read ahead of the node the
\* decoder is at by the window and one chunk, however late a Relaxed store is
\* seen and however rarely the position is published.
THEOREM ReadAheadBounded == Spec => []AheadBounded
<1>1. IInv => AheadBounded
  BY DEF IInv
<1>2. QED
  BY <1>1, Invariance, PTL

\* hydrate merges only after every band was scanned to its last node.
THEOREM WholeScanReturned == Spec => []ReturnsWholeScan
<1>1. IInv => ReturnsWholeScan
  BY DEF IInv, ReturnsWholeScan, JoinInv, DecoderInv
<1>2. QED
  BY <1>1, Invariance, PTL
=============================================================================
