------------------------------ MODULE Prefetch ------------------------------
(***************************************************************************)
(* ntf::hydrate, the threads of the scan: inside one std::thread::scope    *)
(* the caller spawns, in sequential mode, one prefetcher per band and then *)
(* one decoder per band, and joins the decoders.  A prefetcher reads its   *)
(* band of the labels file ahead of its decoder, throttled by the byte     *)
(* position the decoder publishes and stopped by the decoder's done flag.  *)
(*                                                                         *)
(* Both flags are Relaxed atomics: a store becomes visible to the other    *)
(* thread some time later, and independently of the other store; visPos    *)
(* and visDone are what a load returns.  What a decoder extracts from a    *)
(* node is the subject of Hydrate.                                         *)
(***************************************************************************)
EXTENDS Integers

CONSTANTS
  K,             \* number of bands
  NumNodes,
  Ef,            \* label offset index: node -> bit where its labels start
  Bounds,        \* band w is the nodes Bounds[w] .. Bounds[w + 1] - 1
  PublishEvery,  \* nodes between two publications (0x10000)
  Window,        \* WINDOW (256 MB)
  Chunk,         \* CHUNK (16 MB)
  Faults         \* the failures considered: "decoder", "spawn", "read"

Workers == 0 .. K - 1

ASSUME PrefetchAssumption ==
  /\ K \in Nat \ {0}
  /\ NumNodes \in Nat
  /\ Ef \in [0 .. NumNodes -> Nat]
  /\ \A m, n \in 0 .. NumNodes : m <= n => Ef[m] <= Ef[n]
  /\ Bounds \in [0 .. K -> 0 .. NumNodes]
  /\ \A w \in Workers : Bounds[w] <= Bounds[w + 1]
  /\ PublishEvery \in Nat \ {0}
  /\ Window \in Nat
  /\ Chunk \in Nat \ {0}

VARIABLES
  sequential,    \* the scan mode
  mpc, next,     \* the caller: control point, worker to spawn or to join
  dpc, node,     \* decoders: control point, next node of the band
  pos, done,     \* the atomics worker_pos[w] and done[w]
  visPos, visDone,   \* their values as prefetcher w sees them
  ppc, ppos      \* prefetchers: control point, local `pos`

vars == <<sequential, mpc, next, dpc, node, pos, done, visPos, visDone, ppc, ppos>>
mainVars == <<mpc, next>>
flagVars == <<pos, done>>
visVars  == <<visPos, visDone>>

ByteOf(n) == Ef[n] \div 8
ByteLo(w) == ByteOf(Bounds[w])
ByteHi(w) == ByteOf(Bounds[w + 1])

Init ==
  /\ sequential \in BOOLEAN
  /\ mpc = "prefetchers" /\ next = 0
  /\ dpc = [w \in Workers |-> "unborn"]
  /\ node = [w \in Workers |-> Bounds[w]]
  /\ pos = [w \in Workers |-> ByteLo(w)]
  /\ done = [w \in Workers |-> FALSE]
  /\ visPos = pos
  /\ visDone = done
  /\ ppc = [w \in Workers |-> "unborn"]
  /\ ppos = [w \in Workers |-> ByteLo(w)]

-----------------------------------------------------------------------------
(* The caller. *)

\* `.expect("spawn prefetcher")`, `.expect("spawn decoder")`
SpawnFails ==
  /\ "spawn" \in Faults
  /\ \/ mpc = "prefetchers" /\ sequential
     \/ mpc = "decoders"
  /\ next < K
  /\ mpc' = "unwind"
  /\ UNCHANGED <<sequential, next, dpc, node, flagVars, visVars, ppc, ppos>>

SpawnPrefetcher ==
  /\ mpc = "prefetchers" /\ sequential /\ next < K
  /\ ppc' = [ppc EXCEPT ![next] = "open"]
  /\ next' = next + 1
  /\ UNCHANGED <<sequential, mpc, dpc, node, flagVars, visVars, ppos>>

PrefetchersSpawned ==
  /\ mpc = "prefetchers"
  /\ sequential => next = K
  /\ mpc' = "decoders" /\ next' = 0
  /\ UNCHANGED <<sequential, dpc, node, flagVars, visVars, ppc, ppos>>

SpawnDecoder ==
  /\ mpc = "decoders" /\ next < K
  /\ dpc' = [dpc EXCEPT ![next] = "publish"]
  /\ next' = next + 1
  /\ UNCHANGED <<sequential, mpc, node, flagVars, visVars, ppc, ppos>>

DecodersSpawned ==
  /\ mpc = "decoders" /\ next = K
  /\ mpc' = "join" /\ next' = 0
  /\ UNCHANGED <<sequential, dpc, node, flagVars, visVars, ppc, ppos>>

\* @mutant of Join: a panicked decoder is skipped instead of unwrapped.
JoinFlatten ==
  /\ mpc = "join" /\ next < K
  /\ dpc[next] \in {"finished", "panicked"}
  /\ next' = next + 1 /\ UNCHANGED mpc
  /\ UNCHANGED <<sequential, dpc, node, flagVars, visVars, ppc, ppos>>

\* `h.join().expect("decoder thread panicked")`, in band order
Join ==
  /\ mpc = "join" /\ next < K
  /\ \/ dpc[next] = "finished" /\ next' = next + 1 /\ UNCHANGED mpc
     \/ dpc[next] = "panicked" /\ mpc' = "unwind" /\ UNCHANGED next
  /\ UNCHANGED <<sequential, dpc, node, flagVars, visVars, ppc, ppos>>

Collected ==
  /\ mpc = "join" /\ next = K
  /\ mpc' = "leave"
  /\ UNCHANGED <<sequential, next, dpc, node, flagVars, visVars, ppc, ppos>>

\* thread::scope returns, or resumes its closure's panic, only when every
\* thread spawned in it has ended.
ThreadsEnded ==
  \A w \in Workers :
    /\ dpc[w] \in {"unborn", "finished", "panicked"}
    /\ ppc[w] \in {"unborn", "exited"}

ScopeEnds ==
  /\ ThreadsEnded
  /\ \/ mpc = "leave" /\ mpc' = "returned"
     \/ mpc = "unwind" /\ mpc' = "panicked"
  /\ UNCHANGED <<sequential, next, dpc, node, flagVars, visVars, ppc, ppos>>

Main ==
  \/ SpawnFails \/ SpawnPrefetcher \/ PrefetchersSpawned
  \/ SpawnDecoder \/ DecodersSpawned
  \/ Join \/ Collected \/ ScopeEnds

-----------------------------------------------------------------------------
(* Decoder w: scan_band. *)

InBand(w) == node[w] < Bounds[w + 1]

\* @mutant of Publish: the end of the node is published, not its start.
PublishNodeEnd(w) ==
  /\ dpc[w] = "publish" /\ InBand(w)
  /\ pos' = IF node[w] % PublishEvery = 0
              THEN [pos EXCEPT ![w] = ByteOf(node[w] + 1)] ELSE pos
  /\ dpc' = [dpc EXCEPT ![w] = "decode"]
  /\ UNCHANGED <<sequential, mainVars, node, done, visVars, ppc, ppos>>

\* `if (n & 0xFFFF) == 0 { decoder_pos.store(..) }`
Publish(w) ==
  /\ dpc[w] = "publish" /\ InBand(w)
  /\ pos' = IF node[w] % PublishEvery = 0
              THEN [pos EXCEPT ![w] = ByteOf(node[w])] ELSE pos
  /\ dpc' = [dpc EXCEPT ![w] = "decode"]
  /\ UNCHANGED <<sequential, mainVars, node, done, visVars, ppc, ppos>>

Decode(w) ==
  /\ dpc[w] = "decode"
  /\ node' = [node EXCEPT ![w] = @ + 1]
  /\ dpc' = [dpc EXCEPT ![w] = "publish"]
  /\ UNCHANGED <<sequential, mainVars, flagVars, visVars, ppc, ppos>>

\* The body indexes RequestedFid and the graph: a label id outside the pinned
\* N_LABELS, or a label stream that does not decode, panics the thread.
DecoderPanics(w) ==
  /\ "decoder" \in Faults
  /\ dpc[w] = "decode"
  /\ dpc' = [dpc EXCEPT ![w] = "panicked"]
  /\ UNCHANGED <<sequential, mainVars, node, flagVars, visVars, ppc, ppos>>

\* @mutant of PublishEnd: the thread returns without the closing stores.
ReturnSilently(w) ==
  /\ dpc[w] = "publish" /\ ~InBand(w)
  /\ dpc' = [dpc EXCEPT ![w] = "finished"]
  /\ UNCHANGED <<sequential, mainVars, node, flagVars, visVars, ppc, ppos>>

PublishEnd(w) ==
  /\ dpc[w] = "publish" /\ ~InBand(w)
  /\ pos' = [pos EXCEPT ![w] = ByteHi(w)]
  /\ dpc' = [dpc EXCEPT ![w] = "signal"]
  /\ UNCHANGED <<sequential, mainVars, node, done, visVars, ppc, ppos>>

\* `done.store(true)`; the shard is returned.
SignalDone(w) ==
  /\ dpc[w] = "signal"
  /\ done' = [done EXCEPT ![w] = TRUE]
  /\ dpc' = [dpc EXCEPT ![w] = "finished"]
  /\ UNCHANGED <<sequential, mainVars, node, pos, visVars, ppc, ppos>>

Decoder(w) ==
  \/ Publish(w) \/ Decode(w) \/ DecoderPanics(w) \/ PublishEnd(w) \/ SignalDone(w)

-----------------------------------------------------------------------------
(* Visibility of the two Relaxed stores. *)

PosVisible(w) ==
  /\ visPos[w] # pos[w]
  /\ visPos' = [visPos EXCEPT ![w] = pos[w]]
  /\ UNCHANGED <<sequential, mainVars, dpc, node, flagVars, visDone, ppc, ppos>>

DoneVisible(w) ==
  /\ visDone[w] # done[w]
  /\ visDone' = [visDone EXCEPT ![w] = done[w]]
  /\ UNCHANGED <<sequential, mainVars, dpc, node, flagVars, visPos, ppc, ppos>>

-----------------------------------------------------------------------------
(* Prefetcher w: prefetch_band. *)

GoTo(w, label) ==
  /\ ppc' = [ppc EXCEPT ![w] = label]
  /\ UNCHANGED <<sequential, mainVars, dpc, node, flagVars, visVars>>

Open(w) ==
  /\ ppc[w] = "open"
  /\ UNCHANGED ppos
  /\ \/ GoTo(w, "loop")
     \/ "read" \in Faults /\ GoTo(w, "exited")

\* `while pos < byte_hi { if done.load() { break; }`
MayGoOn(w) == ppos[w] < ByteHi(w) /\ ~visDone[w]

Check(w) ==
  /\ ppc[w] = "loop"
  /\ UNCHANGED ppos
  /\ GoTo(w, IF MayGoOn(w) THEN "load" ELSE "exited")

\* `pos > dp.saturating_add(WINDOW)`, dp the position just loaded
Throttled(w) == ppos[w] > visPos[w] + Window

\* The decoder's position is loaded; too far ahead, sleep and start over.
LoadPos(w) ==
  /\ ppc[w] = "load"
  /\ UNCHANGED ppos
  /\ GoTo(w, IF Throttled(w) THEN "loop" ELSE "read")

\* @mutant of Want: not cut at the end of the band.
WantChunk(w) == Chunk

Want(w) == IF ByteHi(w) - ppos[w] < Chunk THEN ByteHi(w) - ppos[w] ELSE Chunk

\* read_at: some of the bytes wanted; or nothing (end of file) or an error.
Read(w) ==
  /\ ppc[w] = "read"
  /\ \/ \E n \in 1 .. Want(w) :
          ppos' = [ppos EXCEPT ![w] = @ + n] /\ GoTo(w, "loop")
     \/ "read" \in Faults /\ UNCHANGED ppos /\ GoTo(w, "exited")

Prefetcher(w) == Open(w) \/ Check(w) \/ LoadPos(w) \/ Read(w)

-----------------------------------------------------------------------------

Over == mpc \in {"returned", "panicked"} /\ UNCHANGED vars

Next ==
  \/ Main
  \/ \E w \in Workers : Decoder(w) \/ PosVisible(w) \/ DoneVisible(w) \/ Prefetcher(w)
  \/ Over

\* The kernel runs every thread, and a store is visible after finite time.
Fairness ==
  /\ WF_vars(Main)
  /\ \A w \in Workers :
       /\ WF_vars(Decoder(w))
       /\ WF_vars(PosVisible(w)) /\ WF_vars(DoneVisible(w))
       /\ WF_vars(Prefetcher(w))

Spec == Init /\ [][Next]_vars /\ Fairness

-----------------------------------------------------------------------------

TypeOK ==
  /\ sequential \in BOOLEAN
  /\ mpc \in {"prefetchers", "decoders", "join", "leave", "unwind", "returned", "panicked"}
  /\ next \in 0 .. K
  /\ dpc \in [Workers -> {"unborn", "publish", "decode", "signal", "finished", "panicked"}]
  /\ \A w \in Workers : node[w] \in Bounds[w] .. Bounds[w + 1]
  /\ \A w \in Workers : pos[w] \in ByteLo(w) .. ByteHi(w)
  /\ done \in [Workers -> BOOLEAN]
  /\ \A w \in Workers : visPos[w] \in ByteLo(w) .. ByteHi(w)
  /\ visDone \in [Workers -> BOOLEAN]
  /\ ppc \in [Workers -> {"unborn", "open", "loop", "load", "read", "exited"}]
  /\ \A w \in Workers : ppos[w] \in ByteLo(w) .. ByteHi(w)

\* What the throttle really bounds: the pages read ahead and not yet decoded
\* are those of the window and one chunk, measured from the node the decoder is
\* at, though the prefetcher knows that node only through a publication every
\* PublishEvery nodes that it may see late.  The comment at hydrate.rs:403
\* leaves the chunk out: the test comes before the read.
AheadBounded == \A w \in Workers : ppos[w] <= ByteOf(node[w]) + Window + Chunk

\* hydrate goes on to merge only if every band was scanned to its end: a
\* decoder's panic, or a spawn that failed, is never taken for a short band.
ReturnsWholeScan ==
  mpc = "returned" =>
    \A w \in Workers : dpc[w] = "finished" /\ node[w] = Bounds[w + 1]

\* "Pure cache warming": whatever the prefetchers meet (no file, short reads,
\* errors, stale positions), the scan ends and returns, unless a decoder
\* panicked or a thread could not be spawned.
HydrateReturns ==
  [](mpc # "unwind" /\ \A w \in Workers : dpc[w] # "panicked") => <>(mpc = "returned")

\* "decoder thread panicked" at hydrate.rs:198: the panic of a decoder ends
\* hydrate with that panic.
PanicSurfaces ==
  \A w \in Workers : dpc[w] = "panicked" ~> mpc = "panicked"
=============================================================================
