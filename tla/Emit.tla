-------------------------------- MODULE Emit --------------------------------
(***************************************************************************)
(* ntf::traverse, emit: a second pass over the cands file, batch by batch, *)
(* that joins row r of the file with leaf[r], status[r] and seeds.bin[r]   *)
(* by nothing but its position, and writes it through a writer per bin to  *)
(* out_dir/bin=<b>/part-00001.parquet.  A part is readable only once its   *)
(* footer is written by close.  Any call may fail, the process may crash,  *)
(* and nt_scratch may then be run again over the same out_dir.             *)
(*                                                                         *)
(* A row's ten columns are left out: an output row is the pair of the file *)
(* row and of the seeds row it was made from.                              *)
(***************************************************************************)
EXTENDS Integers, Sequences

CONSTANTS
  FileBatches,    \* the ways the reader may cut the file: batch sizes
  SeedRows,       \* values of seeds.n_rows considered
  Bins,
  BinOf,          \* seeds.bin: seeds row -> bin
  OutputBatch,    \* OUTPUT_BATCH_SIZE
  MaxRuns         \* bound: runs of nt_scratch over one out_dir

\* The number of rows in the first j batches.
RowsIn(bs, j) ==
  LET sum[q \in 0 .. Len(bs)] == IF q = 0 THEN 0 ELSE sum[q - 1] + bs[q] IN sum[j]

FileRows(bs) == RowsIn(bs, Len(bs))

ASSUME EmitAssumption ==
  /\ FileBatches \subseteq Seq(Nat) /\ SeedRows \subseteq Nat
  \* one file, cut in different ways
  /\ \A a, b \in FileBatches : FileRows(a) = FileRows(b)
  /\ \A n \in SeedRows : \A r \in 0 .. n - 1 : BinOf[r] \in Bins
  /\ OutputBatch \in Nat \ {0} /\ MaxRuns \in Nat \ {0}

VARIABLES
  batches, nRows,    \* the file as it is cut this time, seeds.n_rows
  pc, run,
  batch, i,          \* batches consumed, row within the next one
  rowGlobal,
  pending,           \* bin -> rows in the writer's builders
  open,              \* bins whose writer has a part file open
  live,              \* bins with a writer still to be finished
  part               \* bin -> its part file in out_dir

vars == <<batches, nRows, pc, run, batch, i, rowGlobal, pending, open, live, part>>
inputs == <<batches, nRows>>

\* An output row made from an earlier candidates file.
OldRow == [file |-> -1, seed |-> -1]

NoPart  == [state |-> "none", rows |-> <<>>]
OldPart == [state |-> "closed", rows |-> <<OldRow>>]

Init ==
  /\ batches \in FileBatches /\ nRows \in SeedRows
  /\ pc = "read" /\ run = 1
  /\ batch = 0 /\ i = 0 /\ rowGlobal = 0
  /\ pending = [b \in Bins |-> <<>>]
  /\ open = {} /\ live = {}
  /\ part \in [Bins -> {NoPart, OldPart}]     \* out_dir may not be empty

-----------------------------------------------------------------------------

\* `?` leaves emit: every writer is dropped, no part is closed any more.
Fail ==
  /\ pc' = "failed"
  /\ open' = {} /\ live' = {}
  /\ pending' = [b \in Bins |-> <<>>]
  /\ UNCHANGED <<inputs, run, batch, i, rowGlobal>>

\* @mutant of TooMany: only the rows before this batch are counted.
TooManyBefore(n) == rowGlobal > nRows

\* `row_global + nrows > seeds.n_rows`
TooMany(n) == rowGlobal + n > nRows

More == pc = "read" /\ batch < Len(batches)

ReadBatch ==
  /\ More /\ ~TooMany(batches[batch + 1])
  /\ pc' = "rows" /\ i' = 0
  /\ UNCHANGED <<inputs, run, batch, rowGlobal, pending, open, live, part>>

\* The reader fails, or the file has more rows than the seeds.
ReadFails ==
  /\ More
  /\ Fail
  /\ UNCHANGED part

InBatch == pc = "rows" /\ i < batches[batch + 1]

\* @mutant of Row: the row within the batch.
RowInBatch == i

Row == rowGlobal + i     \* the index into leaf, status and seeds.bin

OutRow == [file |-> RowsIn(batches, batch) + i, seed |-> Row]

\* @mutant of Full: tested after the threshold is passed.
FullLate(rows) == Len(rows) > OutputBatch

Full(rows) == Len(rows) >= OutputBatch

\* flush, of a non-empty builder: the part is created on the first one,
\* truncating a file of that name.
Flushed(b, rows) ==
  [part EXCEPT ![b] =
     [state |-> "open", rows |-> IF b \in open THEN @.rows \o rows ELSE rows]]

\* @mutant of AfterFlush: the builders are not emptied.
AfterFlushKept(rows) == rows

AfterFlush(rows) == <<>>

PushRow ==
  /\ InBatch
  /\ LET b == BinOf[Row]
         rows == Append(pending[b], OutRow)
     IN  /\ live' = live \cup {b}
         /\ IF Full(rows)
              THEN /\ part' = Flushed(b, rows)
                   /\ open' = open \cup {b}
                   /\ pending' = [pending EXCEPT ![b] = AfterFlush(rows)]
              ELSE /\ pending' = [pending EXCEPT ![b] = rows]
                   /\ UNCHANGED <<part, open>>
  /\ i' = i + 1
  /\ UNCHANGED <<inputs, pc, run, batch, rowGlobal>>

\* Creating the directory or the part, or writing to it, fails: the part may
\* be there, without the rows being flushed.
PushFails ==
  /\ InBatch /\ Full(Append(pending[BinOf[Row]], OutRow))
  /\ \/ UNCHANGED part
     \/ part' = Flushed(BinOf[Row], <<>>)
  /\ Fail

BatchDone ==
  /\ pc = "rows" /\ i = batches[batch + 1]
  /\ rowGlobal' = rowGlobal + i
  /\ batch' = batch + 1
  /\ pc' = "read"
  /\ UNCHANGED <<inputs, run, i, pending, open, live, part>>

EndOfFile == pc = "read" /\ batch = Len(batches)

TooFewRows ==
  /\ EndOfFile /\ rowGlobal # nRows
  /\ Fail
  /\ UNCHANGED part

StartFinish ==
  /\ EndOfFile /\ rowGlobal = nRows
  /\ pc' = "finish"
  /\ UNCHANGED <<inputs, run, batch, i, rowGlobal, pending, open, live, part>>

\* @mutant of Closed: finish closes the part without flushing first.
ClosedUnflushed(b) == [part EXCEPT ![b].state = "closed"]

\* The part after finish: the remaining rows, and the footer.
Closed(b) ==
  [part EXCEPT ![b] =
     [state |-> "closed",
      rows  |-> IF b \in open THEN @.rows \o pending[b] ELSE pending[b]]]

\* `for (_bin, mut w) in writers`: in the order of a hash map.
Finish(b) ==
  /\ pc = "finish" /\ b \in live
  /\ part' = Closed(b)
  /\ pending' = [pending EXCEPT ![b] = <<>>]
  /\ open' = open \ {b} /\ live' = live \ {b}
  /\ UNCHANGED <<inputs, pc, run, batch, i, rowGlobal>>

FinishFails ==
  /\ pc = "finish" /\ live # {}
  /\ \E b \in live :
       UNCHANGED part \/ \E rows \in {<<>>, pending[b]} : part' = Flushed(b, rows)
  /\ Fail

Return ==
  /\ pc = "finish" /\ live = {}
  /\ pc' = "ok"
  /\ UNCHANGED <<inputs, run, batch, i, rowGlobal, pending, open, live, part>>

Emitting == pc \in {"read", "rows", "finish"}

\* The process dies; out_dir stays as it is.
Crash ==
  /\ Emitting
  /\ Fail
  /\ UNCHANGED part

\* nt_scratch again, on the same input and out_dir.
Rerun ==
  /\ pc = "failed" /\ run < MaxRuns
  /\ run' = run + 1
  /\ batches' \in FileBatches /\ nRows' \in SeedRows
  /\ pc' = "read" /\ batch' = 0 /\ i' = 0 /\ rowGlobal' = 0
  /\ UNCHANGED <<pending, open, live, part>>

Over == pc \in {"ok", "failed"} /\ UNCHANGED vars

Next ==
  \/ ReadBatch \/ ReadFails \/ PushRow \/ PushFails \/ BatchDone
  \/ TooFewRows \/ StartFinish \/ (\E b \in Bins : Finish(b)) \/ FinishFails
  \/ Return \/ Crash \/ Rerun \/ Over

Spec == Init /\ [][Next]_vars

-----------------------------------------------------------------------------

\* No builder ever holds a full batch: "to avoid the i32 StringBuilder 2GB
\* offset overflow".
TypeOK ==
  /\ batches \in FileBatches /\ nRows \in SeedRows
  /\ pc \in {"read", "rows", "finish", "ok", "failed"} /\ run \in 1 .. MaxRuns
  /\ batch \in 0 .. Len(batches) /\ i \in Nat /\ rowGlobal \in Nat
  /\ open \subseteq live /\ live \subseteq Bins
  /\ \A b \in Bins :
       /\ Len(pending[b]) < OutputBatch
       /\ part[b].state \in {"none", "open", "closed"}
       /\ b \in open => part[b].state = "open"

\* "A clean error (not an OOB panic)": the three vectors are never indexed
\* past their end, however the file disagrees with the seeds.
InBounds == InBatch => Row < nRows

\* The elements of s that lie in S, in their order.
SelectIn(s, S) ==
  LET sel[m \in 0 .. Len(s)] ==
        IF m = 0 THEN <<>>
        ELSE IF s[m] \in S THEN Append(sel[m - 1], s[m]) ELSE sel[m - 1]
  IN  sel[Len(s)]

OutRows == [file : Int, seed : Int]

\* The output due to bin b once `upTo` rows of the file are consumed.
Due(b, upTo) ==
  SelectIn([r \in 1 .. upTo |-> [file |-> r - 1, seed |-> r - 1]],
           {x \in OutRows : BinOf[x.seed] = b})

Consumed == RowsIn(batches, batch) + (IF pc = "rows" THEN i ELSE 0)

OnDisk(b) == IF b \in open THEN part[b].rows ELSE <<>>

\* Between two batches or rows, each row consumed so far is in its bin's part
\* or its builders, once, in file order, and joined with its own result.
RowsAccounted ==
  pc \in {"read", "rows"} =>
    \A b \in Bins : OnDisk(b) \o pending[b] = Due(b, Consumed)

\* Ok means that the file and the seeds agree and every bin that has rows has
\* a readable part with exactly these, whatever an earlier run left there.
OkMeansComplete ==
  pc = "ok" =>
    /\ FileRows(batches) = nRows
    /\ \A b \in Bins :
         Due(b, nRows) # <<>> => part[b] = [state |-> "closed", rows |-> Due(b, nRows)]
=============================================================================
