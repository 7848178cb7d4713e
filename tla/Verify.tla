------------------------------- MODULE Verify -------------------------------
(***************************************************************************)
(* nt_verify over the out_dir that emit filled, or left unfinished: it     *)
(* reads the parts in the order of their paths, batch by batch, until it   *)
(* has n rows with status ok, and re-resolves those with the direct walk.  *)
(* It reads nothing but out_dir, so it cannot know how emit ended.         *)
(*                                                                         *)
(* The pipeline before emit is taken to be right (see Pipeline): the       *)
(* direct walk of the file's row r finds Leaf[r].  That also takes a file  *)
(* as B1 writes it, with whole SWHIDs in rev_swhid: seeds completes a bare *)
(* hash, nt_verify does not.                                               *)
(***************************************************************************)
EXTENDS Emit

CONSTANTS
  Leaf,          \* row of the file -> its content, or NoLeaf; -1 for OldRow
  NoLeaf,
  PathOrder,     \* the bins in the order of their directories' names
  ReadSize,      \* with_batch_size(8192)
  SampleSizes    \* values of --n considered

ASSUME VerifyAssumption ==
  /\ PathOrder \in Seq(Bins) /\ {PathOrder[j] : j \in DOMAIN PathOrder} = Bins
  /\ \A j, k \in DOMAIN PathOrder : PathOrder[j] = PathOrder[k] => j = k
  /\ ReadSize \in Nat \ {0} /\ SampleSizes \subseteq Nat \ {0}

VARIABLES
  vpc,        \* "idle", "open", "batch", "judge", "pass", "fail" or "error"
  n,          \* --n
  files,      \* the bins whose parts were found
  f, at,      \* the file being read, rows of it read
  sample

verifying == <<vpc, n, files, f, at, sample>>
allVars == <<vars, verifying>>

VerifyInit ==
  /\ Init
  /\ vpc = "idle" /\ n \in SampleSizes
  /\ files = <<>> /\ f = 1 /\ at = 0 /\ sample = <<>>

-----------------------------------------------------------------------------

\* collect_parquets, with its `out.sort()`; no file is an error.
CollectParquets ==
  /\ vpc = "idle" /\ ~Emitting
  /\ files' = SelectIn(PathOrder, {b \in Bins : part[b].state # "none"})
  /\ vpc' = IF files' = <<>> THEN "error" ELSE "open"
  /\ UNCHANGED <<vars, n, f, at, sample>>

Readable(b) == part[b].state = "closed"

\* @mutant of OpenFile: a part that cannot be read is passed over.
OpenFileOrSkip ==
  /\ vpc = "open" /\ f <= Len(files)
  /\ IF Readable(files[f]) THEN vpc' = "batch" /\ UNCHANGED f
                           ELSE f' = f + 1 /\ UNCHANGED vpc
  /\ at' = 0
  /\ UNCHANGED <<vars, n, files, sample>>

\* A part without footer stops the program.
OpenFile ==
  /\ vpc = "open" /\ f <= Len(files)
  /\ vpc' = IF Readable(files[f]) THEN "batch" ELSE "error"
  /\ at' = 0
  /\ UNCHANGED <<vars, n, files, f, sample>>

OkRow == {row \in OutRows : Leaf[row.seed] # NoLeaf}

\* @mutant of Sampled: only the test after the batch bounds the sample.
SampledWhole(rows) == sample \o SelectIn(rows, OkRow)

\* `if sample.len() < opts.n`, for each ok row of the batch.
Sampled(rows) ==
  LET all == sample \o SelectIn(rows, OkRow) IN
  IF Len(all) <= n THEN all ELSE SubSeq(all, 1, n)

RowsOf(b) == part[b].rows

ReadRows ==
  /\ vpc = "batch" /\ at < Len(RowsOf(files[f]))
  /\ LET rest == Len(RowsOf(files[f])) - at
         upTo == at + (IF rest < ReadSize THEN rest ELSE ReadSize)
     IN  /\ sample' = Sampled(SubSeq(RowsOf(files[f]), at + 1, upTo))
         /\ at' = upTo
  /\ vpc' = IF Len(sample') >= n THEN "judge" ELSE "batch"
  /\ UNCHANGED <<vars, n, files, f>>

NextFile ==
  /\ vpc = "batch" /\ at = Len(RowsOf(files[f]))
  /\ f' = f + 1 /\ vpc' = "open"
  /\ UNCHANGED <<vars, n, files, at, sample>>

AllRead ==
  /\ vpc = "open" /\ f > Len(files)
  /\ vpc' = "judge"
  /\ UNCHANGED <<vars, n, files, f, at, sample>>

\* direct_resolve of the row's own revision and path.
Direct(row) == Leaf[row.file]

\* Mismatched or unresolved: the content in the row is not the one found.
Discrepant(row) == Direct(row) # Leaf[row.seed]

Judge ==
  /\ vpc = "judge"
  /\ vpc' = IF \E s \in DOMAIN sample : Discrepant(sample[s]) THEN "fail" ELSE "pass"
  /\ UNCHANGED <<vars, n, files, f, at, sample>>

\* nt_scratch, and at the end of some run of it nt_verify, once.
VerifyNext ==
  \/ vpc = "idle" /\ Next /\ UNCHANGED verifying
  \/ CollectParquets \/ OpenFile \/ ReadRows \/ NextFile \/ AllRead \/ Judge
  \/ vpc \in {"pass", "fail", "error"} /\ UNCHANGED allVars

VerifySpec == VerifyInit /\ [][VerifyNext]_allVars

-----------------------------------------------------------------------------

\* Of nt_verify's own state: it reads within the files found and never samples
\* more than --n rows.
VerifyTypeOK ==
  /\ TypeOK
  /\ vpc \in {"idle", "open", "batch", "judge", "pass", "fail", "error"}
  /\ n \in SampleSizes /\ Len(sample) <= n
  /\ files \in Seq(Bins) /\ f \in 1 .. Len(files) + 1

\* The ok rows a complete reading of out_dir would give.
AllRows ==
  LET read[g \in 0 .. Len(files)] ==
        IF g = 0 THEN <<>> ELSE read[g - 1] \o RowsOf(files[g])
  IN  read[Len(files)]

OkRows == SelectIn(AllRows, OkRow)

Sampling == vpc \in {"judge", "pass", "fail"}

\* The rows judged are the first n ok rows of the parts in path order, or all
\* of them when there are fewer, wherever batches and files end: nothing is
\* drawn at random, whatever nt_verify.rs:3 says, and what lies behind the
\* first n ok rows is never judged.
SampleExact ==
  Sampling => sample = SubSeq(OkRows, 1, IF n < Len(OkRows) THEN n ELSE Len(OkRows))

\* A PASS on fewer than n rows has seen all there is: no part is torn, and if
\* emit returned Ok, every row of the file with a content was re-resolved, once.
ShortPassCovers ==
  vpc = "pass" /\ Len(sample) < n =>
    /\ \A b \in Bins : part[b].state # "open"
    /\ pc = "ok" =>
         \A r \in 0 .. nRows - 1 : Leaf[r] # NoLeaf =>
           \E s \in DOMAIN sample :
              \A q \in DOMAIN sample : sample[q].file = r <=> q = s

\* nt_verify never reports a discrepancy: whatever batches the cands file was
\* cut in, whatever failed and was run again, a row in a readable part holds
\* the content of its own revision and path.
NoFalseAlarm == vpc # "fail"
=============================================================================
