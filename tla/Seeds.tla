------------------------------- MODULE Seeds --------------------------------
(***************************************************************************)
(* ntf::seeds: one pass over the input rows in batches.  The rows of a     *)
(* batch are resolved in parallel: the revision's root directory through a *)
(* memo shared by the threads, the path components through component_fid,  *)
(* the bin by parsing.  Each row fills its own slot; the slots of a batch  *)
(* are then appended in row order to the four vectors of Seeds.            *)
(***************************************************************************)
EXTENDS SwhGraph, FiniteSets

CONSTANTS
  NodeOfRev,       \* normalized SWHID -> revision node (node_id)
  NormalizeRevId,  \* spelling of a revision -> SWHID
  BatchRows,       \* BATCH_ROWS (300_000)
  Threads          \* rows in flight at once

RootMissing == -1
FidMissing == -1
MaxBin == 65535

SeedsAssumption ==
  /\ BatchRows \in Nat \ {0} /\ Threads \in Nat \ {0}
  /\ \A k \in DOMAIN NodeOfRev :
       NodeOfRev[k] \in Node /\ NodeType[NodeOfRev[k]] = "revision"

VARIABLES
  file, columns,   \* the candidates: rows [rev_swhid, id, comps, bin], columns
  component_fid,   \* names.component_fid: name -> id
  pc,          \* "open", "read", "resolve", "done" or "failed"
  batch,       \* rows of the current batch
  phase,       \* row of the batch -> "idle", "missed" or "filled"
  slot,        \* row of the batch -> RowOut
  memo,        \* root_memo
  seeds        \* the vectors root, path_off, path_fids, bin

vars == <<file, columns, component_fid, pc, batch, phase, slot, memo, seeds>>
inputs == <<file, columns, component_fid>>

Required == {"repo", "commit_id", "rel_path", "bin"}

Init ==
  /\ pc = "open"
  /\ batch = {} /\ phase = << >> /\ slot = << >>
  /\ memo = << >>
  /\ seeds = [root |-> <<>>, path_off |-> <<0>>, path_fids |-> <<>>, bin |-> <<>>]

Usable == Required \subseteq columns /\ columns \cap {"rev_swhid", "id"} # {}

OpenFile ==
  /\ pc = "open"
  /\ pc' = IF Usable THEN "read" ELSE "failed"
  /\ UNCHANGED <<inputs, batch, phase, slot, memo, seeds>>

\* "Prefer rev_swhid; fall back to id"; memoized under the normalized string.
Key(r) ==
  NormalizeRevId[IF "rev_swhid" \in columns THEN file[r].rev_swhid ELSE file[r].id]

\* `for succ in graph.successors(rev_node)`, up to the first directory
FirstDirectory(n) ==
  IF \A j \in DOMAIN Succ[n] : ~IsDir(Succ[n][j]) THEN RootMissing
  ELSE Succ[n][CHOOSE j \in DOMAIN Succ[n] :
                 IsDir(Succ[n][j]) /\ \A h \in 1 .. j - 1 : ~IsDir(Succ[n][h])]

\* The closure of resolve_root.
RootOf(k) == IF k \in DOMAIN NodeOfRev THEN FirstDirectory(NodeOfRev[k]) ELSE RootMissing

FidOf(c) == IF c \in DOMAIN component_fid THEN component_fid[c] ELSE FidMissing

\* parse::<u16>(); a text that is no number stands outside the range
ParseBin(text) == IF text \in 0 .. MaxBin THEN text ELSE 0

RowOut(r, root) ==
  [root |-> root,
   fids |-> [c \in DOMAIN file[r].comps |-> FidOf(file[r].comps[c])],
   bin |-> ParseBin(file[r].bin)]

ReadRows == Len(seeds.root)

ReadBatch ==
  /\ pc = "read" /\ ReadRows < Len(file)
  /\ batch' = {r \in DOMAIN file : r > ReadRows /\ r <= ReadRows + BatchRows}
  /\ phase' = [r \in batch' |-> "idle"]
  /\ slot' = << >>
  /\ pc' = "resolve"
  /\ UNCHANGED <<inputs, memo, seeds>>

\* `let batch = batch?`
ReadError ==
  /\ pc = "read" /\ ReadRows < Len(file)
  /\ pc' = "failed"
  /\ UNCHANGED <<inputs, batch, phase, slot, memo, seeds>>

\* `root_memo.insert(key, root)`, and the same for the slots
Insert(f, k, v) == [x \in DOMAIN f \cup {k} |-> IF x = k THEN v ELSE f[x]]

Fill(r, root) ==
  /\ slot' = Insert(slot, r, RowOut(r, root))
  /\ phase' = [phase EXCEPT ![r] = "filled"]

InFlight == {r \in batch : phase[r] = "missed"}

MemoHit(r) ==
  /\ pc = "resolve" /\ phase[r] = "idle"
  /\ Key(r) \in DOMAIN memo
  /\ Fill(r, memo[Key(r)])
  /\ UNCHANGED <<inputs, pc, batch, memo, seeds>>

\* @mutant of Missed: a missing root stands in the memo until it is resolved.
MissedPlaceholder(r) == memo' = Insert(memo, Key(r), RootMissing)

\* Nothing is stored between `memo.get` and `memo.insert`.
Missed(r) == UNCHANGED memo

\* No entry yet: the graph is read outside any lock, so that several threads
\* may be resolving one revision.
MemoMiss(r) ==
  /\ pc = "resolve" /\ phase[r] = "idle"
  /\ Cardinality(InFlight) < Threads
  /\ Key(r) \notin DOMAIN memo
  /\ phase' = [phase EXCEPT ![r] = "missed"]
  /\ Missed(r)
  /\ UNCHANGED <<inputs, pc, batch, slot, seeds>>

MemoInsert(r) ==
  /\ pc = "resolve" /\ phase[r] = "missed"
  /\ memo' = Insert(memo, Key(r), RootOf(Key(r)))
  /\ Fill(r, RootOf(Key(r)))
  /\ UNCHANGED <<inputs, pc, batch, seeds>>

\* One turn of `for r in rows`.
Push(s, row) ==
  [root |-> Append(s.root, row.root),
   path_off |-> Append(s.path_off, Len(s.path_fids \o row.fids)),
   path_fids |-> s.path_fids \o row.fids,
   bin |-> Append(s.bin, row.bin)]

\* The whole batch is collected, then appended in row order.
AppendBatch ==
  /\ pc = "resolve"
  /\ \A r \in batch : phase[r] = "filled"
  /\ LET first == ReadRows
         grown[m \in 0 .. Cardinality(batch)] ==
           IF m = 0 THEN seeds ELSE Push(grown[m - 1], slot[first + m])
     IN  seeds' = grown[Cardinality(batch)]
  /\ pc' = "read"
  /\ batch' = {} /\ phase' = << >> /\ slot' = << >>
  /\ UNCHANGED <<inputs, memo>>

EndOfFile ==
  /\ pc = "read" /\ ReadRows = Len(file)
  /\ pc' = "done"
  /\ UNCHANGED <<inputs, batch, phase, slot, memo, seeds>>

Next ==
  \/ OpenFile \/ ReadBatch \/ ReadError \/ AppendBatch \/ EndOfFile
  \/ \E r \in batch : MemoHit(r) \/ MemoMiss(r) \/ MemoInsert(r)

\* Seeds::path_of
PathOf(r) == SubSeq(seeds.path_fids, seeds.path_off[r] + 1, seeds.path_off[r + 1])

-----------------------------------------------------------------------------

Root == Directory \cup {RootMissing}

TypeOK ==
  /\ pc \in {"open", "read", "resolve", "done", "failed"}
  /\ batch \subseteq DOMAIN file
  /\ phase \in [batch -> {"idle", "missed", "filled"}]
  /\ DOMAIN slot = {r \in batch : phase[r] = "filled"}
  /\ \A k \in DOMAIN memo : memo[k] \in Root
  /\ seeds.root \in Seq(Root) /\ seeds.bin \in Seq(0 .. MaxBin)
  /\ seeds.path_fids \in Seq(Nat \cup {FidMissing})
  /\ seeds.path_off \in Seq(0 .. Len(seeds.path_fids))

\* Whatever the order in which the threads fill the slots, the four vectors
\* describe the rows of the file one by one, and all of them when build_seeds
\* returns Ok: traverse and emit address them by the row number alone.
SeedsAligned ==
  /\ Len(seeds.bin) = ReadRows /\ Len(seeds.path_off) = ReadRows + 1
  /\ \A r \in 1 .. ReadRows :
       [root |-> seeds.root[r], fids |-> PathOf(r), bin |-> seeds.bin[r]] =
         RowOut(r, RootOf(Key(r)))
  /\ pc = "done" => ReadRows = Len(file)
=============================================================================
