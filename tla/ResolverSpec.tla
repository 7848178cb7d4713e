---------------------------- MODULE ResolverSpec ----------------------------
(***************************************************************************)
(* What the shared core promises for a candidates file: it fails before it *)
(* has answered any row, or it answers every row, in any order, as         *)
(* nt_verify's direct walk over the whole graph would: revision (in either *)
(* spelling seeds accepts), first directory, then the path by the names on *)
(* the labels.                                                             *)
(***************************************************************************)
EXTENDS LabelledGraph

CONSTANTS
  NodeOfRev,        \* SWHID of a revision -> its node (node_id)
  NormalizeRevId,   \* spelling of a revision -> SWHID
  LabelName         \* properties().label_name: id -> name

VARIABLES
  file, columns,    \* the candidates file: rows, columns it has
  result,           \* rows answered so far -> content, or NoNode
  failed

RevOf(r) ==
  NormalizeRevId[IF "rev_swhid" \in columns THEN file[r].rev_swhid ELSE file[r].id]

FirstDir(n) ==
  LET dirs == {j \in DOMAIN Succ[n] : IsDir(Succ[n][j])} IN
  IF dirs = {} THEN NoNode
  ELSE Succ[n][CHOOSE j \in dirs : \A h \in dirs : j <= h]

\* Labels carry ids: a name is compared through the one id that has it.
FidOfName(c) == IF \E f \in Fid : LabelName[f] = c
                  THEN CHOOSE f \in Fid : LabelName[f] = c ELSE NoNode

Right(r) ==
  LET root == IF RevOf(r) \in DOMAIN NodeOfRev
                THEN FirstDir(NodeOfRev[RevOf(r)]) ELSE NoNode
  IN  IF root = NoNode THEN NoNode
      ELSE DirectResolve(root, [c \in DOMAIN file[r].comps |-> FidOfName(file[r].comps[c])])

Init == result = << >> /\ failed = FALSE

Answer(r) ==
  /\ ~failed /\ r \notin DOMAIN result
  /\ result' = [x \in DOMAIN result \cup {r} |->
                  IF x = r THEN Right(r) ELSE result[x]]
  /\ UNCHANGED <<file, columns, failed>>

Fail ==
  /\ ~failed /\ result = << >>
  /\ failed' = TRUE
  /\ UNCHANGED <<file, columns, result>>

Next == (\E r \in DOMAIN file : Answer(r)) \/ Fail

\* Nothing is left to answer, or nothing ever will be.
Settled == failed \/ DOMAIN result = DOMAIN file

\* What may happen, and what must in the end.
Safe == Init /\ [][Next]_<<file, columns, result, failed>>

Spec == Safe /\ <>Settled
=============================================================================
