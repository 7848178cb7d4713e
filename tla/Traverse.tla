------------------------------ MODULE Traverse ------------------------------
(***************************************************************************)
(* ntf::traverse, the walk: every row follows its path from its root       *)
(* directory, one DirMap lookup per component, in parallel with the other  *)
(* rows.  The map holds only what the rows together asked for: the         *)
(* directories reach marked from the rows' roots, and the names that occur *)
(* in some row's path (see DirMapSpec, which hydrate implements).          *)
(***************************************************************************)
EXTENDS LabelledGraph

\* u64::MAX, for a revision without root and for a name the archive lacks.
RootMissing == -1
FidMissing == -1

VARIABLES
  root, path,           \* Seeds: row -> root, row -> path_of(row)
  reached, requested,   \* what reach and names derived from them
  table,                \* the answers of the DirMap that hydrate built
  pc,                   \* row -> "walk" or "done"
  i, cur,               \* row -> component reached, directory it is looked up in
  leaf, status          \* row -> the two result vectors

vars == <<root, path, reached, requested, table, pc, i, cur, leaf, status>>
inputs == <<root, path, reached, requested, table>>

Rows == DOMAIN root

\* @mutant of DistinctRoots: node 0 is taken for a missing root.
DistinctRootsNonZero(rt) == {rt[r] : r \in DOMAIN rt} \ {RootMissing, 0}

\* Seeds::distinct_roots
DistinctRoots(rt) == {rt[r] : r \in DOMAIN rt} \ {RootMissing}

\* @mutant of NamesIn: only the file's own name is requested.
FileNameIn(p) == {p[j] : j \in DOMAIN p \cap {Len(p)}} \ {FidMissing}

NamesIn(p) == {p[j] : j \in DOMAIN p} \ {FidMissing}

Map == INSTANCE DirMapSpec WITH failed <- FALSE

\* The phases before have returned.
Inputs ==
  /\ root \in Seq(Directory \cup {RootMissing})
  /\ path \in Seq(Seq(Fid \cup {FidMissing})) /\ Len(path) = Len(root)
  /\ reached = DirsBelow(DistinctRoots(root))
  /\ requested = UNION {NamesIn(path[r]) : r \in Rows}
  /\ table = Map!ExactTable

\* Every row starts at its root.
Start ==
  /\ pc = [r \in Rows |-> "walk"]
  /\ i = [r \in Rows |-> 1]
  /\ cur = root
  /\ leaf = [r \in Rows |-> 0]
  /\ status = [r \in Rows |-> "none"]

Init == Inputs /\ Start

\* map.lookup(cur, fid) for the row's current component
Hit(r) == table[<<cur[r], path[r][i[r]]>>]

\* `return (node, st)`, stored in the row's slots.
Give(r, node, st) ==
  /\ leaf' = [leaf EXCEPT ![r] = node]
  /\ status' = [status EXCEPT ![r] = st]
  /\ pc' = [pc EXCEPT ![r] = "done"]
  /\ UNCHANGED <<inputs, i, cur>>

NoRoot(r) ==
  /\ pc[r] = "walk" /\ root[r] = RootMissing
  /\ Give(r, 0, "NoRoot")

EmptyPath(r) ==
  /\ pc[r] = "walk" /\ root[r] # RootMissing
  /\ path[r] = <<>>
  /\ Give(r, 0, "NotFound")

AtComponent(r) == pc[r] = "walk" /\ root[r] # RootMissing /\ path[r] # <<>>

\* The name is in the archive, and in this directory.
Found(r) == path[r][i[r]] # FidMissing /\ Hit(r) # Map!NoEntry

ComponentAbsent(r) ==
  /\ AtComponent(r) /\ ~Found(r)
  /\ Give(r, 0, "NotFound")

IsLast(r) == i[r] = Len(path[r])

StatusOfLast(ty) ==
  CASE ty = "content"   -> "Ok"
    [] ty = "directory" -> "DirTarget"
    [] ty = "revision"  -> "Submodule"
    [] OTHER            -> "NotFound"

\* @mutant of LeafOfLast: the child is returned whatever the status.
LeafAlways(e) == e.child

LeafOfLast(e) == IF StatusOfLast(e.ty) = "Ok" THEN e.child ELSE 0

FinalComponent(r) ==
  /\ AtComponent(r) /\ Found(r) /\ IsLast(r)
  /\ Give(r, LeafOfLast(Hit(r)), StatusOfLast(Hit(r).ty))

Descend(r) ==
  /\ AtComponent(r) /\ Found(r) /\ ~IsLast(r)
  /\ Hit(r).ty = "directory"
  /\ cur' = [cur EXCEPT ![r] = Hit(r).child]
  /\ i' = [i EXCEPT ![r] = @ + 1]
  /\ UNCHANGED <<inputs, pc, leaf, status>>

\* @mutant of Blocked: a submodule on the way is an ordinary miss.
BlockedNotFound(r) ==
  /\ AtComponent(r) /\ Found(r) /\ ~IsLast(r)
  /\ Hit(r).ty # "directory"
  /\ Give(r, 0, "NotFound")

\* An intermediate component that is no directory.
Blocked(r) ==
  /\ AtComponent(r) /\ Found(r) /\ ~IsLast(r)
  /\ Hit(r).ty # "directory"
  /\ Give(r, 0, IF Hit(r).ty = "revision" THEN "Submodule" ELSE "NotFound")

WalkRow(r) ==
  \/ NoRoot(r) \/ EmptyPath(r) \/ ComponentAbsent(r)
  \/ FinalComponent(r) \/ Descend(r) \/ Blocked(r)

AllWalked == \A r \in Rows : pc[r] = "done"

Joined == AllWalked /\ UNCHANGED vars

Next == (\E r \in Rows : WalkRow(r)) \/ Joined

Spec == Init /\ [][Next]_vars

-----------------------------------------------------------------------------

Statuses == {"Ok", "NotFound", "Submodule", "DirTarget", "NoRoot"}

\* The leaf is 0 unless the status is Ok: `leaf is 0 unless status==Ok`.
TypeOK ==
  /\ Inputs
  /\ pc \in [Rows -> {"walk", "done"}]
  /\ \A r \in Rows :
       /\ i[r] \in 1 .. Len(path[r]) + 1
       /\ cur[r] \in Directory \cup {RootMissing}
       /\ leaf[r] \in Node \cup {0}
       /\ status[r] \in (IF pc[r] = "done" THEN Statuses ELSE {"none"})
       /\ status[r] # "Ok" => leaf[r] = 0

\* No walk leaves the directories reach marked: a miss in the map always means
\* that the directory has no such entry, never that it was not hydrated.
WalksHydrated ==
  \A r \in Rows : cur[r] # RootMissing => cur[r] \in reached

Trail(r) == DirectTrail(root[r], path[r])

\* What nt_verify samples, for every row: the pipeline says Ok, with this
\* content, exactly when the direct walk over the graph finds this content;
\* the rows the map was shared with make no difference.
OkIffDirect ==
  \A r \in Rows : pc[r] = "done" =>
    IF status[r] = "Ok"
      THEN root[r] # RootMissing /\ leaf[r] = DirectResolve(root[r], path[r])
      ELSE root[r] = RootMissing \/ DirectResolve(root[r], path[r]) = NoNode

\* The finer statuses: the whole path names a directory; the first node on the
\* way that is no directory is a revision.
StatusFaithful ==
  \A r \in Rows : pc[r] = "done" /\ root[r] # RootMissing =>
    /\ status[r] = "DirTarget" <=>
         path[r] # <<>> /\ Trail(r)[Len(path[r])] \in Directory
    /\ status[r] = "Submodule" <=>
         \E m \in 1 .. Len(path[r]) :
            Trail(r)[m] \in {n \in Node : NodeType[n] = "revision"}
=============================================================================
