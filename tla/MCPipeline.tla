----------------------------- MODULE MCPipeline -----------------------------
(***************************************************************************)
(* Two directories, a content and three revisions: one whose first         *)
(* successor is its parent, one plain, one without a root.  Five label     *)
(* names in chunks of two, the last one cut.  Files of three rows in       *)
(* batches of two, with two spellings of one revision, names the archive   *)
(* lacks, an empty path, a submodule on the way and bins that are no u16.  *)
(***************************************************************************)
EXTENDS Pipeline, TLC

\* 0, 1 directories; 2 content; 3, 4, 5 revisions
MCNodeType ==
  [n \in 0 .. 5 |->
     IF n < 2 THEN "directory" ELSE IF n = 2 THEN "content" ELSE "revision"]

E(f, c) == [dirEntry |-> TRUE, fid |-> f, child |-> c]

MCLabels ==
  [n \in 0 .. 5 |->
     IF n = 0 THEN <<E(0, 1), E(1, 2), E(3, 4)>>
     ELSE IF n = 1 THEN <<E(1, 2), E(4, 2)>> ELSE <<>>]

MCSucc ==
  [n \in 0 .. 5 |->
     CASE n = 0 -> <<1, 2, 4>> [] n = 1 -> <<2, 2>> [] n = 3 -> <<4, 0>>
       [] n = 4 -> <<1>> [] OTHER -> <<>>]

MCName == {"src", "lib", "doc", "sub", "etc", "gone"}

MCLabelName == [f \in 0 .. 4 |-> <<"src", "lib", "doc", "sub", "etc">>[f + 1]]

MCNodeOfRev == "swh:a" :> 3 @@ "swh:b" :> 4 @@ "swh:c" :> 5

MCNormalizeRevId ==
  [s \in {"swh:a", "a", "swh:b", "swh:c", "absent"} |->
     IF s = "a" THEN "swh:a" ELSE s]

Row(rev, id, comps, bin) ==
  [rev_swhid |-> rev, id |-> id, comps |-> comps, bin |-> bin]

R1 == Row("swh:a", "swh:b", <<"src", "gone">>, 50)
R2 == Row("a", "absent", <<"lib">>, 65536)
R3 == Row("swh:b", "swh:c", <<"etc">>, 3)
R4 == Row("swh:c", "a", <<"src", "lib">>, -1)
R5 == Row("a", "swh:a", <<"sub", "lib">>, 127)
R6 == Row("absent", "swh:b", <<>>, 127)

MCFiles ==
  {<<>>} \cup {<<x, y, z>> : x, y, z \in {R1, R2, R3, R4, R5, R6}}

All == {"repo", "commit_id", "rel_path", "rev_swhid", "id", "bin"}

MCColumnSets ==
  {All, All \ {"rev_swhid"}, All \ {"bin"}, All \ {"rel_path"},
   All \ {"rev_swhid", "id"}}
=============================================================================
