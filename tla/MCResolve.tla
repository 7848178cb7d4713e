----------------------------- MODULE MCResolve ------------------------------
(***************************************************************************)
(* Origin 0 ("a") has snapshot 2: a release 4 of revision 5, which merges  *)
(* 6 and 9 (6 has parents 9 and 13). Origin 1 ("b") has snapshot 3 with    *)
(* three branches: 7, 9 and 12, a merge of 5 and 6. 9 and 13 have no root  *)
(* directory: of the revisions of their prefixes, 9 is the best in "b", 13 *)
(* the worst anywhere. The tree 8 of "a" holds a submodule pinned at 7.    *)
(* "c" is not archived, "d" was never visited. Two rows with every repo    *)
(* and with commit ids that are prefixes of the right length, too short,   *)
(* or full hashes, alone or mixed, or as long as a hash with a character   *)
(* that is no hex digit.                                                   *)
(***************************************************************************)
EXTENDS Resolve

MCNodeType ==
  [n \in 0 .. 13 |->
     CASE n \in {0, 1, 11} -> "origin" [] n \in {2, 3} -> "snapshot"
       [] n = 4 -> "release" [] n \in {5, 6, 7, 9, 12, 13} -> "revision"
       [] n \in {8, 10} -> "directory"]

MCSucc ==
  [n \in 0 .. 13 |->
     CASE n = 0 -> <<2>> [] n = 1 -> <<3>> [] n = 2 -> <<4>> [] n = 3 -> <<7, 9, 12>>
       [] n = 4 -> <<5>> [] n = 5 -> <<6, 8, 9>> [] n = 6 -> <<8, 9, 13>>
       [] n = 7 -> <<10>> [] n = 8 -> <<7>> [] n = 12 -> <<5, 6, 10>>
       [] OTHER -> <<>>]

MCHash ==
  [r \in {5, 6, 7, 9, 12, 13} |->
     CASE r = 5 -> <<2, 1>> [] r = 6 -> <<2, 3>> [] r = 7 -> <<1, 4>>
       [] r = 9 -> <<3, 2>> [] r = 12 -> <<3, 1>>
       [] r = 13 -> <<2, 0>>]

MCRepos == {"a", "b", "c", "d"}

MCOriginOf ==
  [r \in MCRepos |-> CASE r = "a" -> 0 [] r = "b" -> 1 [] r = "c" -> NoNode
                       [] r = "d" -> 11]

MCCommitIds == {<<>>, <<1>>, <<2>>, <<3>>, <<2, 3>>, <<3, 2>>, <<2, 20>>}

MCShardOf == [k \in {<<1>>, <<2>>, <<3>>} |-> IF k = <<3>> THEN 1 ELSE 0]

\* Whole, cut between two revisions of one prefix, and cut twice so.
MCCuts == {{}, {6}, {6, 10}}

\* A prefix of the right length and a full hash.
MCMixedIds == {<<1>>, <<2, 3>>}
=============================================================================
