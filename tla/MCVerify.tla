------------------------------ MODULE MCVerify ------------------------------
(***************************************************************************)
(* A file of four rows that the reader cuts in several ways, an empty      *)
(* batch among them, for two bins of three rows and one row; seeds of the  *)
(* right length, too short and too long; a flush every second row; two     *)
(* runs over an out_dir that may hold parts of an earlier input.  Then     *)
(* nt_verify, in batches of two rows: one row is not ok, the others have   *)
(* contents of their own, and the sample is smaller than the first part,   *)
(* between, or larger than all parts together.                             *)
(***************************************************************************)
EXTENDS Verify

MCFileBatches == {<<4>>, <<2, 2>>, <<1, 3>>, <<3, 0, 1>>}

MCBinOf == [r \in 0 .. 4 |-> IF r = 2 THEN "b" ELSE "a"]

MCLeaf == [r \in -1 .. 4 |-> <<"old", "u", "v", "x", "none", "z">>[r + 2]]

MCPathOrder == <<"a", "b", "c">>
=============================================================================
