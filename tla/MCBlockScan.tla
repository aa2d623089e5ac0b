---------------------------- MODULE MCBlockScan -----------------------------
(* Instance of BlockScan for TLC: a changed block and an unchanged one, each
   with one graded row, that fit one call together.                         *)
EXTENDS BlockScan

ThePlace == [b \in {"b1", "b2"} |-> IF b = "b1" THEN 1 ELSE 2]
TheGraded == [b \in {"b1", "b2"} |-> {ThePlace[b]}]
TheCost == [b \in {"b1", "b2"} |-> 1]
=============================================================================
