---------------------------- MODULE MCBlockRepair ----------------------------
(* Instances of BlockRepair for TLC. *)
EXTENDS BlockRepair, TLC

(* Three issues of one block, the first and the last of one row, as the last
   validation opens them when a crash comes between the first and the others:
   the block is not the known reviewer's yet for the first.  The cells of
   their proposals meet.                                                    *)
OneBlock == <<"b", "b", "b">>
TwoRows == <<{2}, {3}, {2}>>
OneIndependent == <<"independent", "known", "known">>
OneEither == <<{"rule"}, {"rule"}, {"rule", "semantic"}>>
SharedCells == <<{{"y"}}, {{"x"}, {"y"}}, {{"y"}}>>

(* The same in rows of their own, over cells of their own.                  *)
OwnRows == <<{2}, {3}, {4}>>
AllRules == <<{"rule"}, {"rule"}, {"rule"}>>
OwnCells == <<{{"x"}}, {{"y"}}, {{"z"}}>>
=============================================================================
