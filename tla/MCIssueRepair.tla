--------------------------- MODULE MCIssueRepair ---------------------------
(* One issue, three values in its cell, so that a patch may find the cell as
   it was, as it wants it, or neither.                                      *)
EXTENDS IssueRepair, TLC

CONSTANTS v1, v2, v3

(* The two values that were not submitted are not told from each other, so one
   of them comes first.  Rows of patches stay and there is one sibling's edit,
   so what was seen stays seen: every behaviour this rules out has its mirror
   image with the other value, fair if it is.                               *)
Seen(v) == book = v \/ \E i \in DOMAIN patches : v \in {patches[i].before, patches[i].after}
InOrder == Seen(v3)' => Seen(v2)'
=============================================================================
