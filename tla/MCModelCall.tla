---------------------------- MODULE MCModelCall ----------------------------
(* Instances of ModelCall for TLC: a job pinned under one deployment goes on
   under another, which has larger budgets and names another model, or whose
   prompts were edited in place.                                            *)
EXTENDS ModelCall

First == [model |-> "sonnet", calls |-> 2, tokens |-> 2, version |-> 1, prompts |-> 1]
Edited == [model |-> "opus", calls |-> 3, tokens |-> 3, version |-> 1, prompts |-> 1]
Reworded == [model |-> "sonnet", calls |-> 2, tokens |-> 2, version |-> 1, prompts |-> 2]
AllDeployments == {First, Edited, Reworded}
=============================================================================
