----------------------------- MODULE MCPipeline -----------------------------
(* Instances of Pipeline for TLC. *)
EXTENDS Pipeline, TLC

(* Two blocks: a warning that comes back, a finding of a sweep and one of the
   final verification.                                                      *)
TwoBlockOf == [w1 |-> "b1", f1 |-> "b1", s2 |-> "b2"]
TwoSourceOf == [w1 |-> "rule", f1 |-> "final", s2 |-> "sweep"]
TwoFires == 0 :> {"w1"} @@ 1 :> {}

(* The first of the two.                                                    *)
OpenBlockOf == [w1 |-> "b1", f1 |-> "b1"]
OpenSourceOf == [w1 |-> "rule", f1 |-> "final"]

=============================================================================
