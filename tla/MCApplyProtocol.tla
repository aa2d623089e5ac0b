-------------------------- MODULE MCApplyProtocol --------------------------
(* Two cells and two values: a patch may edit one cell or both, and two
   patches may be in flight at once or follow one another on the same cell. *)
EXTENDS ApplyProtocolProofs, TLC

CONSTANTS c1, c2, v1, v2, v3

CONSTANTS p1, p2

(* Patches, which are symmetric, are taken in order: every behaviour this rules
   out has its mirror image with the other patch, fair if it is.            *)
InOrder == patch'[p2] # NoPatch => patch'[p1] # NoPatch

MCSource == [c \in Cells |-> v1]
=============================================================================
