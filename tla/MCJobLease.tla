----------------------------- MODULE MCJobLease -----------------------------
(* Two processes over a shared database, as while one deployment replaces
   another.                                                                 *)
EXTENDS JobLease

CONSTANTS p1, p2
=============================================================================
