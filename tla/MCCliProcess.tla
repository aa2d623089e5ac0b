---------------------------- MODULE MCCliProcess ----------------------------
(* Instances of CliProcess for TLC: a request and an answer larger than the
   pipes, output beyond the cap, and texts with the signals of two causes.  *)
EXTENDS CliProcess

Texts == {{}, {"usage"}, {"usage", "auth_refresh"}, {"no_output", "usage"}}
=============================================================================
