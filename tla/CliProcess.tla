----------------------------- MODULE CliProcess -----------------------------
(***************************************************************************)
(* One physical model call: llm.claude_cli.  A fresh CLI process with its  *)
(* own session, a thread that feeds its stdin, two that read its pipes up  *)
(* to a cap, and the caller that waits for it with a time-out; then what   *)
(* its exit is taken for (_interpret, classify_cli_failure,                *)
(* classify_envelope_failure).                                             *)
(*                                                                         *)
(* Bytes are counted in pieces of a chunk.  The child is anything: it      *)
(* reads, writes, hangs, exits, ignores SIGTERM, and starts a helper that  *)
(* inherits its pipes and its group.  A read of a pipe is buffered: it     *)
(* returns a whole chunk, or what is left when the pipe is closed.         *)
(* A join times out only on a thread that is blocked: what this process    *)
(* does itself takes less than the five seconds.                           *)
(***************************************************************************)
EXTENDS Naturals, FiniteSets

CONSTANTS
    Payload,     \* pieces of the request
    PipeSize,    \* pieces a pipe holds
    Chunk,       \* _CHUNK_BYTES
    Cap,         \* MAX_OUTPUT_BYTES
    MaxOutput,   \* bound: pieces the child writes to one pipe
    Signals      \* bound: the sets of signals an exit's text may carry

Pipes == {"out", "err"}
Threads == {"main"} \cup Pipes        \* those that may end the group

(* _AUTH_CONFIGURATION_SIGNALS and its siblings, and the envelope's subtypes. *)
Signal == {"auth", "auth_refresh", "usage", "config", "refusal", "unavailable", "max_turns", "no_output"}

ASSUME CliAssumption ==
    /\ Payload \in Nat /\ PipeSize \in Nat \ {0} /\ Chunk \in Nat \ {0} /\ Cap \in Nat /\ MaxOutput \in Nat
    /\ Signals \subseteq SUBSET Signal

VARIABLES
    leader,      \* the CLI: "alive", "dead", "reaped" (somebody waited for it)
    helper,      \* a process it started: "none", "alive", "dead"
    deaf,        \* who ignores SIGTERM
    exit,        \* how the leader ended: "none", "killed", "failed" (non-zero),
                 \*   or zero with no JSON ("garbled"), with an envelope that
                 \*   reports an error ("error") or none ("ok"); and the
                 \*   signals in what it said
    stdin,       \* pieces in the pipe to it
    pipe,        \* pieces in each pipe from it
    wrote,       \* pieces written to each
    noise,       \* some of standard output is the helper's
    unsent,      \* pieces _write_stdin still has
    reader,      \* the thread of each pipe: "reading", "ending" (the group),
                 \*   "done"
    buffer,      \* pieces taken from a pipe that no read has returned yet
    total, kept, \* _Capture.total, _Capture.chunks
    overflowed,  \* the event
    ending,      \* _terminate_group, per thread: "no", "term", "wait", "kill",
                 \*   "over"
    main,        \* the caller: "waiting", "ending", "joining", "returned"
    outcome      \* "none", "timeout", "completed", or what it is taken for

child == <<leader, helper, deaf, exit>>
pipes == <<stdin, pipe, wrote, noise>>
threads == <<unsent, reader, buffer, total, kept, overflowed, ending>>
caller == <<main, outcome>>
cliVars == <<child, pipes, threads, caller>>

NoExit == [how |-> "none", signals |-> {}]

CliInit ==
    /\ leader = "alive" /\ helper = "none" /\ deaf \in SUBSET {"leader", "helper"}
    /\ exit = NoExit
    /\ stdin = 0 /\ pipe = [p \in Pipes |-> 0] /\ wrote = [p \in Pipes |-> 0] /\ noise = FALSE
    /\ unsent = Payload /\ reader = [p \in Pipes |-> "reading"]
    /\ buffer = [p \in Pipes |-> 0] /\ total = [p \in Pipes |-> 0] /\ kept = [p \in Pipes |-> 0]
    /\ overflowed = FALSE /\ ending = [t \in Threads |-> "no"]
    /\ main = "waiting" /\ outcome = "none"

(* The pipes are open as long as somebody in the group has them.            *)
Holders == {h \in {leader, helper} : h = "alive"}
Closed == Holders = {}

-----------------------------------------------------------------------------
(* The child, of which nothing is assumed but that what it says is written. *)
ChildReads ==
    /\ ~Closed /\ stdin > 0
    /\ stdin' = stdin - 1
    /\ UNCHANGED <<child, pipe, wrote, noise, threads, caller>>

ChildWrites(p, who) ==
    /\ who = "alive" /\ pipe[p] < PipeSize /\ wrote[p] < MaxOutput /\ reader[p] # "done"
    /\ pipe' = [pipe EXCEPT ![p] = @ + 1] /\ wrote' = [wrote EXCEPT ![p] = @ + 1]
    /\ UNCHANGED <<child, stdin, threads, caller>>

LeaderWrites(p) == ChildWrites(p, leader) /\ UNCHANGED noise
HelperWrites(p) == ChildWrites(p, helper) /\ noise' = (noise \/ p = "out")

ChildForks ==
    /\ leader = "alive" /\ helper = "none"
    /\ helper' = "alive"
    /\ UNCHANGED <<leader, deaf, exit, pipes, threads, caller>>

ChildExits(how, signals) ==
    /\ leader = "alive"
    /\ how \in {"ok", "error"} => wrote["out"] > 0
    /\ signals # {} => \E p \in Pipes : wrote[p] > 0
    /\ leader' = "dead" /\ exit' = [how |-> how, signals |-> signals]
    /\ UNCHANGED <<helper, deaf, pipes, threads, caller>>

HelperExits ==
    /\ helper = "alive" /\ helper' = "dead"
    /\ UNCHANGED <<leader, deaf, exit, pipes, threads, caller>>

-----------------------------------------------------------------------------
(* _write_stdin: a pipe nobody has open ends it.                            *)
WriteStdin ==
    /\ unsent > 0
    /\ \/ ~Closed /\ stdin < PipeSize /\ stdin' = stdin + 1 /\ unsent' = unsent - 1
       \/ Closed /\ unsent' = 0 /\ UNCHANGED stdin
    /\ UNCHANGED <<child, pipe, wrote, noise, reader, buffer, total, kept, overflowed, ending, caller>>

(* stream.read(_CHUNK_BYTES) waits for a whole chunk or the end of the pipe. *)
Fill(p) ==
    /\ reader[p] = "reading" /\ pipe[p] > 0 /\ buffer[p] < Chunk
    /\ pipe' = [pipe EXCEPT ![p] = @ - 1] /\ buffer' = [buffer EXCEPT ![p] = @ + 1]
    /\ UNCHANGED <<child, stdin, wrote, noise, unsent, reader, total, kept, overflowed, ending, caller>>

AtEnd(p) == Closed /\ pipe[p] = 0
ChunkRead(p) ==
    /\ reader[p] = "reading"
    /\ buffer[p] = Chunk \/ (AtEnd(p) /\ buffer[p] > 0)
    /\ buffer' = [buffer EXCEPT ![p] = 0] /\ total' = [total EXCEPT ![p] = @ + buffer[p]]
    /\ UNCHANGED <<child, pipes, unsent, caller>>

(* Mutant: what goes past the cap is dropped and reading goes on.           *)
ReadClipped(p) ==
    /\ ChunkRead(p)
    /\ kept' = [kept EXCEPT ![p] = IF @ + buffer[p] <= Cap THEN @ + buffer[p] ELSE @]
    /\ UNCHANGED <<reader, overflowed, ending>>

(* _read_capped; on_overflow sets the event and ends the group.             *)
Read(p) ==
    /\ ChunkRead(p)
    /\ \/ /\ total[p] + buffer[p] > Cap
          /\ overflowed' = TRUE /\ reader' = [reader EXCEPT ![p] = "ending"]
          /\ ending' = [ending EXCEPT ![p] = "term"] /\ UNCHANGED kept
       \/ /\ total[p] + buffer[p] <= Cap
          /\ kept' = [kept EXCEPT ![p] = @ + buffer[p]]
          /\ UNCHANGED <<reader, overflowed, ending>>

ReaderEnds(p) ==
    /\ reader' = [reader EXCEPT ![p] = "done"]
    /\ UNCHANGED <<child, pipes, unsent, buffer, total, kept, overflowed, ending, caller>>

EndOfFile(p) == reader[p] = "reading" /\ AtEnd(p) /\ buffer[p] = 0 /\ ReaderEnds(p)
ReaderStops(p) == reader[p] = "ending" /\ ending[p] = "over" /\ ReaderEnds(p)

-----------------------------------------------------------------------------
(* _terminate_group.  A leader that was waited for has no pid to ask the
   group of.                                                                *)
Dies(who, hears) == IF who = "alive" /\ hears THEN "dead" ELSE who
Killed == exit' = IF leader = "alive" /\ leader' = "dead"
                  THEN [how |-> "killed", signals |-> {}] ELSE exit

Ending(t, s) == ending' = [ending EXCEPT ![t] = s]
                /\ UNCHANGED <<deaf, pipes, unsent, reader, buffer, total, kept, overflowed, caller>>

SendTerm(t) ==
    /\ ending[t] = "term"
    /\ IF leader = "reaped"
       THEN Ending(t, "over") /\ UNCHANGED <<leader, helper, exit>>
       ELSE /\ leader' = Dies(leader, "leader" \notin deaf)
            /\ helper' = Dies(helper, "helper" \notin deaf)
            /\ Killed /\ Ending(t, "wait")

(* Whoever waits for a dead leader reaps it.                                *)
Reap(t) ==
    /\ ending[t] \in {"wait", "kill"} /\ leader # "alive"
    /\ ending[t] = "kill" => leader = "reaped"
    /\ leader' = "reaped"
    /\ Ending(t, "over") /\ UNCHANGED <<helper, exit>>

(* Mutant: SIGTERM has to do.                                               *)
NoKill(t) ==
    /\ ending[t] = "wait" /\ leader = "alive"
    /\ Ending(t, "over") /\ UNCHANGED <<leader, helper, exit>>

(* Three seconds later.                                                     *)
WaitLapses(t) ==
    /\ ending[t] = "wait" /\ leader = "alive"
    /\ Ending(t, "kill") /\ UNCHANGED <<leader, helper, exit>>

SendKill(t) ==
    /\ ending[t] = "kill" /\ leader # "reaped"
    /\ leader' = Dies(leader, TRUE) /\ helper' = Dies(helper, TRUE)
    /\ Killed /\ Ending(t, "wait")

-----------------------------------------------------------------------------
(* _run_process: wait, join, decide.                                        *)
LeaderWaited ==
    /\ main = "waiting" /\ leader # "alive"
    /\ leader' = "reaped" /\ main' = "joining"
    /\ UNCHANGED <<helper, deaf, exit, pipes, threads, outcome>>

TimeoutExpires ==
    /\ main = "waiting" /\ leader = "alive"
    /\ main' = "ending" /\ outcome' = "timeout"
    /\ ending' = [ending EXCEPT !["main"] = "term"]
    /\ UNCHANGED <<child, pipes, unsent, reader, buffer, total, kept, overflowed>>

GroupTerminated ==
    /\ main = "ending" /\ ending["main"] = "over"
    /\ main' = "joining"
    /\ UNCHANGED <<child, pipes, threads, outcome>>

Blocked(p) == \/ reader[p] = "reading" /\ buffer[p] < Chunk /\ pipe[p] = 0 /\ ~Closed
              \/ reader[p] = "ending" /\ ending[p] = "wait" /\ leader = "alive"

(* Mutant: the joins have no time-out.                                      *)
JoinedForGood == unsent = 0 /\ \A p \in Pipes : reader[p] = "done"

(* Each join gives up on a thread that is blocked.                           *)
Joined ==
    /\ unsent = 0 \/ (stdin = PipeSize /\ ~Closed)
    /\ \A p \in Pipes : reader[p] = "done" \/ Blocked(p)

(* classify_cli_failure, first match first.                                 *)
UsageLast(S) ==
    CASE "auth" \in S -> "config"
      [] "auth" \notin S /\ "auth_refresh" \in S -> "transient"
      [] S \cap {"auth", "auth_refresh"} = {} /\ "config" \in S -> "config"
      [] S \cap {"auth", "auth_refresh", "config"} = {} /\ "refusal" \in S -> "refused"
      [] S \cap {"auth", "auth_refresh", "config", "refusal"} = {} /\ "usage" \in S -> "usage_limited"
      [] OTHER -> "transient"
FailureOf(S) ==
    CASE "auth" \in S -> "config"
      [] "auth" \notin S /\ "usage" \in S -> "usage_limited"
      [] S \cap {"auth", "usage"} = {} /\ "auth_refresh" \in S -> "transient"
      [] S \cap {"auth", "usage", "auth_refresh"} = {} /\ "config" \in S -> "config"
      [] S \cap {"auth", "usage", "auth_refresh", "config"} = {} /\ "refusal" \in S -> "refused"
      [] OTHER -> "transient"

(* classify_envelope_failure: usage before authentication, no configuration. *)
EnvelopeFailureOf(S) ==
    CASE "usage" \in S -> "usage_limited"
      [] "usage" \notin S /\ "auth" \in S -> "config"
      [] S \cap {"usage", "auth"} = {} /\ "auth_refresh" \in S -> "transient"
      [] S \cap {"usage", "auth", "auth_refresh"} = {} /\ "refusal" \in S -> "refused"
      [] OTHER -> "transient"

(* _interpret.  The text is what was kept: an envelope cut short is no JSON,
   one with a helper's output in it hardly ever, and of another text any
   signal may be missing.  An envelope that reports no error is an answer
   unless there is nothing in it, whatever else it says.  A killed process is
   interpreted nowhere: the outcome is known by then.                       *)
Kept(S) == IF kept = wrote THEN {S} ELSE SUBSET S
Whole == kept["out"] > 0 /\ kept["out"] = wrote["out"]
Envelope == IF exit.how = "error" THEN EnvelopeFailureOf(exit.signals)
            ELSE IF "no_output" \in exit.signals THEN "no_output" ELSE "completed"
Interpreted ==
    CASE exit.how \in {"killed", "failed"} -> {FailureOf(S) : S \in Kept(exit.signals)}
      [] exit.how \in {"ok", "error"} /\ Whole /\ ~noise -> {Envelope}
      [] exit.how \in {"ok", "error"} /\ noise -> {Envelope, "malformed"}
      [] OTHER -> {"malformed"}

Return ==
    /\ main = "joining" /\ Joined
    /\ main' = "returned"
    /\ outcome' \in CASE outcome = "timeout" -> {"timeout"}
                      [] outcome # "timeout" /\ overflowed -> {"too_large"}
                      [] OTHER -> Interpreted
    /\ UNCHANGED <<child, pipes, threads>>

-----------------------------------------------------------------------------
ChildStep ==
    \/ ChildReads \/ ChildForks \/ HelperExits
    \/ \E p \in Pipes : LeaderWrites(p) \/ HelperWrites(p)
    \/ \E how \in {"ok", "error", "garbled", "failed"}, S \in Signals : ChildExits(how, S)

ReaderStep(p) == Fill(p) \/ Read(p) \/ EndOfFile(p) \/ ReaderStops(p)
EndingStep(t) == SendTerm(t) \/ Reap(t) \/ WaitLapses(t) \/ SendKill(t)
MainStep == LeaderWaited \/ TimeoutExpires \/ GroupTerminated \/ Return

CliNext ==
    \/ ChildStep \/ WriteStdin \/ MainStep
    \/ \E p \in Pipes : ReaderStep(p)
    \/ \E t \in Threads : EndingStep(t)

CliSpec == CliInit /\ [][CliNext]_cliVars

(* The four threads run and the clock goes on; the child need do nothing.   *)
CliFairSpec ==
    /\ CliSpec
    /\ WF_cliVars(WriteStdin) /\ WF_cliVars(MainStep)
    /\ \A p \in Pipes : WF_cliVars(ReaderStep(p))
    /\ \A t \in Threads : WF_cliVars(EndingStep(t))
-----------------------------------------------------------------------------
CliTypeOK ==
    /\ leader \in {"alive", "dead", "reaped"} /\ helper \in {"none", "alive", "dead"}
    /\ deaf \subseteq {"leader", "helper"}
    /\ exit.how \in {"none", "ok", "error", "garbled", "failed", "killed"} /\ exit.signals \subseteq Signal
    /\ stdin \in 0..PipeSize /\ pipe \in [Pipes -> 0..PipeSize] /\ wrote \in [Pipes -> 0..MaxOutput]
    /\ noise \in BOOLEAN
    /\ unsent \in 0..Payload /\ reader \in [Pipes -> {"reading", "ending", "done"}]
    /\ buffer \in [Pipes -> 0..Chunk] /\ total \in [Pipes -> 0..MaxOutput] /\ kept \in [Pipes -> 0..Cap]
    /\ overflowed \in BOOLEAN /\ ending \in [Threads -> {"no", "term", "wait", "kill", "over"}]
    /\ main \in {"waiting", "ending", "joining", "returned"}

(* Whatever the child and its helper do, the call is over at some point: a
   worker does not hold its lease in here for ever.                         *)
CallReturns == <>(main = "returned")

(* The CLI is dead and waited for when the call returns: on a time-out, and
   when a reader ends the group at the same moment as the caller.           *)
LeaderGone == main = "returned" => leader = "reaped"

(* Nothing of a text that was written is missing when the call takes it for
   what the CLI said, unless a helper still has the pipes: then the last read
   waits for more, the join gives up on it, and less than a chunk is lost.
   Beyond the cap there is no text at all.                                  *)
Returns(outcomes) == main # "returned" /\ main' = "returned" /\ outcome' \in outcomes
CutShort(p) == helper = "alive" /\ wrote[p] < kept[p] + Chunk
AnswerIsWhole ==
    [][main # "returned" /\ main' = "returned" /\ outcome' \notin {"timeout", "too_large"} =>
          \A p \in Pipes : kept[p] = wrote[p] \/ CutShort(p)]_cliVars

(* claude_cli.py: a spent allowance "also looks like an ordinary failure" and
   needs the opposite treatment from a retry.  An exit or an envelope that
   reports one is retried only when the time-out came first, or a helper kept
   part of the text from being read or wrote into it.                       *)
Retryable == {"transient", "timeout", "malformed", "no_output"}
LimitIsFinal ==
    [][Returns(Retryable) /\ exit.how \in {"failed", "error"} /\ "usage" \in exit.signals =>
          outcome' = "timeout" \/ helper = "alive" \/ noise]_cliVars

(* claude_cli.py:246: one killpg ends all of it.                            *)
GroupEnded == outcome \in {"timeout", "too_large"} /\ main = "returned" => helper # "alive"
=============================================================================
