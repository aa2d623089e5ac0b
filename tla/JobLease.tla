------------------------------ MODULE JobLease ------------------------------
(***************************************************************************)
(* Who works on a job: workers.JobRunner, LeaseKeeper, JobPoller and       *)
(* purge_expired_jobs over the lease columns of persistence.jobs.  Several *)
(* processes share one database; each runs at most one worker per job, on  *)
(* a pool of Threads threads.                                              *)
(*                                                                         *)
(* A job's pipeline state is abstracted to whether it can be worked on.  A *)
(* run_epoch is only ever compared with the row's own, so a worker keeps   *)
(* whether the epoch it pinned is still the row's.  A step of the council  *)
(* is abstracted to what crosses the lease: the fenced spending of its     *)
(* budget, the look at the lease before the workbook is replaced, the      *)
(* unfenced save of its rows, and the fenced transition.  Owner names are  *)
(* unique to a run (a uuid), so an earlier run's lease is never one's own. *)
(***************************************************************************)
EXTENDS Naturals, Sequences, FiniteSets, SequencesExt

CONSTANTS
    Processes,
    None,            \* no process
    NumJobs,         \* jobs are numbered by created_at
    Threads,         \* settings.max_concurrent_jobs
    StepBudget,      \* settings.step_budget
    Poison,          \* jobs whose every step raises what nothing catches
    Resumes,         \* jobs somebody asks to resume
    MaxFaults        \* bound: crashes, shutdowns, stalls, exceptions

Jobs == 1..NumJobs

ASSUME LeaseAssumption ==
    /\ NumJobs \in Nat /\ Threads \in Nat \ {0}
    /\ StepBudget \in Nat /\ MaxFaults \in Nat
    /\ Poison \subseteq Jobs /\ Resumes \subseteq Jobs /\ None \notin Processes

VARIABLES
    state,        \* the job's row: "live", "failed" (resumable), "fatal"
                  \*   (FAILED for good), "done", "gone" (deleted)
    steps,        \*   steps_used
    owner,        \*   lease_owner
    lapsed,       \*   lease_expires_at has passed
    taker,        \*   the process that last bumped run_epoch
    shared,       \* a worker has pinned an epoch another process took
    rows,         \* the process that last saved the job's issues
    files,        \* the job's directory: "whole", "bare" (no working copy),
                  \*   "none"
    asked,        \* POST resume answered 202 and the job is still FAILED
    up,           \* per process: "up", "stopping", "down"
    running,      \*   JobRunner._running
    queue,        \*   what its pool has not started
    doomed,       \*   what expired_jobs listed and its purge has not come to
    cleared,      \*   what its purge found or left without a directory
    spoiled,      \* history: a purge removed the directory under a worker
    pc,           \* per process and job: where its worker is
    current,      \*   the epoch it pinned is the row's
    lost,         \*   its LeaseKeeper gave up
    faults        \* faults so far

job == <<state, asked, steps, owner, lapsed, taker, shared, rows, files>>
purge == <<doomed, cleared, spoiled>>
process == <<up, running, queue, purge>>
worker == <<pc, current, lost>>
vars == <<job, process, worker, faults>>

(* "acquired": the lease is committed, its row not read back; "pinned": the
   epoch is read; "resume": the row says FAILED and resumable; "boundary":
   between steps; "step": in one; "file": it looked and holds the lease;
   "saved": the workbook is replaced; "final": _finalize has read the
   workbook; "handed": the outputs are written; "ending": before
   release_lease; "released": before _finished.                             *)
Working ==
    {"acquired", "pinned", "resume", "boundary", "step", "file", "saved",
     "final", "handed", "ending", "released"}
Terminal == {"failed", "fatal", "done"}

TypeOK ==
    /\ state \in [Jobs -> {"live", "gone"} \cup Terminal]
    /\ steps \in [Jobs -> 0..StepBudget]
    /\ owner \in [Jobs -> Processes \cup {None}]
    /\ lapsed \in [Jobs -> BOOLEAN]
    /\ taker \in [Jobs -> Processes \cup {None}] /\ shared \in [Jobs -> BOOLEAN]
    /\ rows \in [Jobs -> Processes \cup {None}]
    /\ files \in [Jobs -> {"whole", "bare", "none"}] /\ asked \in [Jobs -> BOOLEAN]
    /\ up \in [Processes -> {"up", "stopping", "down"}]
    /\ running \in [Processes -> SUBSET Jobs]
    /\ queue \in [Processes -> Seq(Jobs)]
    /\ doomed \in [Processes -> SUBSET Jobs]
    /\ cleared \in [Processes -> SUBSET Jobs] /\ spoiled \in [Jobs -> BOOLEAN]
    /\ pc \in [Processes -> [Jobs -> {"none", "queued"} \cup Working]]
    /\ current \in [Processes -> [Jobs -> BOOLEAN]]
    /\ lost \in [Processes -> [Jobs -> BOOLEAN]]
    /\ faults \in 0..MaxFaults

Init ==
    /\ state = [j \in Jobs |-> "live"] /\ steps = [j \in Jobs |-> 0]
    /\ owner = [j \in Jobs |-> None] /\ lapsed = [j \in Jobs |-> FALSE]
    /\ taker = [j \in Jobs |-> None] /\ shared = [j \in Jobs |-> FALSE]
    /\ rows = [j \in Jobs |-> None]
    /\ files = [j \in Jobs |-> "whole"] /\ asked = [j \in Jobs |-> FALSE]
    /\ up = [p \in Processes |-> "up"]
    /\ running = [p \in Processes |-> {}] /\ queue = [p \in Processes |-> << >>]
    /\ doomed = [p \in Processes |-> {}] /\ cleared = [p \in Processes |-> {}]
    /\ spoiled = [j \in Jobs |-> FALSE]
    /\ pc = [p \in Processes |-> [j \in Jobs |-> "none"]]
    /\ current = [p \in Processes |-> [j \in Jobs |-> FALSE]]
    /\ lost = [p \in Processes |-> [j \in Jobs |-> FALSE]]
    /\ faults = 0

At(p, j, position) == pc' = [pc EXCEPT ![p][j] = position]
SetState(j, s) ==
    /\ state' = [state EXCEPT ![j] = s]
    /\ asked' = [asked EXCEPT ![j] = @ /\ s = "failed"]
StateUnchanged == UNCHANGED <<state, asked>>
Fault == faults < MaxFaults /\ faults' = faults + 1

-----------------------------------------------------------------------------
(* Mutants: any lease may be taken; one that nobody gave up never.          *)
AnyLease(j) == TRUE
GivenUp(j) == owner[j] = None

(* A lease that may be taken: acquire_lease, claimable_jobs, _lease_is_live. *)
Unleased(j) == owner[j] = None \/ lapsed[j]

(* JobRunner.submit and the two that call it: the sweep and POST resume.    *)
Submit(p, js) ==
    /\ up[p] = "up"
    /\ running' = [running EXCEPT ![p] = @ \cup ToSet(js)]
    /\ queue' = [queue EXCEPT ![p] = @ \o js]
    /\ pc' = [pc EXCEPT ![p] =
                 [j \in Jobs |-> IF j \in ToSet(js) THEN "queued" ELSE pc[p][j]]]
    /\ UNCHANGED <<state, steps, owner, lapsed, taker, shared, rows, files>>
    /\ UNCHANGED <<up, purge, current, lost, faults>>

(* claimable_jobs: ORDER BY created_at LIMIT max_concurrent_jobs.           *)
Claimable == {j \in Jobs : state[j] = "live" /\ Unleased(j)}
Oldest == {j \in Claimable : Cardinality({i \in Claimable : i < j}) < Threads}

\* What the sweep submits, in that order.
Due(p) ==
    LET due == Oldest \ running[p]
    IN  [k \in 1..Cardinality(due) |->
            CHOOSE j \in due : Cardinality({i \in due : i < j}) = k - 1]

Sweep(p) ==
    /\ ~(Oldest \subseteq running[p])
    /\ Submit(p, Due(p)) /\ UNCHANGED asked

(* The answer is 202 whether submit queued the job or not.                  *)
ResumeRequest(p, j) ==
    /\ j \in Resumes /\ state[j] \in {"live", "failed"} /\ Unleased(j)
    /\ asked' = [asked EXCEPT ![j] = state[j] = "failed"]
    /\ Submit(p, IF j \in running[p] THEN << >> ELSE <<j>>)

-----------------------------------------------------------------------------
(* JobRunner._run.                                                          *)
Busy(p) == Cardinality({j \in Jobs : pc[p][j] \in Working})
Begins(p, j) ==
    /\ up[p] # "down" /\ queue[p] # << >> /\ Head(queue[p]) = j
    /\ Busy(p) < Threads
    /\ queue' = [queue EXCEPT ![p] = Tail(@)]

(* acquire_lease does not look at the job's state.                          *)
Acquire(p, j) ==
    /\ Begins(p, j) /\ state[j] # "gone" /\ Unleased(j)
    /\ owner' = [owner EXCEPT ![j] = p] /\ lapsed' = [lapsed EXCEPT ![j] = FALSE]
    /\ taker' = [taker EXCEPT ![j] = p]
    /\ current' = [q \in Processes |-> [current[q] EXCEPT ![j] = FALSE]]
    /\ lost' = [lost EXCEPT ![p][j] = FALSE]
    /\ At(p, j, "acquired")
    /\ UNCHANGED <<state, asked, steps, shared, rows, files, up, running, purge, faults>>

Contended(p, j) ==
    /\ Begins(p, j) /\ (state[j] = "gone" \/ ~Unleased(j))
    /\ running' = [running EXCEPT ![p] = @ \ {j}]
    /\ At(p, j, "none")
    /\ UNCHANGED <<job, up, purge, current, lost, faults>>

(* The epoch is read back after the commit that bumped it.                  *)
ReadEpoch(p, j) ==
    /\ pc[p][j] = "acquired" /\ state[j] # "gone"
    /\ current' = [current EXCEPT ![p][j] = TRUE]
    /\ shared' = [shared EXCEPT ![j] = @ \/ taker[j] # p]
    /\ At(p, j, "pinned")
    /\ UNCHANGED <<state, asked, steps, owner, lapsed, taker, rows, files, process, lost, faults>>

(* The handlers trip over the missing job too: the guard keeps it.          *)
RowVanished(p, j) ==
    /\ pc[p][j] = "acquired" /\ state[j] = "gone"
    /\ At(p, j, "none")
    /\ UNCHANGED <<job, process, current, lost, faults>>

(* Mutant: whatever failed is resumed.                                      *)
LookAtStateOnly(p, j) ==
    /\ pc[p][j] = "pinned"
    /\ At(p, j, IF state[j] \in {"failed", "fatal"} THEN "resume" ELSE "boundary")
    /\ UNCHANGED <<job, process, current, lost, faults>>

(* resume_from_failure: the look, then the fenced transition.  The table
   allows FAILED to INGESTING for whatever reason it failed.                *)
Look(p, j) ==
    /\ pc[p][j] = "pinned"
    /\ At(p, j, IF state[j] = "failed" THEN "resume" ELSE "boundary")
    /\ UNCHANGED <<job, process, current, lost, faults>>

Resume(p, j) ==
    /\ pc[p][j] = "resume"
    /\ IF current[p][j] /\ state[j] \in {"failed", "fatal"}
       THEN SetState(j, "live") /\ At(p, j, "boundary")
       ELSE StateUnchanged /\ At(p, j, "ending")
    /\ UNCHANGED <<steps, owner, lapsed, taker, shared, rows, files, process, current, lost, faults>>

-----------------------------------------------------------------------------
(* CurationCouncil.run and what of a step crosses the lease.                *)
Stop(p, j) ==
    /\ pc[p][j] = "boundary"
    /\ state[j] # "live" \/ lost[p][j] \/ up[p] = "stopping"
    /\ At(p, j, "ending")
    /\ UNCHANGED <<job, process, current, lost, faults>>

(* _spend: BudgetExhausted, ConcurrencyError, or one step more.             *)
Spent(j) == steps[j] = StepBudget

StartStep(p, j) ==
    /\ pc[p][j] = "boundary" /\ state[j] = "live" /\ ~lost[p][j] /\ up[p] = "up"
    /\ j \notin Poison
    /\ CASE ~current[p][j] ->
              StateUnchanged /\ UNCHANGED steps /\ At(p, j, "ending")
         [] current[p][j] /\ Spent(j) ->
              SetState(j, "failed") /\ UNCHANGED steps /\ At(p, j, "boundary")
         [] OTHER ->
              /\ steps' = [steps EXCEPT ![j] = @ + 1]
              /\ StateUnchanged /\ At(p, j, "step")
    /\ UNCHANGED <<owner, lapsed, taker, shared, rows, files, process, current, lost, faults>>

(* save_issue, insert_patch, settle_attempt, record_changes: no epoch.      *)
SaveRows(p, j) ==
    /\ pc[p][j] \in {"step", "saved"} /\ state[j] # "gone"
    /\ rows' = [rows EXCEPT ![j] = p]
    /\ At(p, j, "boundary")
    /\ UNCHANGED <<state, asked, steps, owner, lapsed, taker, shared, files, process, current, lost, faults>>

(* _finalize: the workbook is read, the directory of the outputs is made
   (mkdir, with its parents) and what is to be handed over is read again.    *)
Finalize(p, j) ==
    /\ pc[p][j] = "step"
    /\ At(p, j, IF files[j] = "whole" THEN "final" ELSE "ending")
    /\ UNCHANGED <<job, process, current, lost, faults>>

HandOver(p, j) ==
    /\ pc[p][j] = "final"
    /\ files' = [files EXCEPT ![j] = IF @ = "none" THEN "bare" ELSE @]
    /\ At(p, j, IF files[j] = "whole" THEN "handed" ELSE "ending")
    /\ UNCHANGED <<state, asked, steps, owner, lapsed, taker, shared, rows, process, current, lost, faults>>

(* assert_lease_held, and later os.replace.                                 *)
CheckLease(p, j) ==
    /\ pc[p][j] = "step"
    /\ At(p, j, IF current[p][j] /\ owner[j] \in {p, None} THEN "file" ELSE "ending")
    /\ UNCHANGED <<job, process, current, lost, faults>>

Replace(p, j) ==
    /\ pc[p][j] = "file"
    /\ At(p, j, IF files[j] = "whole" THEN "saved" ELSE "ending")
    /\ UNCHANGED <<job, process, current, lost, faults>>

(* _advance to a terminal state: what _finalize decided, a failure that may be
   resumed, one that may not.                                               *)
Transition(p, j, s) ==
    /\ pc[p][j] = IF s = "done" THEN "handed" ELSE "step"
    /\ IF current[p][j] /\ state[j] = "live"
       THEN SetState(j, s) /\ At(p, j, "boundary")
       ELSE StateUnchanged /\ At(p, j, "ending")
    /\ UNCHANGED <<steps, owner, lapsed, taker, shared, rows, files, process, current, lost, faults>>

(* An exception nothing in the council catches; recovery and many steps raise
   theirs before they spend anything.                                       *)
Raise(p, j) ==
    /\ \/ pc[p][j] \in {"boundary", "step", "final", "handed"} /\ state[j] = "live"
       \/ pc[p][j] \in {"step", "saved"} /\ state[j] = "gone"
    /\ IF j \in Poison \/ state[j] = "gone" THEN UNCHANGED faults ELSE Fault
    /\ At(p, j, "ending")
    /\ UNCHANGED <<job, process, current, lost>>

(* release_lease: WHERE lease_owner and run_epoch are this worker's.        *)
GiveUp(p, j, mine) ==
    /\ pc[p][j] = "ending"
    /\ IF mine
       THEN owner' = [owner EXCEPT ![j] = None] /\ lapsed' = [lapsed EXCEPT ![j] = FALSE]
       ELSE UNCHANGED <<owner, lapsed>>
    /\ At(p, j, "released")
    /\ UNCHANGED <<state, asked, steps, taker, shared, rows, files, process, current, lost, faults>>

Release(p, j) == GiveUp(p, j, owner[j] = p /\ current[p][j])

Finished(p, j) ==
    /\ pc[p][j] = "released"
    /\ running' = [running EXCEPT ![p] = @ \ {j}]
    /\ At(p, j, "none")
    /\ current' = [current EXCEPT ![p][j] = FALSE]
    /\ lost' = [lost EXCEPT ![p][j] = FALSE]
    /\ UNCHANGED <<job, up, queue, purge, faults>>

(* The database refuses the write: _finished is never reached.              *)
ReleaseFails(p, j) ==
    /\ Fault /\ pc[p][j] = "ending"
    /\ At(p, j, "none")
    /\ current' = [current EXCEPT ![p][j] = FALSE]
    /\ lost' = [lost EXCEPT ![p][j] = FALSE]
    /\ UNCHANGED <<job, process>>

(* LeaseKeeper._loop, beside the council.  It revives a lease that lapsed
   and was not taken.                                                       *)
Heartbeat(p, j) ==
    /\ pc[p][j] \in {"boundary", "step", "file", "saved", "final", "handed"} /\ ~lost[p][j]
    /\ IF owner[j] = p /\ current[p][j]
       THEN lapsed' = [lapsed EXCEPT ![j] = FALSE] /\ UNCHANGED lost
       ELSE lost' = [lost EXCEPT ![p][j] = TRUE] /\ UNCHANGED lapsed
    /\ UNCHANGED <<state, asked, steps, owner, taker, shared, rows, files, process, pc, current, faults>>

-----------------------------------------------------------------------------
(* purge_expired_jobs: the list, then per job the directory and the rows.   *)
(* Whoever takes a job stamps its updated_at.                               *)
Alive(p, j) == pc[p][j] \in Working
Attended(j) == \E p \in Processes : Alive(p, j)
Old == {j \in Jobs : state[j] \in Terminal /\ ~Attended(j)}

ListExpired(p) ==
    /\ up[p] = "up" /\ doomed[p] = {} /\ cleared[p] = {}
    /\ doomed' = [doomed EXCEPT ![p] = Old]
    /\ UNCHANGED <<job, up, running, queue, cleared, spoiled, worker, faults>>

(* rmtree, of whatever directory there is.                                  *)
PurgeFiles(p, j) ==
    /\ j \in doomed[p]
    /\ files' = [files EXCEPT ![j] = "none"]
    /\ doomed' = [doomed EXCEPT ![p] = @ \ {j}]
    /\ cleared' = [cleared EXCEPT ![p] = @ \cup {j}]
    /\ spoiled' = [spoiled EXCEPT ![j] = @ \/ Attended(j)]
    /\ UNCHANGED <<state, asked, steps, owner, lapsed, taker, shared, rows, up, running, queue, worker, faults>>

(* Mutant: a job goes although its directory could not be removed.          *)
FailsAndGoesOn(p, j) ==
    /\ Fault /\ j \in doomed[p] /\ files[j] # "none"
    /\ files' = [files EXCEPT ![j] = "bare"]
    /\ doomed' = [doomed EXCEPT ![p] = @ \ {j}]
    /\ cleared' = [cleared EXCEPT ![p] = @ \cup {j}]
    /\ spoiled' = [spoiled EXCEPT ![j] = @ \/ Attended(j)]
    /\ UNCHANGED <<state, asked, steps, owner, lapsed, taker, shared, rows, up, running, queue, worker>>

(* rmtree stops halfway: the job is left to a later purge, with its rows.   *)
PurgeFails(p, j) ==
    /\ Fault /\ j \in doomed[p] /\ files[j] # "none"
    /\ files' = [files EXCEPT ![j] = "bare"]
    /\ doomed' = [doomed EXCEPT ![p] = @ \ {j}]
    /\ spoiled' = [spoiled EXCEPT ![j] = @ \/ Attended(j)]
    /\ UNCHANGED <<state, asked, steps, owner, lapsed, taker, shared, rows, up, running, queue, cleared, worker>>

(* Whether the directory came back is not looked at.                        *)
DeleteJob(p, j) ==
    /\ j \in cleared[p]
    /\ cleared' = [cleared EXCEPT ![p] = @ \ {j}]
    /\ SetState(j, "gone")
    /\ owner' = [owner EXCEPT ![j] = None] /\ lapsed' = [lapsed EXCEPT ![j] = FALSE]
    /\ current' = [q \in Processes |-> [current[q] EXCEPT ![j] = FALSE]]
    /\ UNCHANGED <<steps, taker, shared, rows, files, up, running, queue, doomed, spoiled, pc, lost, faults>>

-----------------------------------------------------------------------------
(* Processes and time.                                                      *)
(* A dead worker's lease runs out; a live one's when its process stalls for
   longer than the lease.                                                   *)
Expire(j) ==
    /\ owner[j] # None /\ ~lapsed[j] /\ ~Alive(owner[j], j)
    /\ lapsed' = [lapsed EXCEPT ![j] = TRUE]
    /\ UNCHANGED <<state, asked, steps, owner, taker, shared, rows, files, process, worker, faults>>

Stall(j) ==
    /\ Fault /\ owner[j] # None /\ ~lapsed[j] /\ Alive(owner[j], j)
    /\ lapsed' = [lapsed EXCEPT ![j] = TRUE]
    /\ UNCHANGED <<state, asked, steps, owner, taker, shared, rows, files, process, worker>>

Vanish(p) ==
    /\ up' = [up EXCEPT ![p] = "down"]
    /\ running' = [running EXCEPT ![p] = {}] /\ queue' = [queue EXCEPT ![p] = << >>]
    /\ doomed' = [doomed EXCEPT ![p] = {}] /\ cleared' = [cleared EXCEPT ![p] = {}]
    /\ pc' = [pc EXCEPT ![p] = [j \in Jobs |-> "none"]]
    /\ current' = [current EXCEPT ![p] = [j \in Jobs |-> FALSE]]
    /\ lost' = [lost EXCEPT ![p] = [j \in Jobs |-> FALSE]]
    /\ UNCHANGED <<job, spoiled>>

Crash(p) == Fault /\ up[p] # "down" /\ Vanish(p)

(* shutdown: running councils stop at a boundary, the queue is cancelled.   *)
Shutdown(p) ==
    /\ Fault /\ up[p] = "up"
    /\ up' = [up EXCEPT ![p] = "stopping"]
    /\ queue' = [queue EXCEPT ![p] = << >>]
    /\ pc' = [pc EXCEPT ![p] =
                 [j \in Jobs |-> IF pc[p][j] = "queued" THEN "none" ELSE pc[p][j]]]
    /\ UNCHANGED <<job, running, purge, current, lost>>

Exit(p) ==
    /\ up[p] = "stopping" /\ Busy(p) = 0
    /\ Vanish(p) /\ UNCHANGED faults

Start(p) ==
    /\ up[p] = "down"
    /\ up' = [up EXCEPT ![p] = "up"]
    /\ UNCHANGED <<job, running, queue, purge, worker, faults>>

-----------------------------------------------------------------------------
Run(p, j) ==
    \/ Acquire(p, j) \/ Contended(p, j) \/ ReadEpoch(p, j) \/ RowVanished(p, j)
    \/ Look(p, j) \/ Resume(p, j) \/ Stop(p, j) \/ StartStep(p, j)
    \/ SaveRows(p, j) \/ CheckLease(p, j) \/ Replace(p, j)
    \/ Finalize(p, j) \/ HandOver(p, j)
    \/ \E s \in Terminal : Transition(p, j, s)
    \/ Raise(p, j) \/ Release(p, j) \/ Finished(p, j)

Purge(p) == ListExpired(p) \/ \E j \in Jobs : PurgeFiles(p, j) \/ DeleteJob(p, j)

Faults ==
    \/ \E p \in Processes :
          Crash(p) \/ Shutdown(p) \/ \E j \in Jobs : PurgeFails(p, j)
    \/ \E j \in Jobs : Stall(j) \/ \E p \in Processes : ReleaseFails(p, j)

Next ==
    \/ \E p \in Processes, j \in Jobs : Run(p, j) \/ Heartbeat(p, j) \/ ResumeRequest(p, j)
    \/ \E p \in Processes : Sweep(p) \/ Purge(p) \/ Exit(p) \/ Start(p)
    \/ \E j \in Jobs : Expire(j)
    \/ Faults

Spec == Init /\ [][Next]_vars

(* Threads run, the poller ticks, leases run out, processes are restarted.  *)
FairSpec ==
    /\ Spec
    /\ \A p \in Processes :
          /\ WF_vars(Sweep(p)) /\ WF_vars(Exit(p)) /\ WF_vars(Start(p))
          /\ \A j \in Jobs : WF_vars(Run(p, j)) /\ WF_vars(Heartbeat(p, j))
    /\ \A j \in Jobs : WF_vars(Expire(j))
-----------------------------------------------------------------------------
(* A guard without a worker behind it (after ReleaseFails).                 *)
Leaked(p, j) == up[p] = "up" /\ j \in running[p] /\ pc[p][j] = "none"

(* workers.py:52 of release_lease: whatever order workers are fenced out, stop
   and release in, a lease is given up by its own worker or taken from it
   after it lapsed.                                                         *)
LeaseKept ==
    [][\A j \in Jobs : owner[j] # None /\ owner'[j] # owner[j] =>
          \/ lapsed[j] \/ pc[owner[j]][j] = "ending"
          \/ state'[j] = "gone"]_vars

(* Two workers are between taking and giving up one lease only after a fault. *)
Holders(j) == {p \in Processes : pc[p][j] \in Working \ {"released"}}
OneWorker == faults = 0 => \A j \in Jobs : Cardinality(Holders(j)) <= 1

(* JobRunner.submit: its guard "stops a poller tick from queueing work behind
   a job it can already see running".  However sweeps, requests, contended
   leases, purges and shutdowns interleave, a job waits in a process's pool at
   most once, and not behind its own worker; whatever waits or runs is under
   the guard.                                                               *)
QueuedOnce ==
    \A p \in Processes :
        /\ \A j \in Jobs :
              /\ pc[p][j] # "none" => j \in running[p]
              /\ pc[p][j] = "queued" <=> \E k \in 1..Len(queue[p]) : queue[p][k] = j
        /\ \A k, l \in 1..Len(queue[p]) : queue[p][k] = queue[p][l] => k = l

(* state_machine.is_resumable: a job that failed for good never runs again,
   whoever asked for it, unless two workers held one epoch.                 *)
FatalStays ==
    [][\A j \in Jobs : state[j] = "fatal" /\ state'[j] # "fatal" =>
          state'[j] = "gone" \/ shared[j]]_vars

(* purge_expired_jobs: however purges, their crashes, directories that could
   not be removed and runs interleave, a job's rows do not go before its
   directory, so that none is left without a record of whose it was; the one
   exception is a directory that was removed under a worker.                *)
NoOrphanFiles ==
    \A j \in Jobs : state[j] = "gone" => files[j] = "none" \/ spoiled[j]

(* workers.py:278, of the order of the purge: "The other order can leave a
   directory nobody has a record of".  This one can as well: a resumed job's
   _finalize makes the directory again between the two.                     *)
NoDirectoryWithoutRecord ==
    \A j \in Jobs : state[j] = "gone" => files[j] = "none"

(* workers.py:16: a crashed worker is not a lost job.                       *)
JobSettles ==
    \A j \in Jobs :
        state[j] = "live" ~> state[j] # "live" \/ \E p \in Processes : Leaked(p, j)

(* workers.py:381, of POST resume before resume_from_failure: "The curator saw
   an accepted request and a job that never moved, which is the worst of
   both".                                                                   *)
ResumeMoves == \A j \in Jobs : asked[j] ~> ~asked[j]

(* persistence.py:1673: a sweep that deletes a running job's working copy is a
   data-loss bug.                                                           *)
PurgeSparesRunning ==
    [][\A j \in Jobs :
          files[j] = "whole" /\ files'[j] # "whole" => state[j] \in Terminal]_vars

(* workers.py:16, of every job that can be worked on, whatever the others do. *)
OthersSettle ==
    \A j \in Jobs \ Poison : state[j] = "live" ~> state[j] # "live"
=============================================================================
