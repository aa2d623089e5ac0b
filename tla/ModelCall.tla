----------------------------- MODULE ModelCall -----------------------------
(***************************************************************************)
(* One model call of a job and what it costs: llm.base.call_structured     *)
(* (schema retries) over RetryingClient (transient failures) over          *)
(* llm.audit.RecordingClient (a charge before, a row after) over the CLI;  *)
(* CurationCouncil._charge_call, the pins of _pin_prompts, and what step   *)
(* and _provider_failed make of a failure.                                 *)
(*                                                                         *)
(* Workers run on deployments whose settings differ.  A worker whose lease *)
(* lapsed is still there: only the charge and the transition are fenced by *)
(* run_epoch.  What the calls are for is a number of answers (Work); the   *)
(* process that is started is CliProcess's.                                *)
(***************************************************************************)
EXTENDS Naturals, FiniteSets

CONSTANTS
    Workers,
    Models,          \* what claude_model may name
    Deployments,     \* settings a process may be started with, see Deployment
    MaxAttempts,     \* settings.provider_max_attempts
    SchemaRetries,   \* call_structured's retries
    FailureBudget,   \* settings.provider_failure_budget
    MaxTokens,       \* bound: output tokens of one call
    Work,            \* answers the job needs
    MaxFaults,       \* bound: crashes and stalls
    MaxResumes       \* bound: resumes of the failed job

(* The settings a job is pinned to, as far as calls go: the model, what
   effective_call_budget and effective_output_token_budget come to for the
   workbook, the versions of adapter and contract, the bytes of the prompts. *)
Deployment ==
    [model : Models, calls : Nat \ {0}, tokens : Nat \ {0}, version : Nat, prompts : Nat]
NoPins == [model |-> "none", calls |-> 0, tokens |-> 0, version |-> 0, prompts |-> 0]

ASSUME CallAssumption ==
    /\ IsFiniteSet(Workers)
    /\ \A d \in Deployments :
           /\ d.calls \in Nat \ {0} /\ d.tokens \in Nat \ {0}
           /\ d.version \in Nat /\ d.prompts \in Nat /\ d.model \in Models
    /\ "none" \notin Models
    /\ MaxAttempts \in Nat \ {0} /\ SchemaRetries \in Nat
    /\ FailureBudget \in Nat /\ MaxTokens \in Nat /\ Work \in Nat
    /\ MaxFaults \in Nat /\ MaxResumes \in Nat

VARIABLES
    state,       \* the job: "live", "failed" (resumable), "fatal", "done"
    pins,        \* job_settings and job_prompts
    charged,     \* jobs.llm_calls_used
    rows,        \* rows of llm_calls
    tokens,      \*   and the output tokens they add up to
    failures,    \* provider_failure events
    work,        \* answers the job has
    built,       \* per worker: the deployment its client was built from
    current,     \*   its epoch is the row's
    pc,          \*   where it is, see Places
    tries,       \*   schema tries of this call so far
    attempts,    \*   attempts of RetryingClient so far
    result,      \*   how the process ended
    started,     \* history: CLI processes started
    lost,        \* history: calls whose worker died before their row
    models,      \* history: the models the processes were told to use
    overlaps,    \* history: calls in flight when their job was taken over
    faults, resumes

job == <<state, pins, charged, rows, tokens, failures, work>>
worker == <<built, current, pc, tries, attempts, result>>
history == <<started, lost, models, overlaps, faults, resumes>>
vars == <<job, worker, history>>

(* "ready": between calls; "check": about to be charged; "charge": the budgets
   allowed it; "start": the charge is committed; "running": the process runs;
   "ended": it ended, its row is not written; "decide": retried, answered or
   given up; "failed": an error reached the step.                           *)
Places == {"down", "ready", "check", "charge", "start", "running", "ended", "decide", "failed"}
(* "transient": timed out, rate-limited, unavailable or unknown; "final": a
   spent allowance or an answer beyond the cap; the others by their names.   *)
Outcomes == {"none", "valid", "malformed", "transient", "final", "refused", "config"}
Terminal == {"failed", "fatal", "done"}

Charged(w) == pc[w] = "start"
Physical(w) == pc[w] \in {"running", "ended"}

TypeOK ==
    /\ state \in {"live"} \cup Terminal
    /\ pins \in Deployments \cup {NoPins}
    /\ charged \in Nat /\ rows \in Nat /\ tokens \in Nat /\ failures \in Nat
    /\ work \in 0..Work
    /\ built \in [Workers -> Deployments \cup {NoPins}] /\ current \in [Workers -> BOOLEAN]
    /\ pc \in [Workers -> Places]
    /\ tries \in [Workers -> 0..SchemaRetries] /\ attempts \in [Workers -> 0..MaxAttempts]
    /\ result \in [Workers -> Outcomes]
    /\ started \in Nat /\ lost \in Nat /\ models \subseteq Models /\ overlaps \in Nat
    /\ faults \in 0..MaxFaults /\ resumes \in 0..MaxResumes

Init ==
    /\ state = "live" /\ pins = NoPins
    /\ charged = 0 /\ rows = 0 /\ tokens = 0 /\ failures = 0 /\ work = 0
    /\ built = [w \in Workers |-> NoPins]
    /\ current = [w \in Workers |-> FALSE] /\ pc = [w \in Workers |-> "down"]
    /\ tries = [w \in Workers |-> 0] /\ attempts = [w \in Workers |-> 0]
    /\ result = [w \in Workers |-> "none"]
    /\ started = 0 /\ lost = 0 /\ models = {} /\ overlaps = 0 /\ faults = 0 /\ resumes = 0

Goto(w, place) == pc' = [pc EXCEPT ![w] = place]
Stay == UNCHANGED <<built, current>>
Call == <<tries, attempts, result>>

-----------------------------------------------------------------------------
(* JobRunner._run: the lease is taken and a council built on whatever settings
   the process has.  The lease of a worker that is not down must have lapsed. *)
Start(w, d) ==
    /\ pc[w] = "down" /\ state = "live"
    /\ \/ (\A v \in Workers : pc[v] = "down") /\ UNCHANGED faults
       \/ (\E v \in Workers : pc[v] # "down") /\ faults < MaxFaults /\ faults' = faults + 1
    /\ built' = [built EXCEPT ![w] = d]
    /\ current' = [v \in Workers |-> v = w]
    /\ Goto(w, "ready")
    /\ overlaps' = overlaps + Cardinality({v \in Workers : current[v] /\ (Charged(v) \/ Physical(v))})
    /\ UNCHANGED <<job, Call, started, lost, models, resumes>>

(* A fenced transition that no longer is the worker's stops it instead.     *)
FailJob(w, reason) ==
    /\ state' = IF current[w] THEN reason ELSE state
    /\ Goto(w, "down") /\ Stay

(* What the council goes by: the pins once there are any.                   *)
Settings(w) == IF pins = NoPins THEN built[w] ELSE pins
SameCode(w) == Settings(w).version = built[w].version
SamePrompts(w) == Settings(w).prompts = built[w].prompts

(* _check_pinned_adapter.                                                   *)
Migrate(w) ==
    /\ pc[w] = "ready" /\ state = "live" /\ ~(SameCode(w) /\ SamePrompts(w))
    /\ FailJob(w, "fatal")
    /\ UNCHANGED <<pins, charged, rows, tokens, failures, work, Call, history>>

(* _pin_prompts, INSERT OR IGNORE: whoever comes first, fenced or not.      *)
Pin(w) ==
    /\ pc[w] = "ready" /\ state = "live" /\ pins = NoPins
    /\ pins' = built[w]
    /\ UNCHANGED <<state, charged, rows, tokens, failures, work, worker, history>>

(* A step asks an agent.  Its _spend is fenced.                             *)
BeginCall(w) ==
    /\ pc[w] = "ready" /\ state = "live" /\ current[w]
    /\ pins # NoPins /\ SameCode(w) /\ SamePrompts(w)
    /\ Goto(w, "check")
    /\ tries' = [tries EXCEPT ![w] = 0] /\ attempts' = [attempts EXCEPT ![w] = 0]
    /\ UNCHANGED <<job, built, current, result, history>>

(* It lost its lease, or the job has ended.                                 *)
StopWorker(w) ==
    /\ pc[w] = "ready" /\ (~current[w] \/ state # "live")
    /\ Goto(w, "down") /\ Stay
    /\ UNCHANGED <<job, Call, history>>

-----------------------------------------------------------------------------
(* RecordingClient.complete with CurationCouncil._charge_call.              *)
CallsLeft(w) == charged + 1 <= Settings(w).calls
TokensLeft(w) == tokens < Settings(w).tokens
WithinBudgets(w) == CallsLeft(w) /\ TokensLeft(w)

(* Mutant: an allowance of one more.                                        *)
CheckOneMore(w) ==
    /\ pc[w] = "check" /\ charged <= Settings(w).calls /\ TokensLeft(w)
    /\ Goto(w, "charge") /\ Stay
    /\ UNCHANGED <<job, Call, history>>
(* Mutant: generated tokens are looked at after the call only.              *)
CheckCallsOnly(w) ==
    /\ pc[w] = "check" /\ CallsLeft(w)
    /\ Goto(w, "charge") /\ Stay
    /\ UNCHANGED <<job, Call, history>>

CheckBudget(w) ==
    /\ pc[w] = "check" /\ WithinBudgets(w)
    /\ Goto(w, "charge") /\ Stay
    /\ UNCHANGED <<job, Call, history>>

(* Mutant: a blown fuse is retried like an outage.                          *)
RetryExhausted(w) ==
    /\ pc[w] = "check" /\ ~WithinBudgets(w)
    /\ Goto(w, "ready") /\ Stay
    /\ UNCHANGED <<job, Call, history>>

BudgetExhausted(w) ==
    /\ pc[w] = "check" /\ ~WithinBudgets(w)
    /\ FailJob(w, "failed")
    /\ UNCHANGED <<pins, charged, rows, tokens, failures, work, Call, history>>

Charge(w) ==
    /\ pc[w] = "charge"
    /\ IF current[w] THEN charged' = charged + 1 /\ Goto(w, "start")
                     ELSE UNCHANGED charged /\ Goto(w, "down")
    /\ Stay
    /\ UNCHANGED <<state, pins, rows, tokens, failures, work, Call, history>>

(* The client was built from the process's settings, not from the pins.     *)
ToldModel(w) == built[w].model
StartProcess(w) ==
    /\ pc[w] = "start"
    /\ started' = started + 1 /\ models' = models \cup {ToldModel(w)}
    /\ Goto(w, "running") /\ Stay
    /\ UNCHANGED <<job, Call, lost, overlaps, faults, resumes>>

ProcessEnds(w, r) ==
    /\ pc[w] = "running"
    /\ result' = [result EXCEPT ![w] = r]
    /\ Goto(w, "ended") /\ Stay
    /\ UNCHANGED <<job, tries, attempts, history>>

(* One row per process, whatever became of it; usage only of an answer.     *)
Record(w, n) ==
    /\ pc[w] = "ended"
    /\ n # 0 => result[w] \in {"valid", "malformed"}
    /\ rows' = rows + 1 /\ tokens' = tokens + n
    /\ Goto(w, "decide") /\ Stay
    /\ UNCHANGED <<state, pins, charged, failures, work, Call, history>>

-----------------------------------------------------------------------------
(* retry_call: only what is transient, and not for ever.                    *)
Retry(w) ==
    /\ pc[w] = "decide" /\ result[w] = "transient" /\ attempts[w] + 1 < MaxAttempts
    /\ attempts' = [attempts EXCEPT ![w] = @ + 1]
    /\ Goto(w, "check") /\ Stay
    /\ UNCHANGED <<job, tries, result, history>>

(* call_structured: the answer does not satisfy its schema; ask once more.  *)
AskAgain(w) ==
    /\ pc[w] = "decide" /\ result[w] = "malformed" /\ tries[w] < SchemaRetries
    /\ tries' = [tries EXCEPT ![w] = @ + 1] /\ attempts' = [attempts EXCEPT ![w] = 0]
    /\ Goto(w, "check") /\ Stay
    /\ UNCHANGED <<job, result, history>>

(* The rows an answer leads to are not fenced here (JobLease's SaveRows).  A
   refusal answers the Writer: its issue goes to a person.                  *)
Use(w) ==
    /\ pc[w] = "decide" /\ result[w] \in {"valid", "refused"}
    /\ work' = IF work < Work THEN work + 1 ELSE work
    /\ Goto(w, "ready") /\ Stay
    /\ UNCHANGED <<state, pins, charged, rows, tokens, failures, Call, history>>

GiveUp(w) ==
    /\ pc[w] = "decide"
    /\ \/ result[w] \in {"final", "refused", "config"}
       \/ result[w] = "transient" /\ attempts[w] + 1 >= MaxAttempts
       \/ result[w] = "malformed" /\ tries[w] >= SchemaRetries
    /\ Goto(w, "failed") /\ Stay
    /\ UNCHANGED <<job, Call, history>>

(* step, _provider_failed: the event is written by whoever it befell.       *)
ProviderFailed(w) ==
    /\ pc[w] = "failed" /\ result[w] # "config"
    /\ failures' = failures + 1
    /\ IF result[w] \in {"final", "refused"} \/ failures + 1 >= FailureBudget
       THEN FailJob(w, "failed")
       ELSE Goto(w, "ready") /\ Stay /\ UNCHANGED state
    /\ UNCHANGED <<pins, charged, rows, tokens, work, Call, history>>

Misconfigured(w) ==
    /\ pc[w] = "failed" /\ result[w] = "config"
    /\ FailJob(w, "fatal")
    /\ UNCHANGED <<pins, charged, rows, tokens, failures, work, Call, history>>

Finish(w) ==
    /\ pc[w] = "ready" /\ current[w] /\ state = "live" /\ work = Work
    /\ state' = "done" /\ Goto(w, "down") /\ Stay
    /\ UNCHANGED <<pins, charged, rows, tokens, failures, work, Call, history>>

-----------------------------------------------------------------------------
Crash(w) ==
    /\ pc[w] # "down" /\ faults < MaxFaults
    /\ faults' = faults + 1
    /\ lost' = IF Physical(w) THEN lost + 1 ELSE lost
    /\ Goto(w, "down") /\ Stay
    /\ UNCHANGED <<job, Call, started, models, overlaps, resumes>>

(* resume_from_failure: the counters, the events and the pins stay.         *)
Resume ==
    /\ state = "failed" /\ resumes < MaxResumes
    /\ state' = "live" /\ resumes' = resumes + 1
    /\ UNCHANGED <<pins, charged, rows, tokens, failures, work, worker,
                   started, lost, models, overlaps, faults>>

Begins(w) == Migrate(w) \/ Pin(w) \/ BeginCall(w) \/ StopWorker(w) \/ Finish(w)
Pays(w) == CheckBudget(w) \/ BudgetExhausted(w) \/ Charge(w)
Calls(w) == \/ StartProcess(w)
            \/ \E r \in Outcomes \ {"none"} : ProcessEnds(w, r)
            \/ \E n \in 0..MaxTokens : Record(w, n)
Decides(w) == \/ Retry(w) \/ AskAgain(w) \/ Use(w) \/ GiveUp(w)
              \/ ProviderFailed(w) \/ Misconfigured(w)
Step(w) == Begins(w) \/ Pays(w) \/ Calls(w) \/ Decides(w)

Next ==
    \/ \E w \in Workers : Step(w) \/ Crash(w)
    \/ \E w \in Workers, d \in Deployments : Start(w, d)
    \/ Resume

Spec == Init /\ [][Next]_vars

(* A worker's thread runs, every process ends (the time-out of CliProcess),
   and the sweep claims a job nobody works on.                              *)
FairSpec ==
    /\ Spec
    /\ \A w \in Workers : WF_vars(Step(w))
    /\ WF_vars(\E w \in Workers, d \in Deployments : Start(w, d))
-----------------------------------------------------------------------------
(* audit.py: every physical call was charged before it started, within the
   allowance the job was pinned to, and left a row, or died with its worker:
   across retries, schema retries, take-overs, crashes, resumes and
   deployments with other budgets.                                          *)
CallsArePaid ==
    /\ started <= charged
    /\ pins # NoPins => charged <= pins.calls
    /\ rows + lost + Cardinality({w \in Workers : Physical(w)}) = started

(* council.effective_output_token_budget: "one physical call may overshoot this
   boundary".  One per owner, in fact: a call still running when its job is
   taken over is not in the sum its successor is checked against.           *)
OneCallOvershoots ==
    pins # NoPins => tokens < pins.tokens + MaxTokens * (1 + overlaps)

(* However calls end and workers die, the job ends too: each loop around a call
   is bounded by something a crash does not reset.                          *)
JobComesToRest == <>[](state \in Terminal)

(* council.py:899: behaviour settings are re-applied on resume, the job runs at
   the model it started with.                                               *)
CallsUseThePins == pins # NoPins => models \subseteq {pins.model}
=============================================================================
