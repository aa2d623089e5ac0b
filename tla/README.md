# A verification development for the OpenStax Curation Council

TLA+ models of the service in `src/oatutor_council`, checked with TLC on small
instances and, where said so, proved with TLAPS for every value of the constants.
Paths below are relative to `src/oatutor_council/` of the repository.

## The system

A curator uploads a workbook; one **job** finds defects, has a model propose repairs,
has another review them on a simulation, and applies the approved ones to a working copy.
Everything durable is in one SQLite file and in the job's directory.

| Part | State it keeps | Operations | What is hard |
| --- | --- | --- | --- |
| **Apply protocol** (`orchestrator.py`, `workbook/writer.py`) | `apply_intents`, `change_records`, the working copy, the source | `apply_patch`, `atomic_save`, `recover_apply_intents`, `recover_job` | a crash or power loss between any two durable steps; three stores that must agree |
| **Issue life cycle** (`state_machine.py`, `models.py`) | `issues` (state, `attempts_used`, `interrupted_retries_used`) | `reserve_attempt`, `refund_interrupted`, `exhausted`, `reopen` | two counters that must bound the calls however calls are lost |
| **Council: repair** (`council.py`) | `repair_attempts`, `patches`, `review_verdicts` | `_write`, `_review`, `_review_unpatched_issue`, `_adjudicate`, `_apply`, mechanical repair, `_rollback_rejected_patch` | one commit after another with a crash between; numbers that identify a candidate |
| **Council: block scheduling** (`council.py`, `persistence.py`) | none of its own: queries | `_live_block_group`, `_unprepared_sibling`, `_inflight_sibling`, `next_issue_for_phase`, `_write_batch`, `_review_batch` | several issues of one block in flight; progress for every one |
| **Council: scans** (`council.py`, `agents/batching.py`, `coverage.py`, `isolation.py`) | `block_progress`, `job_events`, `coverage_records`, `private_blobs`, the registry of private reasoning | `_audit`, the sweep, `_verify_blocks` | whose answer is whose; what an answer leaves out; a registry in memory that rows must rebuild |
| **Council: phases** (`council.py`) | `jobs.state`, `block_progress`, `job_events` | `_ingest`, `_audit`, `_repair`, `_independent_review`, `_final_semantic`, `_validate`, `_finalize` | markers that go stale; rounds and budgets; the conditions of success |
| **Leases and workers** (`workers.py`, `persistence.py`, `api.py`) | `jobs.run_epoch`, `lease_owner`, `lease_expires_at`; `_running`, the pool's queue, `LeaseKeeper.lost` | `acquire_lease`, `heartbeat`, `release_lease`, `sweep`, `submit`, `POST resume`, `shutdown`, `purge_expired_jobs` | several processes and threads, stalls, fencing, bounded queues |
| **Model calls** (`llm/base.py`, `llm/audit.py`, `council.py`) | `jobs.llm_calls_used`, `llm_calls`, `job_settings`, `job_prompts`, `provider_failure` events | `call_structured`, `RetryingClient`, `RecordingClient`, `_charge_call`, `_pin_prompts`, `_provider_failed` | paid before it starts, recorded after; retries inside retries; a second owner; another configuration after a restart |
| **CLI process** (`llm/claude_cli.py`) | a process, its group, two pipes, three threads | `_run_process`, `_write_stdin`, `_read_capped`, `_terminate_group`, `_interpret` | a child that hangs, floods or leaves a helper; a time-out that races an exit |
| **Writer, diff, final gate** (`workbook/`, `validation/final_gate.py`) | the working copy, `change_records` | `apply_edits`, `record_changes`, `net_changes`, `reconcile`, `run_final_gate` | whole-file saves of a stalled worker; records of the same cell in some order |
| **Reader, rules, patch gate** (`workbook/reader.py`, `validation/`) | none | `segment_blocks`, the rules on structure and dependencies, `validate_patch` | a simulated block must predict the next reading of the file |
| **Agents** (`agents/`) | none | one model call each | their answers are arbitrary |
| **Ingestion, reports, configuration, web, scripts** | none that the service depends on | | |

The parts meet in the database. A worker takes a job's lease, runs `CurationCouncil.step`
until the job ends, and every step reads rows, calls at most a model or two, and writes rows
and perhaps the working copy. Recovery (`recover_job`) is the first step of every worker.

What makes each part correct:

* apply: the ledger explains the workbook, an application is atomic, an accepted patch is
  recorded, a job is failed for corruption only with a cause, a settled intent says the truth,
  an approved patch is settled;
* repair: bounded calls, refunds earned once, only a judged patch is applied, only a
  corroborated claim reaches the Writer, a reviewer is never overruled by a silent rule, an
  issue settles;
* leases: one worker until something fails, leases kept, a job failed for good stays failed,
  no job is lost, no directory outlives its record unless a worker was at it;
* scheduling: a candidate in flight keeps its cells to itself, no issue is forgotten, the
  phases that repair end;
* scans: silence never passes for a clean block; the registry never lacks reasoning that
  findings on record rest on;
* phases: success only over what an independent pass accounted for, no defect laundered, no
  issue left behind, the job ends;
* calls: every process is paid for within the pinned allowance and leaves a row, the token
  fuse is overshot by one call per owner, the job comes to rest;
* CLI: the call returns, the process is gone, an answer is whole and a spent allowance is not
  retried, unless a helper of the CLI came in between;
* gates: an accepted patch does on the next reading what it did on the simulated block; a
  passed file differs from the submitted one as the change log says and no otherwise.

## Modules

| Module | What it is |
| --- | --- |
| `AtomicApply` | The abstract specification: a patch is applied in one step, or never. |
| `ApplyProtocol` | The protocol as the code runs it, step by step. |
| `IssueFlow` | The states of an issue and the table of legal transitions. |
| `IssueRepair` | One issue, from its finding to its resolution, one action per commit. |
| `BlockRepair` | Several issues of a block: groups, roles, the queue, batched writing and reviewing. |
| `BlockScan` | How the blocks are examined: batches, attribution, coverage, re-scans, the registry. |
| `Pipeline` | The phases of a job: scans, repairs as the queues offer them, verification, validation, finalization. |
| `JobLease` | Processes, workers, leases, the sweep, the purge. |
| `ModelCall` | One job's model calls: charge, process, row, retries, pins, take-overs. |
| `CliProcess` | One subprocess: pipes, reader threads, cap, time-out, the ending of its group. |
| `FinalGate` | Edits, change records and the gate that compares the result with the source. |
| `Sheet` | Pure operators: blocks of a sheet, conventions of a workbook, findings of rules and reader. |
| `PatchGate` | The gate a patch passes, on `Sheet`, and the file as accepted patches leave it. |
| `*Proofs` | The inductive invariants and the theorems; those of `CliProcess` are in `ModelCallProofs`, those of `PatchGate` and `Sheet` in `FinalGateProofs`. |
| `MC*` | The instances TLC checks. |

How they compose: `IssueRepair`, `BlockRepair` and `Pipeline` take an application as one step,
which the refinement of `AtomicApply` justifies; `BlockRepair` checks what `ApplyProtocol` and
`IssueRepair` assume of the other issues of a block (their candidates are disjoint, but for those a
resumed job carried), and the last two use `IssueFlow`; `Pipeline` leaves out what `BlockScan` has of an answer,
and `BlockScan` what `Pipeline` has of a repair; `ModelCall` starts the process `CliProcess`
follows; `PatchGate` works on `Sheet`. `JobLease` is the ground they stand on: all but
`JobLease`, `ModelCall` and `FinalGate` have one worker at a time.

Definitions carry the names of the code where TLA+ allows it; `PROJECT.json` maps each to
its lines. A comment that begins with "Mutant" marks a plausible bug used to show that a
property can fail; it is not part of the specification.

### ApplyProtocol

`book` is the working copy on disk, `spare` what a power loss would bring back (the
directory not yet synced), `net` what the change records say, `intent` the row of
`apply_intents`, `issueState` the states of the issues as far as they matter here, `pc` the
worker's place in `apply_patch`, `_apply` or `recover_job`. Each durable step of
`orchestrator.apply_patch` and of `atomic_save` is an action: `OpenIntent`, `VerifyEdits`,
`Replace`, `SyncDirectory`, `RecordChanges`, `SettleApplied`, then `SaveAccepted` of
`council._apply`; the marker it clears is `Pipeline`'s. `Crash` may fall anywhere and may lose an unsynced
rename. `Tamper` and `SourceChanges` are the outside world.

A patch is proposed against the book as it is then and reviewed later. `_review` reads its position
first: `Accept` and `Reject` find its `before`, `RollBack` and `AcceptInPlace` its `after`,
`ReviewMixed` neither, which fails the job; `JudgeInBatch` does not look. Two proposals share no cell
(`Disjoint`), unless a resumed job left one to the phase of another reviewer: `Resume` puts what waits
into `carried`, and from then on a sibling may be proposed and applied over it. `overtaken` remembers
to whom that happened. `AcceptInPlace` is an acceptance of a patch found in place, for which
the table of transitions has no edge: the exception ends the worker.

### IssueFlow and IssueRepair

`state`, `used`, `retries` are the issue's row; `attempts`, `patches`, `verdict`, `blind`
and `ruling` the tables about it; `book` what the working copy holds in its cells; `pc`,
`hand` and `mode` the worker's place inside `_write`, `_review` or `_apply`. A Writer call is
`Reserve` (the attempt is spent and saved), `InsertAttempt`, then one of the answers, each
closing the row first and saving the issue next, or `InsertPatch`, `LinkPatch`,
`SaveProposed`. `_latest_patch` is ordered by `attempt_no` alone; SQLite returns the row
inserted first on a tie, and so does `Latest`. A sibling's edit and a reopening by final
validation are the two things the rest of the council does to an issue. The sibling stays away
from a proposal in flight unless a resumption left it behind (`Resume`, `carried`); `overtaken`
remembers that it did not. The application of
a patch is one step here: that is what `ApplyProtocol` establishes.

### JobLease

Two kinds of actors: processes (`up`, `_running`, the pool's queue, the list of a purge) and
per process and job a worker (`pc`, whether its pinned epoch is the row's, whether its
keeper gave up). Epochs are kept as "is it the row's epoch", which is the only question the
code asks of them, so the model needs no bound on them. `acquire_lease` is two steps, the commit and the read that returns the epoch, as in the code. A step of the council is reduced
to what crosses the lease: the fenced spending of its budget, unfenced rows, the check and
the replacement of the workbook, the fenced transition. `_finalize` is three: it reads the workbook
(`Finalize`), makes the directory of the outputs, with its parents, and copies the workbook there
(`HandOver`), then moves the job. A purge lists, removes a directory (`PurgeFiles`) or fails to
(`PurgeFails`), and deletes the rows of those it removed (`DeleteJob`). `spoiled` is history: a
directory was removed while somebody worked on its job.

### Pipeline

`state`, `rounds`, `failures` are the job's row and the events that bound it; `content` what
each block holds; `issue`, `used`, `role` the issues by fingerprint; `done`, `shorts`,
`verifications`, `never`, `contradicted` what the scans and verifications wrote down;
`pc`, `todo`, `hand` the worker inside a step. A step is as many actions as it has commits
that matter: the findings of a scan or of a validation are recorded one by one (`OpenIssue`,
`FoundNew`, `Reopen`), then the block is marked or the job moved; an application is followed
by the deletion of the marker (`ClearMarker`). `Crash` falls between any two, `Resume` starts
the phases over. `Offered` translates the queues: `Grouped` is what the block groups of
`_repair` can pick, `Free` the busy-block clause of `next_issue_for_phase`. A rule is known by
the contents it fires on; a patch passes the gate if its own finding is gone and only warnings
start to fire, judged when it is proposed: a sibling applied in between (`moved`) makes its
effect arbitrary. `checked` and `stale` are history: contents an independent pass (sweep or
final verification) accounted for, and blocks whose marker a crash left standing.

`BlockScan` has the scans themselves. Three things are coarser than the code. A block is one content, so an issue whose own edits
cancel out still counts as edited. A semantic claim a sibling settled is recognised in the
code by the exact expected value of one cell; here any repair of the block may settle it. A
refunded attempt is no attempt. Of `steps_used` the model counts what comes back unattributable from
an audit or a sweep (`Requeue`, `wasted`), since nothing else bounds that; a step that finds the
budget spent fails the job (`Affordable`, `Fused`). What the other steps cost is in `Stopped`, which
may end a job at any step.

### BlockRepair

`state`, `used`, `retries`, `open` are the rows of each issue; `cand` the cells of its latest
patch; `dirty` the candidates somebody overwrote; `verdict` what is recorded on it, by role; `at`,
`group`, `todo`, `answer` the worker inside a step. `Offer` is the order in
which `_repair` asks `LiveBlockGroup`, `UnpreparedSiblings`, `InflightSiblings` and `NextIssues` (the
query of `next_issue_for_phase`). A batched step is as many
actions as it has commits: each attempt is reserved by itself, one call goes out, each result
is settled by itself, and a crash between two leaves the rest `open`; `Crash` includes what
`recover_attempts` then makes of them: closed and refunded. `carried` is history: candidates that a resumed job left to a phase that
does not look at them.

### BlockScan

`done`, `short`, `never`, `rounds`, `private`, `issues`, `doubted`, `claims` are rows and events,
`registry` the process's memory. `Dispatch` is a call for a batch: every block's answer is
omitted, swapped, short, about foreign cells or whole; `todo` is what is still to be persisted and
`stage` which commit is next. `Crash` empties the memory, and the next worker rebuilds the registry from
`private`. A reading of a block is a number, so that "this answer's findings" and "this answer's
reasoning" can be compared.

### ModelCall and CliProcess

In `ModelCall`, `pc` is a worker's place between `_pin_prompts`, the check of the budget, the
charge, the process and its row; `current` whether its epoch is the row's, as in `JobLease`;
`built` the deployment its client was made from, `pins` what the job was started under. A process
may end in an answer, an answer of the wrong shape, a transient failure, a refusal or a final failure;
`RetryingClient` and `call_structured` count around it. `CliProcess` is the inside of that
process: the child's own steps are unconstrained; `reader`, `buffer`, `total`, `kept`, `overflowed`
are `_read_capped`, whose reads return a whole chunk or, at the end of the pipe, what is left
(`Fill`, `Read`); `ending` is `_terminate_group`, which the caller and a reader may run at once; a join
gives up on a thread that is `Blocked`. `Interpreted` is `_interpret` with its two classifiers, each in
the order of its tests: an exit of zero whose text is no JSON is a malformed envelope and an envelope with
nothing in it has no output, whatever signals either holds. A helper that writes to standard output may
spoil the envelope, and one that holds the pipe may keep the end of a text from being read; of a text cut
short any signal may be missing.

### FinalGate

`file` is the working copy reduced to what the comparison tells apart; `ledger` the change
records; `pending` what each of two workers loaded and will save; `Edited` what `apply_edits` and
the appearance of an edited row make of it; `intent` the open intent of each. `Save` replaces the whole
file by what the worker loaded, edited; `Record` and `Settle` are the two commits after it. `TakeOver` begins
`recover_apply_intents`: a batch the cells hold is recorded, with a time of its own and whether or not
it was before, and settled by `RecoverySettles`; between the two the recovery may die and begin again
(`RecoversAgain`). `Differences`,
`NetChange`, `Explained`, `ChangesNotPresent` and `Passed` are `_compare`, `net_changes`, `reconcile`
and `run_final_gate`.

### Sheet and PatchGate

A sheet is a function from rows and columns to short texts. `Sheet` cuts it into blocks, derives the
workbook's conventions and finds what the rules on structure, identifiers, dependencies, names
and answers find. `PatchGate` has every check of `validate_patch` in the code's order on a
simulated block; `Repair` accepts a patch for a finding of a rule or of a model and the file is read
again. Parsing of identifiers and of mathematics is a constant function on the texts of an instance.
`RulesNeverWorse` and `RepairHolds` speak of the block that was repaired: its name, its rows and what
the rules find in them. The specifications of `PatchGate` and `CliProcess` carry a prefix (`PatchSpec`,
`CliSpec`), because each shares a proof module with another component.

## What the runs check

| Run | Instance | Result |
| --- | --- | --- |
| `apply` | 2 patches and a rollback, 2 cells, 2 values, 1 change from outside | passes; 6 properties |
| `apply_carried` | as `apply` | `OnlyFromOutside` fails |
| `issue` | 2 attempts, 1 refund, 1 reopening, 1 sibling edit, 2 patches, 3 values | passes; 7 properties |
| `blocks` | 3 issues of a block, two of them in one row with one cell in common, 1 crash, 1 resume, 2 rounds | passes; 3 properties |
| `scan` | 2 blocks in one batch, 1 re-scan, 2 rounds, 1 crash | passes; 2 properties |
| `pipeline` | 2 blocks, 3 issues, 2 contents, 1 attempt, 1 lost call, a fuse of 2 wasted steps, 1 crash, 1 resume | passes; 5 properties |
| `lease` | 2 processes, 1 job, 2 steps, 2 faults | passes; 4 properties |
| `lease_purge` | 1 process, no faults | `PurgeSparesRunning` fails |
| `calls` | 2 workers, 3 deployments, 2 attempts, 1 schema retry, 1 fault, 1 resume | passes; 3 properties |
| `cli` | chunks of 2 pieces, pipes of 1, cap 2, up to 3 pieces on each pipe, 4 texts of an exit | passes; 4 properties |
| `gate` | 2 rows, 2 columns, 2 batches of up to 2 cells, 1 further recovery, 1 change from outside | passes; 3 properties |
| `patch` | 3 workbooks of 7 rows, patches of 1 or 2 cells, 2 accepted repairs | passes; 3 properties |

Each run's question and answer is in `PROJECT.json` under `about`.

**Bounds.** In `apply` the second patch is there to overlap the first, once a resumption carried it,
or not; two cells are the least of which a patch can be half in place, so that a third value adds
nothing there. Crashes, restarts and resumptions are not bounded; each patch is proposed
once. Patches are interchangeable, so an action constraint takes them in order, as it takes the two values
of `issue` that were not submitted (a symmetry set would do for safety, but TLC's liveness checking does
not respect one). In `issue` two attempts and one refund are the least with which a
refund, a cap and a call in between differ; one reopening and one sibling edit are the least
with which the workbook holds something no patch of the issue knows. In `blocks` the first and the
third issue share a row (so they may not be batched) and a cell, one belongs to the other role, and
one is semantic or found by a rule: with two issues no group and busy block coexist. In `scan` two
blocks of one call are what can be swapped, and one of them is changed; one re-scan is the code's default. In
`pipeline` a finding by each of the three sources is on two blocks: one block can be done and the
other not, which a resumed job has to respect; two rounds are the defaults; one attempt suffices
because an issue repaired mechanically has it left when it is reopened and one repaired by the
Writer has not; of two wasted steps the first lets the job go on and the second ends it. In `lease` two processes are what a rolling deployment has; one stall and one
more fault reach the states where two workers hold one job. In `calls` three deployments differ in
the model and the budgets or in the prompts' text; two answers of work let a call be charged on
either side of a take-over. In `cli` a payload and an output longer than a pipe block the child
and the writer; three pieces are a whole chunk and a part of one, and go beyond the cap. In `gate` one row is wrapped and holds a
number where text is forced, one is plain and holds an empty string; two batches are what a
stalled save takes the second out of, and a recovery that begins again makes a third record of a cell
recorded twice. In `patch` the three workbooks have between them each defect the modelled
rules look for, on blocks that a patch could split, merge or unname.

**Fairness.** `apply`: a worker that runs takes its next step, and a lapsed lease is swept
(`JobPoller` ticks for ever). `issue` and `blocks`: the same, seen from an issue and from a block; crashes are
bounded in `blocks` and finitely many by the formula in `issue`, because a crash loop is the one thing
the code does not bound. `lease`:
threads run, the poller ticks, a dead worker's lease lapses, a process that is down is
started again; faults (crashes, stalls, shutdowns, failed releases, exceptions) are bounded
by `MaxFaults` and not fair. `pipeline`: a worker that runs goes on, and a job whose worker died is swept
(`JobLease`); calls, budgets, crashes and resumes are not fair. `JobEnds` rests on the rounds, attempts and
re-scans and, for answers that name no block of theirs, on the step fuse: without it an audit or a sweep may
ask for ever. `calls`: a worker's thread runs,
a process ends (`CallReturns` of `cli`), the sweep claims a job nobody works on. `cli`: the caller's
threads run and the clock goes on; the child may do nothing for ever. No fairness is assumed of the
purge, of a resume request, of a model's answers, or of anything outside the service.

## Where the code and its words disagree

Two are runs with `expect: violation`, their text is in `PROJECT.json` under `findings`:

1. `PurgeSparesRunning` (`lease_purge`): the purge acts on a list that a resume makes stale.
2. `OnlyFromOutside` (`apply_carried`): two comments say a mixture of a patch's cells can only come from
   outside the job; a proposal that a resumed job carried past a sibling is failed for corruption without.

For others a configuration lies beside the model, named after the property that fails; run it
with `tlc -config <file>.cfg MC<module>`:

| Configuration | Property | What happens |
| --- | --- | --- |
| `ApplyProtocol_once` | `RecordedOnce` | `orchestrator.py:217`: a crash between the change records and the settled intent duplicates the records |
| `IssueRepair_tie` | `AfterOnlyLegacy` | `council.py:3266`: a mechanical patch and the Writer's first patch after a reopening both carry `attempt_no` 1; the review takes the wrong one and finds it in the workbook |
| `BlockRepair_twice` | `ReviewedOnce` | `docs/llm-data-contract.md:127` promises that the verdicts of one response are reused after a crash; `_review_batch` keeps them under the role of its oldest issue, and a review of another group under another role asks again |
| `Pipeline_open` | `StillOpenSettles` | `council.py:4161`: a crash in a validation round leaves its issues open; the next round finds them in flight, counts none and the job is finalized |
| `JobLease_resume` | `ResumeMoves` | `workers.py:381`: `POST resume` ignores that `submit` refused |
| `JobLease_starve` | `OthersSettle` | `workers.py:15`: a poison job at the head of a bounded sweep starves the others |
| `JobLease_orphan` | `NoDirectoryWithoutRecord` | `workers.py:278`: files first, then rows, is to leave no directory without a record; `_finalize` of a resumed job makes the directory again between the two (`council.py:1995`) |
| `PatchGate_breaks` | `NothingElseBreaks` | `patch_gate.py:16`: `regressions_introduced` reuses the reader's findings, so a defect only the reader reports is not seen when a patch introduces it; a hint's dependency is "repaired" by giving the hint above it an unknown Row Type |
| `ModelCall_pins` | `CallsUseThePins` | `council.py:899`: a resumed job calls the model its new process is configured with, not the pinned one |
| `CliProcess_group` | `GroupEnded` | `claude_cli.py:246`: a helper that ignores SIGTERM outlives the leader that obeys it, and nothing kills the group then |
| `FinalGate_lost` | `EveryLostWriteCaught` | `final_gate.py:185`: `_changes_not_present` takes a cell for present when any of its dimensions differs, its wrap flag included, so a lost text of a wrapped row passes |

The rest is visible in the models, without a property of its own:

* `persistence.py:17` says every write is fenced; `save_issue`, the inserts, `record_changes` and
  `settle_apply_intent` carry no epoch (`JobLease.SaveRows`, `FinalGate.Record`), and the lease is
  checked before, not with, the replacement of the workbook. `acquire_lease` may pin an epoch that is another
  worker's; `FatalStays` holds except after that.
* `SuccessIsChecked` has two exceptions. `stale` is a `final_semantic` marker that survives the repair
  it predates, because the worker died between the save of ACCEPTED and `clear_block_done` (`council.py:2033`).
  `Restored` is a block that was repaired and got its submitted content back: it has no net change,
  so it is not verified, and its sweep may have seen the repaired content, although `council.py:1511`
  says untouched blocks "have no later mutation to invalidate" their sweep.
* `CandidatesStandAlone` excepts `carried`: `persistence.py:782` says two issues never race on one
  cell, but a resumed job may leave a candidate to a later phase, which applies it over a sibling's
    edit and then fails for corruption. That is what `NeverMixed` and `CorruptionHasCause` except as well. A
  patch accepted in a batch is applied without the rejected sibling it was reviewed with.
* When that sibling wrote the very value the carried proposal asks for, `_review` finds the proposal in
  place; a verdict against it is rolled back, but from AWAITING_REVIEW no transition leads to ACCEPTED, so
  a verdict for it raises IllegalTransition, and so again in the next worker, which finds the verdict
  recorded (`AcceptInPlace`, `ApproveInPlace`), while an approved sibling waits. `IssueSettles` speaks of
  runs in which that does not go on, `ApprovedIsSettled` excepts it (`StuckInReview`).
* An exit of zero with a text that is not JSON, or an envelope without an error and without output, is
  retried though the text speaks of a usage limit (`Interpreted`). A helper of the CLI that keeps the
  pipes open costs up to a chunk of the answer, which is then malformed and asked for again.
* The token fuse is overshot by one call for each owner, not by one in all; a fenced-out worker's
  `provider_failure` counts on its successor's budget; a job that failed with its budget exhausted
  fails at once when it is resumed, since the budget is pinned.
* DUPLICATE_PROBLEM_NAME and BLOCK_HAS_NO_STEP name no column, so every repair of them is refused
  (STRUCTURAL_COLUMN_UNAUTHORIZED), though `validation/rules/structure.py` says each block "needs its own repair". `target_findings`
  returns an empty tuple for the former on a workbook of one block. STALE_BEFORE, which `models.py:584`
  and `rejection_consumes_attempt` exempt, is never produced. `simulate_block` takes a row for
  blank by its contract columns alone.
* The claim verdicts of a short first scan are dropped though its findings are opened; a death between
  the `rows_never_verified` event and the mark leaves a completely re-scanned job without success; audit and
  sweep requeue a block without a bound of their own, the hazard a comment in `_verify_blocks` names, until
  the step fuse fails the job (`Pipeline.Requeue`), which it then does again on every resume;
  an answer under another block's id passes as coverage of a block without graded rows; a re-scan overwrites the registry's
  entry of the scan before, whose findings stay open; a sweep's `block_is_sound = false` without a
  finding has no effect.

## What is proved

`ApplyProtocolProofs`, for any finite or infinite sets of cells, values, patches and rollbacks, under the
assumption named in `ApplyProtocol`. The properties are not inductive. `Sound` adds to the
types that a row exists for whatever is in hand, waits or is under an intent, and whose issue it is.
`Consistent` describes the books while nobody outside touched them: waiting patches of one phase share no
cell (`WaitingDisjoint`), an open intent belongs to the patch in hand or waits for the recovery, and
its cells are no mixture (`OpenIntentHeld`, `OneOpenIntent`), what each position of the worker says
about the patch in its hand (`PositionMeans`), a difference between workbook and ledger is
explained by a patch that is in place (`LedgerBehindBook`), what is applied is recorded
(`AppliedIsRecorded`), a settled intent of a patch nobody overtook says what the cells hold
(`IntentTold`), and who was overtaken while waiting met a carried patch (`CarriedFirst`). `IInv` is `Sound`,
`CorruptionHasCause` and, unless the book was tampered with, `Consistent`; each property follows from it,
and the refinement maps a step to the abstract application or to a stutter.

`IssueRepairProofs`, for any values, caps and bounds under `RepairAssumption`. Its properties
lean on one another, so `IInv` has fifteen parts. The money: a reservation in hand and the
rows of `attempts` are paid for by `used + retries` (`AttemptsPaid`), a refund by a row that
ended without a judged answer (`RefundsPaid`), and an open row is the last and belongs to the
call in progress or to a dead worker (`CallIsOpen`); `CallsBounded`, `RefundsEarned` and
`OpenAttemptIsACall` follow. The candidates: patches are ordered by number and share one only
at 1 (`PatchesNumbered`), a verdict names the first patch of its number (`VerdictsName`), what
is under review is the latest (`ReviewedIsLatest`), a judged attempt was recorded
(`JudgedWasRecorded`) and an approved one accepted (`AppliedWasAccepted`): `AppliedIsJudged`
follows. The workbook: unless two patches tie or a sibling overtook the carried one, the cells
hold the patch the rows say (`PatchInPlace`), hence `NeverMixed`; a failed job has no worker
(`FailedIsDown`). `ReviewerNotSilenced` is the least obvious: an issue a
silent rule closes has `used = 0`, so every attempt it made was refunded, so none was judged,
so no verdict exists; the lemma `RefundedIsUnjudged` counts finite sets for it.

`BlockRepairProofs`, for any issues, roles, proposals, batches and bounds under `BlockAssumption`, which asks that
issues of different blocks share no cell, as `validate_patch` refuses an edit outside the block. Who may
share a call is a recursive choice (`Compatible`); its lemmas say that it is a part of what is offered and empty
only with it (`CompatibleIsPart`), that a group is of one block and of the states asked for (`GroupMeans`), and
`OfferMeans` what each query of `_repair` returns. For `CandidatesStandAlone`: what is in flight beside an
issue that is offered was carried past it by a resumed job (`KnownFirst`, lemma `OfferedMeets`); while a group is
written nothing else of its block is in flight but what that call has settled (`Placed`, `Writing`);
the phases that take one issue at a time have one of each block under way (`Alone`); so two candidates meet
only in the first phase, and only past one another (`Disjoint`), and no candidate but a carried one is
overwritten (`Clean`). A phase is left when the offer is empty, and then nothing of it is in flight and
no query hides an issue (`OfferEmpty`): `NoneForgotten`.

`JobLeaseProofs`, for any processes, jobs, threads and faults under the assumption of
`JobLease`. A process knows the current epoch of a row only if it took the lease last or read
the epoch back too late (`EpochFences`); hence nobody else moves a job between the look and the
transition of a resumption (`ResumesFailed`); before the first fault of any kind whoever works
on a job holds its lease (`HolderHasLease`); rows go, or are about to, only after the directory, which
only a worker past its reading of the workbook makes again, and such a worker was there when it was
removed (`PurgeOrder`). `FatalStays`, `LeaseKept`, `OneWorker` and `NoOrphanFiles` follow. The pool has an invariant of its own: in each process what is queued or at work is under the guard
`_running`, and no job is queued twice (`Once`). A sweep lists each due job once because `Due` orders them by a
rank that is an injection into as many numbers as there are jobs (`DueListsEach`); requests, contended leases,
shutdowns and the ends of workers then keep it: `QueuedOnce`.

`PipelineProofs`, for any blocks, issues, rules, contents and budgets under
`PipelineAssumption`. `IInv` has sixteen parts. For success: a block nobody repaired holds what
was submitted (`UneditedIsSubmitted`); a swept block without a repair was accounted for unless
the job remembers that it was not (`SweptMeans`, `SweptFirst`); a marker stands for the content
of its block but for the moment before `ClearMarker` and for what a crash made of it
(`MarkerMeans`). `Finalize` asks for a marker on each changed block, and the sweep covers the
others: `SuccessIsChecked`. For laundering: a round ends with every finding of the rules live
or with a person (`FindingsTracked`), and reconciliation withdraws none that fires. For
`RepairsStand`: no repair closes an issue whose edit is in the workbook (`EditedMeans`). For
`NothingLeftBehind`, in a run without crash and resume: each early phase only has issues of its
own role (`TodoMeans`, `RolesByPhase`); the phases that offer groups end without a live issue
(lemma `GroupsDrain`), so one issue of a block is in flight afterwards (`OneInFlight`), so the
queue that leaves out busy blocks hides none (lemma `FreeDrains`); a validation round starts
without live issues and knows of those it makes (`RoundCounts`).

`BlockScanProofs`, for any blocks, batches, answers and deaths under `ScanAssumption`. For
`ReasoningIsRegistered`: a row of reasoning is no older than the findings it is behind, the registry
no older than the row, and neither newer than the next scan (`Chain`); while results of a call wait
for their commits, the registry holds the reasoning of each, and the row that of the one whose
findings are opened next (`Held`, with `Places` for where the worker is). For `SuccessIsExamined`: a
result that holds nothing against its block is the block's own and complete, or contradicts itself
where that is noted (`Vouched`; lemma `ResultsAreVouched` follows `attribute`, `cells_for_block` and
`coverage_gaps` through every answer, swapped ids included); results in hand are of blocks not yet
marked, one of each (`Owed`); which of the writes came before the place the worker is at (`Opened`,
`Doubts`, `Decided`, `Claimed`); so a marked block was examined, or one of two notes says it was not
(`Marked`), and a phase is left when all are marked (`Emptied`). `_finalize` asks for no such note.

`ModelCallProofs`, for any workers, deployments and budgets under `CallAssumption`. The lease has one
owner (`Ownership`); processes begun and charges spent but not yet used are together at most what was
charged (`Paid`), rows, losses and processes under way are together what was started (`Accounted`): both
count finite sets of workers. For the fuse the tokens still to come are bounded through the calls in
flight of former owners (`Bounded`). `CallsArePaid` and `OneCallOvershoots` follow.

Its second half is `CliProcess`, for any lengths, chunks, caps and texts under `CliAssumption`. What is in a pipe,
in a buffer or was read was written (`CliFlow`), a reader keeps all of it up to the cap (`CliKept`) and stops only
at the end of the pipe with an empty buffer (`CliDrained`); a reader the join gave up on has less than a chunk in its
buffer and a helper at the other end, which gives `AnswerIsWhole`. An envelope was written before the exit
(`CliSaid`), so one of which nothing is missing is read as it was meant: `LimitIsFinal`, of every outcome the
callers retry. Whoever ended the group did so to the end (`CliOver`, `CliGone`), hence `LeaderGone`.

`FinalGateProofs`, for any submitted workbook, batches and damage under `GateAssumption`.
`NothingUnrecorded` needs the types and that no record is from the future (`Dated`): the record `NetChange`
ends with exists and is the latest of its cell (lemma `LatestIsLast`), and each difference the
comparison sees is one `reconcile` explains. `LostWriteCaught` adds that an edit leaves a plain
cell plain, in the file and in what any worker loaded (`PlainStays`). For `NoFalseAlarm`, as long as nobody
damages the file, a text that is not the submitted one was written before, in the file, in what a worker or
an open intent loaded and in the before of a record (`History`, of `Origins` and `FirstOwner`); so the first record of a cell
starts from the submitted text (lemma `Ends`), and replaying the log makes the file its records describe (lemma
`ReplayedIsMade`, an induction over the records).

Its second half is `PatchGate` on `Sheet`, for any workbooks, texts and patches under `PatchAssumption`: rows are
numbered, the empty text names nothing, a submitted sheet has every row and column. The invariant is only that the
file is a sheet; the work is in one step. `LimitMeans`, `EndMeans` and `OneBlock` say what segmentation makes of a
block whose names and blank rows a patch leaves alone, so the block read again is the simulated one but for blank
rows at its end (`Trims`). `SameFindings` takes the findings of every modelled rule through that difference,
`SameStarts` and `OtherBlocks` show that no other block moves, `RepairedBlock` puts these together, and
`BlocksStay`, `RulesNeverWorse` and `RepairHolds` follow from what `validate_patch` demanded of the simulation.

The type invariant of each of these modules is a theorem and so is not among the runs' properties. Every
invariant and every action property a passing run checks is a theorem. `QueuedOnce`, `LeaseKept` and `RefundsEarned` are theorems no run lists.

Only model-checked is liveness: `ApprovedIsSettled`, `IssueSettles`, `RepairEnds`, `JobSettles`, `JobEnds`,
`JobComesToRest` and `CallReturns`, because fairness and ENABLED are out of the prover's reach. Inductions over data, where
a proof needs one, are by a least counterexample in a set of numbers: the library's induction theorems
take an operator as a parameter, which the provers here cannot instantiate.

## Not modelled

Text: the rules on LaTeX, notation and symbolic equality, reports, prompts, instruction documents, the
zip and XML level of a spreadsheet. Their outcomes are nondeterministic choices, or constants where a
gate depends on them. The web page and the scripts. Uploads, beyond the row they create. Schema
and JSON projection of the database. Legacy states: PATCH_APPLIED is never saved by the present code.
