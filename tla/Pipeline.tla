------------------------------ MODULE Pipeline ------------------------------
(***************************************************************************)
(* The phases of one job: council._ingest, _audit, _repair,                *)
(* _independent_review, _final_semantic, _validate and _finalize, with     *)
(* their markers, re-scans, rounds and budgets, and what survives a crash, *)
(* a failure and a resume.                                                 *)
(*                                                                         *)
(* A step of the council is several commits; a crash may fall between any  *)
(* two of those modelled.  A scan of several blocks in one call is         *)
(* recorded block after block and is as many scans here.  Of the repair of *)
(* an issue remains what the phases and the queues tell apart (IssueRepair *)
(* has the rest), the application of a patch is one step (ApplyProtocol),  *)
(* and one worker runs (JobLease).  The queues say which issues are        *)
(* offered; which of these is next is left open.                           *)
(***************************************************************************)
EXTENDS Naturals, FiniteSets

CONSTANTS
    Blocks,          \* the problem blocks of the workbook
    NoBlock,         \* stands for none of them
    Issues,          \* what a rule or a model may find: fingerprints
    BlockOf,         \* the block of each
    SourceOf,        \* who finds it: "rule", "audit", "sweep" or "final"
    Contents,        \* what a block may hold
    Submitted,       \* what every block holds in the uploaded workbook
    Fires,           \* the rules that fire on a content of their block
    Warnings,        \* the rules whose findings are warnings
    MaxAttempts,     \* settings.max_repair_attempts
    MaxRounds,       \* settings.max_validation_rounds
    SemanticRounds,  \* settings.final_semantic_rounds
    Rescans,         \* settings.coverage_rescans
    FailureBudget,   \* settings.provider_failure_budget
    StepBudget,      \* settings.step_budget
    MaxCrashes,      \* bound: crashes of a worker
    MaxResumes       \* bound: resumes of a failed job

ASSUME PipelineAssumption ==
    /\ NoBlock \notin Blocks
    /\ BlockOf \in [Issues -> Blocks]
    /\ SourceOf \in [Issues -> {"rule", "audit", "sweep", "final"}]
    /\ Submitted \in Contents
    /\ Fires \in [Contents -> SUBSET {f \in Issues : SourceOf[f] = "rule"}]
    /\ Warnings \subseteq {f \in Issues : SourceOf[f] = "rule"}
    /\ MaxAttempts \in Nat /\ MaxRounds \in Nat /\ SemanticRounds \in Nat
    /\ Rescans \in Nat /\ FailureBudget \in Nat /\ StepBudget \in Nat
    /\ MaxCrashes \in Nat /\ MaxResumes \in Nat

VARIABLES
    state,          \* jobs.state
    fatal,          \* it failed for a reason that is not resumable
    rounds,         \* jobs.validation_rounds_used
    failures,       \* provider_failure events
    wasted,         \* the part of jobs.steps_used that unattributable answers cost
    content,        \* the working copy
    intact,         \* the integrity half of the final gate
    issue,          \* issues.state: "revising" is REVISION_REQUESTED or PATCH_REJECTED,
                    \* "proposed" every state from PATCH_PROPOSED to PATCH_APPLIED
    used,           \* issues.attempts_used
    role,           \* issues.reviewer_role
    edited,         \* issues a patch was applied for (change_records)
    moved,          \* proposals whose block was changed since they passed the gate
    done,           \* block_progress: the blocks marked, by phase
    shorts,         \* coverage_short_* events, by phase and block
    never,          \* there is a rows_never_verified event
    contradicted,   \* blocks whose latest sweep contradicts itself
    verifications,  \* final_verification events of each block
    pc,             \* where the worker is in its step
    todo,           \* findings of the step it has not recorded
    hand,           \* the block of the step
    again,          \* the validation opened or reopened something
    known,          \* KnownBlocks when the findings came in
    checked,        \* history: contents an independent pass accounted for
    stale,          \* history: blocks a crash left marked after a repair
    crashes, resumes

job == <<state, fatal, rounds, failures, wasted>>
book == <<content, intact>>
ledger == <<issue, used, role, edited, moved>>
marks == <<done, shorts, never, contradicted, verifications>>
worker == <<pc, todo, hand, again, known>>
history == <<checked, stale>>
faults == <<crashes, resumes>>
vars == <<job, book, ledger, marks, worker, history, faults>>

-----------------------------------------------------------------------------
Ended == {"succeeded", "needs_human_attention", "failed"}
JobStates == {"created", "ingesting", "auditing", "repairing_known",
              "independent_review", "final_semantic", "final_validation",
              "repairing_validation", "finalizing"} \cup Ended
Resolved == {"accepted", "refuted", "superseded"}   \* SUCCESSFUL_ISSUE_STATES
Unresolved == {"unconfirmed", "needs_human_review"}
Live == {"open", "awaiting", "proposed", "revising"}
InFlight == {"awaiting", "proposed"}
Phases == {"audited", "swept", "final_semantic"}

Init ==
    /\ state = "created" /\ fatal = FALSE /\ rounds = 0 /\ failures = 0 /\ wasted = 0
    /\ content = [b \in Blocks |-> Submitted] /\ intact = TRUE
    /\ issue = [f \in Issues |-> "none"] /\ used = [f \in Issues |-> 0]
    /\ role = [f \in Issues |-> "known"] /\ edited = {} /\ moved = {}
    /\ done = [p \in Phases |-> {}]
    /\ shorts = [p \in {"audited", "swept"} |-> [b \in Blocks |-> 0]]
    /\ never = FALSE /\ contradicted = {}
    /\ verifications = [b \in Blocks |-> 0]
    /\ pc = "idle" /\ todo = {} /\ hand = NoBlock /\ again = FALSE /\ known = {}
    /\ checked = [b \in Blocks |-> {}] /\ stale = {}
    /\ crashes = 0 /\ resumes = 0

(* The rules that fire on the workbook as it stands: run_rules.             *)
Firing == {f \in Issues : f \in Fires[content[BlockOf[f]]]}
FoundBy(source, b) == {f \in Issues : SourceOf[f] = source /\ BlockOf[f] = b}
(* _final_semantic_targets: blocks whose content differs from the upload.   *)
Changed == {b \in Blocks : content[b] # Submitted}
(* Blocks the Known-Issue Reviewer owns: IssueLedger.blocks_with_ledger_entry. *)
KnownBlocks == {BlockOf[f] : f \in {g \in Issues : issue[g] \notin {"none", "refuted"}}}

In(s) == state = s /\ pc = "idle"
Advance(s) == state' = s /\ UNCHANGED <<fatal, rounds, failures, wasted>>
(* _spend: the step that begins here can be paid for.                       *)
Affordable == wasted < StepBudget
Rest == pc' = "idle" /\ todo' = {} /\ hand' = NoBlock /\ again' = FALSE /\ known' = {}
(* A worker with findings to record, for a block or for none.               *)
Record(found, b) ==
    /\ pc' = "found" /\ todo' = found /\ hand' = b /\ again' = FALSE
    /\ known' = KnownBlocks
Recorded(s) == state = s /\ pc = "found" /\ todo = {}

-----------------------------------------------------------------------------
(* The scans: _ingest, _audit and the sweep of _independent_review.         *)

Accepted ==
    /\ In("created") /\ Affordable /\ Advance("ingesting")
    /\ UNCHANGED <<book, ledger, marks, worker, history, faults>>

Ingest ==
    /\ In("ingesting") /\ Affordable /\ Record(Firing, NoBlock)
    /\ UNCHANGED <<job, book, ledger, marks, history, faults>>

(* insert_issue: a fingerprint that is tracked is not opened again.         *)
OpenIssue(f) ==
    /\ state \in {"ingesting", "auditing", "independent_review"}
    /\ pc = "found" /\ f \in todo /\ todo' = todo \ {f}
    /\ IF issue[f] = "none"
       THEN /\ issue' = [issue EXCEPT ![f] = "open"]
            /\ role' = [role EXCEPT ![f] =
                          IF SourceOf[f] = "sweep" THEN "independent" ELSE "known"]
       ELSE UNCHANGED <<issue, role>>
    /\ UNCHANGED <<job, book, used, edited, moved, marks, pc, hand, again, known, history, faults>>

Ingested ==
    /\ Recorded("ingesting") /\ Advance("auditing") /\ Rest
    /\ UNCHANGED <<book, ledger, marks, history, faults>>

Scanned == IF state = "auditing" THEN "audited" ELSE "swept"
Scanning == In("auditing") \/ In("independent_review")
Scan(b) ==
    /\ Scanning /\ Affordable /\ b \notin done[Scanned]
    /\ \E found \in SUBSET FoundBy(IF state = "auditing" THEN "audit" ELSE "sweep", b) :
          Record(found, b)
    /\ UNCHANGED <<job, book, ledger, marks, history, faults>>

(* FindingAttributionError: an answer that cannot be attributed to its block is
   discarded with its findings, and the block waits unmarked as before.     *)
Requeue ==
    /\ Scanning /\ Affordable /\ done[Scanned] # Blocks /\ wasted' = wasted + 1
    /\ UNCHANGED <<state, fatal, rounds, failures, book, ledger, marks, worker, history, faults>>

(* Mutant: a block that stays short is not counted against the job.         *)
MarkScannedQuietly(short, contradiction) ==
    /\ Recorded(state) /\ state \in {"auditing", "independent_review"} /\ Rest
    /\ done' = [done EXCEPT ![Scanned] = @ \cup {hand}]
    /\ UNCHANGED <<job, book, ledger, shorts, never, contradicted, verifications, history, faults>>

(* _persist_coverage, _coverage_incomplete and mark_block_done.  A contradiction
   matters in a sweep only.                                                 *)
MarkScanned(short, contradiction) ==
    /\ Recorded(state) /\ state \in {"auditing", "independent_review"} /\ Rest
    /\ state = "auditing" => ~contradiction
    /\ contradicted' = IF contradiction THEN contradicted \cup {hand}
                       ELSE IF state = "auditing" THEN contradicted
                       ELSE contradicted \ {hand}
    /\ IF short /\ shorts[Scanned][hand] < Rescans
       THEN /\ shorts' = [shorts EXCEPT ![Scanned][hand] = @ + 1]
            /\ UNCHANGED <<never, done>>
       ELSE /\ done' = [done EXCEPT ![Scanned] = @ \cup {hand}]
            /\ never' = (never \/ short)
            /\ UNCHANGED shorts
    /\ checked' = IF state = "auditing" \/ short \/ contradiction THEN checked
                  ELSE [checked EXCEPT ![hand] = @ \cup {content[hand]}]
    /\ UNCHANGED <<job, book, ledger, verifications, stale, faults>>

AuditComplete ==
    /\ In("auditing") /\ done["audited"] = Blocks /\ Affordable /\ Advance("repairing_known")
    /\ UNCHANGED <<book, ledger, marks, worker, history, faults>>

-----------------------------------------------------------------------------
(* The repairs, as the phases offer them: _repair, _next_live_issue.        *)

(* Changed blocks that still have a verification coming: _final_semantic.   *)
Pending == {b \in Changed \ done["final_semantic"] : verifications[b] < SemanticRounds}

(* next_issue_for_phase: one issue in flight per block.                     *)
Free(f) == \A g \in Issues \ {f} : BlockOf[g] = BlockOf[f] => issue[g] \notin InFlight
(* _live_block_group, _unprepared_sibling and _inflight_sibling, for the issues
   S of the phase: only an issue alone in its block waits for another role's. *)
Grouped(f, S) ==
    /\ f \in S
    /\ issue[f] = "proposed" \/ Free(f)
       \/ \E g \in S \ {f} : BlockOf[g] = BlockOf[f] /\ issue[g] \in Live
Roled(r) == {f \in Issues : role[f] = r}

Offered(f) ==
    /\ issue[f] \in Live
    /\ \/ In("repairing_known") /\ Grouped(f, Roled("known"))
       \/ In("repairing_validation") /\ Grouped(f, Issues)
       \/ In("independent_review") /\ done["swept"] = Blocks /\ role[f] = "independent" /\ Free(f)
       \/ In("final_semantic") /\ Pending = {} /\ Free(f)

SetIssue(f, s) == issue' = [issue EXCEPT ![f] = s]
(* A state change of one issue that touches nothing but its row.            *)
Advanced(f, s) ==
    /\ Offered(f) /\ SetIssue(f, s) /\ moved' = moved \ {f}
    /\ UNCHANGED <<job, book, role, edited, marks, worker, history, faults>>
(* An attempt that did not succeed leaves something to try, or a person.    *)
Failed(f) == IF used'[f] < MaxAttempts THEN "revising" ELSE "needs_human_review"
Spend(f) == Affordable /\ used[f] < MaxAttempts /\ used' = [used EXCEPT ![f] = @ + 1]

(* What the patch gate lets through: the finding is gone, and no rule starts to
   fire in its block but a warning's (regressions_introduced).              *)
Permitted(f, c) ==
    /\ c \in Contents /\ c # content[BlockOf[f]] /\ f \notin Fires[c]
    /\ Fires[c] \cap FoundBy("rule", BlockOf[f]) \subseteq Firing \cup Warnings

(* A finding is ready for the Writer: a rule's at once, a model's when it is
   corroborated.  A revision whose call is refunded waits here as well.     *)
TakeUp(f) == issue[f] \in {"open", "revising"} /\ Advanced(f, "awaiting") /\ UNCHANGED used

(* A finding that is closed without an edit: its rule is silent and no attempt
   was made, or it is a model's that the other audit did not confirm.       *)
Close(f, s) ==
    /\ issue[f] # "proposed" /\ Advanced(f, s) /\ UNCHANGED used
    /\ IF SourceOf[f] = "rule"
       THEN s = "superseded" /\ used[f] = 0 /\ f \notin Firing
       ELSE issue[f] = "open" /\ s \in {"refuted", "superseded", "unconfirmed"}

(* The Writer's patch passes the gate, or does not.                         *)
Propose(f) ==
    /\ issue[f] \in {"awaiting", "revising"} /\ Spend(f) /\ Advanced(f, "proposed")
    /\ \E c \in Contents : Permitted(f, c)
Reject(f) == issue[f] \in {"awaiting", "revising"} /\ Spend(f) /\ Advanced(f, Failed(f))

(* The reviewer asks for another patch.                                     *)
Revise(f) == issue[f] = "proposed" /\ UNCHANGED used /\ Advanced(f, Failed(f))

(* To a person: no attempt is left, or the Writer, a reviewer or the
   adjudicator says so.                                                     *)
Escalate(f) == Advanced(f, "needs_human_review") /\ UNCHANGED used

(* A patch is applied and its issue accepted.                               *)
Repaired(f, c) ==
    /\ Offered(f) /\ Affordable
    /\ content' = [content EXCEPT ![BlockOf[f]] = c]
    /\ SetIssue(f, "accepted") /\ edited' = edited \cup {f}
    /\ moved' = (moved \cup {g \in Issues : issue[g] = "proposed" /\ BlockOf[g] = BlockOf[f]})
                    \ {f}
    /\ pc' = "applied" /\ hand' = BlockOf[f] /\ UNCHANGED <<todo, again, known>>
    /\ UNCHANGED <<job, intact, used, role, marks, history, faults>>

(* An approved patch.  The gate saw it before a sibling's patch came between. *)
Apply(f, c) ==
    /\ issue[f] = "proposed" /\ Repaired(f, c)
    /\ IF f \in moved THEN c # content[BlockOf[f]] ELSE Permitted(f, c)

(* The exact repair of a rule's finding, without the Writer.                *)
ApplyMechanical(f, c) ==
    /\ issue[f] = "open" /\ SourceOf[f] = "rule" /\ f \in Firing
    /\ Permitted(f, c) /\ Repaired(f, c)

(* _invalidate_final_verification, in a commit of its own.                  *)
ClearMarker ==
    /\ pc = "applied" /\ Rest
    /\ done' = [done EXCEPT !["final_semantic"] = @ \ {hand}]
    /\ stale' = stale \ {hand}
    /\ UNCHANGED <<job, book, ledger, shorts, never, contradicted, verifications, checked, faults>>

(* Nothing the phase offers is left.                                        *)
Drained ==
    /\ \A f \in Issues : ~Offered(f)
    /\ Affordable
    /\ \/ In("repairing_known") /\ Advance("independent_review")
       \/ In("independent_review") /\ done["swept"] = Blocks /\ Advance("final_semantic")
       \/ In("final_semantic") /\ Pending = {} /\ Advance("final_validation")
       \/ In("repairing_validation") /\ Advance("final_semantic")
    /\ UNCHANGED <<book, ledger, marks, worker, history, faults>>

-----------------------------------------------------------------------------
(* What a later pass finds again: _open_validation_issues.                  *)

Found(f) ==
    /\ state \in {"final_semantic", "final_validation"}
    /\ pc = "found" /\ f \in todo /\ todo' = todo \ {f}
    /\ UNCHANGED <<job, book, used, edited, moved, marks, pc, hand, known, history, faults>>

FoundNew(f) ==
    /\ Found(f) /\ issue[f] = "none" /\ SetIssue(f, "open") /\ again' = TRUE
    /\ role' = [role EXCEPT ![f] =
                  IF BlockOf[f] \in known THEN "known" ELSE "independent"]

(* It is in flight, or with a person already.                               *)
FoundTracked(f) ==
    /\ Found(f) /\ issue[f] \in Live \cup {"needs_human_review"}
    /\ UNCHANGED <<issue, role, again>>

(* Mutant: a rediscovery without attempts is absorbed and changes nothing.  *)
ReopenAbsorbs(f) ==
    /\ Found(f) /\ issue[f] \in Resolved \cup {"unconfirmed"} /\ UNCHANGED role
    /\ IF used[f] < MaxAttempts
       THEN SetIssue(f, "revising") /\ again' = TRUE
       ELSE UNCHANGED <<issue, again>>

(* Mutant: a reopened issue does not ask for another round.                 *)
ReopenUncounted(f) ==
    /\ Found(f) /\ issue[f] \in Resolved \cup {"unconfirmed"} /\ UNCHANGED <<role, again>>
    /\ SetIssue(f, IF used[f] < MaxAttempts THEN "revising" ELSE "needs_human_review")

(* IssueMachine.reopen: a rediscovery while attempts remain, or for a person. *)
Reopen(f) ==
    /\ Found(f) /\ issue[f] \in Resolved \cup {"unconfirmed"} /\ UNCHANGED role
    /\ IF used[f] < MaxAttempts
       THEN SetIssue(f, "revising") /\ again' = TRUE
       ELSE SetIssue(f, "needs_human_review") /\ UNCHANGED again

-----------------------------------------------------------------------------
(* _verify_block, _verify_blocks and _record_final_verification.            *)

Counted(b) == verifications' = [verifications EXCEPT ![b] = @ + 1]

Verify(b) ==
    /\ In("final_semantic") /\ b \in Pending /\ Affordable /\ Counted(b)
    /\ \E found \in SUBSET FoundBy("final", b) : Record(found, b)
    /\ UNCHANGED <<job, book, ledger, done, shorts, never, contradicted, history, faults>>

(* An answer that names a foreign row is discarded, and counted.            *)
RejectVerification(b) ==
    /\ In("final_semantic") /\ b \in Pending /\ Affordable /\ Counted(b)
    /\ UNCHANGED <<job, book, ledger, done, shorts, never, contradicted, worker, history, faults>>

(* The marker is withheld from an answer that certifies nothing, and set in
   spite of the findings of one that does (_verification_defects).          *)
MarkVerified(withheld) ==
    /\ Recorded("final_semantic") /\ Rest
    /\ IF withheld THEN UNCHANGED <<done, checked>>
       ELSE /\ done' = [done EXCEPT !["final_semantic"] = @ \cup {hand}]
            /\ checked' = [checked EXCEPT ![hand] = @ \cup {content[hand]}]
    /\ UNCHANGED <<job, book, ledger, shorts, never, contradicted, verifications, stale, faults>>

-----------------------------------------------------------------------------
(* _validate: the round is counted, its findings recorded, the job moved.   *)

Validate ==
    /\ In("final_validation") /\ intact /\ Affordable /\ rounds' = rounds + 1
    /\ Record(Firing, NoBlock)
    /\ UNCHANGED <<state, fatal, failures, wasted, book, ledger, marks, history, faults>>

IntegrityFailed ==
    /\ In("final_validation") /\ ~intact /\ Affordable /\ Advance("finalizing")
    /\ UNCHANGED <<book, ledger, marks, worker, history, faults>>

Validated ==
    /\ Recorded("final_validation") /\ Rest
    /\ Advance(IF again /\ rounds < MaxRounds THEN "repairing_validation" ELSE "finalizing")
    /\ UNCHANGED <<book, ledger, marks, history, faults>>

-----------------------------------------------------------------------------
(* _finalize.                                                               *)

(* Mutant: an escalation is withdrawn although its own patch is applied.    *)
WithdrawableEdited(f) ==
    /\ issue[f] \in Unresolved
    /\ IF SourceOf[f] = "rule" THEN f \notin Firing
       ELSE /\ BlockOf[f] \in done["final_semantic"]
            /\ \E g \in edited : BlockOf[g] = BlockOf[f]

(* _reconcile_stale_escalations: a rule that is silent now, or a claim a sibling
   settled in a verified block; never one whose own patch is in the workbook. *)
Withdrawable(f) ==
    /\ issue[f] \in Unresolved /\ f \notin edited
    /\ IF SourceOf[f] = "rule" THEN f \notin Firing
       ELSE /\ BlockOf[f] \in done["final_semantic"]
            /\ \E g \in edited : BlockOf[g] = BlockOf[f]
Reconcile ==
    /\ In("finalizing") /\ Affordable /\ pc' = "outputs"
    /\ \E claims \in SUBSET {f \in Issues : Withdrawable(f) /\ SourceOf[f] # "rule"} :
          issue' = [f \in Issues |->
                      IF Withdrawable(f) /\ (SourceOf[f] = "rule" \/ f \in claims)
                      THEN "superseded" ELSE issue[f]]
    /\ UNCHANGED <<job, book, used, role, edited, moved, marks, todo, hand, again, known, history, faults>>

AllResolved == \A f \in Issues : issue[f] \in Resolved \cup {"none"}
Unverified == Changed \ done["final_semantic"]
Contradictions == contradicted \ Changed

Finalize ==
    /\ state = "finalizing" /\ pc = "outputs" /\ Rest
    /\ Advance(IF /\ intact /\ AllResolved /\ Firing = {} /\ ~never
                  /\ Unverified = {} /\ Contradictions = {}
               THEN "succeeded" ELSE "needs_human_attention")
    /\ UNCHANGED <<book, ledger, marks, history, faults>>

-----------------------------------------------------------------------------
(* What goes wrong.                                                         *)

Fail(f) == state' = "failed" /\ fatal' = f /\ UNCHANGED <<rounds, wasted>>

(* _provider_failed: a call of the step is lost, and with too many the job. *)
CallLost(final) ==
    /\ pc = "idle" /\ Affordable
    /\ state \in {"auditing", "repairing_known", "independent_review", "final_semantic",
                  "repairing_validation"}
    /\ failures' = failures + 1
    /\ IF final \/ failures' >= FailureBudget THEN Fail(FALSE)
       ELSE UNCHANGED <<state, fatal, rounds, wasted>>
    /\ UNCHANGED <<book, ledger, marks, worker, history, faults>>

(* Mutant: a step that cannot be paid for is left to the next worker.       *)
FusedLeaves ==
    /\ pc = "idle" /\ state \notin Ended /\ ~Affordable
    /\ UNCHANGED <<job, book, ledger, marks, worker, history, faults>>

(* BudgetExhausted: no step is left to begin.                               *)
Fused ==
    /\ pc = "idle" /\ state \notin Ended /\ ~Affordable /\ Fail(FALSE) /\ UNCHANGED failures
    /\ UNCHANGED <<book, ledger, marks, worker, history, faults>>

(* A budget or the deadline of the run ends it, or its premises are broken. *)
Stopped(f) ==
    /\ pc = "idle" /\ state \notin Ended /\ Fail(f) /\ UNCHANGED failures
    /\ UNCHANGED <<book, ledger, marks, worker, history, faults>>

(* The worker dies, and another starts its step anew.                       *)
Crash ==
    /\ crashes < MaxCrashes /\ crashes' = crashes + 1 /\ pc # "idle" /\ Rest
    /\ stale' = IF pc = "applied" THEN stale \cup ({hand} \cap done["final_semantic"]) ELSE stale
    /\ UNCHANGED <<job, book, ledger, marks, checked, resumes>>

(* resume_from_failure: the phases start over, what they recorded stays.    *)
Resume ==
    /\ resumes < MaxResumes /\ resumes' = resumes + 1
    /\ state = "failed" /\ ~fatal /\ Advance("ingesting")
    /\ UNCHANGED <<book, ledger, marks, worker, history, crashes>>

(* Someone else changes the source or the working copy.                     *)
Damage ==
    /\ intact /\ state \in {"final_validation", "finalizing"} /\ pc = "idle"
    /\ intact' = FALSE
    /\ UNCHANGED <<job, content, ledger, marks, worker, history, faults>>

-----------------------------------------------------------------------------
Repair(f) ==
    \/ TakeUp(f) \/ Propose(f) \/ Reject(f) \/ Revise(f) \/ Escalate(f)
    \/ \E s \in {"refuted", "superseded", "unconfirmed"} : Close(f, s)
    \/ \E c \in Contents : Apply(f, c) \/ ApplyMechanical(f, c)

Rediscover(f) == FoundNew(f) \/ FoundTracked(f) \/ Reopen(f)

Work ==
    \/ Accepted \/ Ingest \/ Ingested \/ AuditComplete \/ ClearMarker \/ Drained
    \/ Validate \/ IntegrityFailed \/ Validated \/ Reconcile \/ Finalize
    \/ Requeue \/ Fused
    \/ \E f \in Issues : OpenIssue(f) \/ Repair(f) \/ Rediscover(f)
    \/ \E b \in Blocks : Scan(b) \/ Verify(b) \/ RejectVerification(b)
    \/ \E short, contradiction \in BOOLEAN : MarkScanned(short, contradiction)
    \/ \E withheld \in BOOLEAN : MarkVerified(withheld)

Next ==
    \/ Work
    \/ \E final \in BOOLEAN : CallLost(final) \/ Stopped(final)
    \/ Crash \/ Resume \/ Damage

(* A running job's worker goes on, and a lapsed lease is swept.             *)
Spec == Init /\ [][Next]_vars /\ WF_vars(Work)

-----------------------------------------------------------------------------
(* Properties.                                                              *)

TypeOK ==
    /\ state \in JobStates /\ fatal \in BOOLEAN /\ rounds \in Nat /\ failures \in Nat
    /\ wasted \in 0..StepBudget /\ content \in [Blocks -> Contents] /\ intact \in BOOLEAN
    /\ issue \in [Issues -> {"none"} \cup Live \cup Resolved \cup Unresolved]
    /\ used \in [Issues -> 0..MaxAttempts]
    /\ role \in [Issues -> {"known", "independent"}] /\ edited \subseteq Issues
    /\ moved \subseteq {f \in Issues : issue[f] = "proposed"}
    /\ done \in [Phases -> SUBSET Blocks]
    /\ shorts \in [{"audited", "swept"} -> [Blocks -> 0..Rescans]]
    /\ never \in BOOLEAN /\ contradicted \subseteq Blocks
    /\ verifications \in [Blocks -> 0..SemanticRounds]
    /\ pc \in {"idle", "found", "applied", "outputs"} /\ todo \subseteq Issues
    /\ hand \in Blocks \cup {NoBlock} /\ again \in BOOLEAN /\ known \subseteq Blocks
    /\ checked \in [Blocks -> SUBSET Contents] /\ stale \subseteq Blocks
    /\ crashes \in 0..MaxCrashes /\ resumes \in 0..MaxResumes

(* council._finalize: a job succeeds only over blocks an independent pass
   accounted for as they are handed back.  Two exceptions: a marker that
   outlived a repair in a crash, and an edited block that got its submitted
   content back, which nobody verifies.                                     *)
Restored(b) == content[b] = Submitted /\ \E f \in edited : BlockOf[f] = b
SuccessIsChecked ==
    state = "succeeded" =>
        \A b \in Blocks : content[b] \in checked[b] \/ b \in stale \/ Restored(b)

(* council._open_validation_issues: "it never launders the defect".  A job that
   goes to a person says of no defect that is still there that it is resolved. *)
NothingLaundered ==
    state = "needs_human_attention" /\ intact =>
        \A f \in Firing : issue[f] \in Live \cup Unresolved

(* council._reconcile_stale_escalations: no job succeeds over a model's repair
   that is in the workbook, was reported again and was not accepted since.  *)
RepairsStand ==
    state = "succeeded" =>
        \A f \in edited : SourceOf[f] = "rule" \/ issue[f] = "accepted"

(* README.md:289: the job always terminates.  What the rounds, attempts and
   re-scans do not bound, answers that name no block of theirs, the step fuse
   does, and a resume does not refill it.                                   *)
JobEnds == []<>(state \in Ended)

(* council._validate, _repair: in a run that nothing interrupted, a job that is
   finalized with an issue still live has used its validation rounds: no phase
   hides an issue, and no rediscovery goes uncounted.                       *)
NothingLeftBehind ==
    state \in {"finalizing", "needs_human_attention"} /\ crashes + resumes = 0
        /\ (\E f \in Issues : issue[f] \in Live) => rounds >= MaxRounds

(* council.py:4161: what a validation finds in flight "will be repaired or
   escalated on its own", unless the job fails.                             *)
StillOpenSettles ==
    \A f \in Issues :
        (state = "final_validation" /\ pc = "found" /\ f \in todo /\ issue[f] \in Live)
            ~> (issue[f] \notin Live \/ state = "failed")

=============================================================================
