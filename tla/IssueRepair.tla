---------------------------- MODULE IssueRepair ----------------------------
(***************************************************************************)
(* The life of one issue: council._write, _review_unpatched_issue,         *)
(* _adjudicate, _review, _apply and the mechanical repair, the accounting  *)
(* of attempts in state_machine.IssueMachine, the reopening of a resolved  *)
(* issue, and orchestrator.recover_attempts after a crash.                 *)
(*                                                                         *)
(* One action per commit, so that a crash can fall between any two.        *)
(* _write_batch and _review_batch take the same commits for each of their  *)
(* issues as the single forms do; where they differ (a batched review does *)
(* not look at the workbook) `mode` tells them apart.                      *)
(*                                                                         *)
(* Assumed of the rest: orchestrator.apply_patch is atomic (ApplyProtocol  *)
(* shows it), and a sibling issue edits the cells of this one only while   *)
(* this one has no proposal in flight, or one that a resumed job left to a *)
(* later phase (BlockRepair).  All the issue's cells are one value.  A     *)
(* failed call of a reviewer changes nothing here and is left              *)
(* out, as are PATCH_APPLIED, which is no longer saved, the branches for   *)
(* an issue in review or approved without any patch, and the escalations   *)
(* _reconcile_stale_escalations withdraws before the report.               *)
(***************************************************************************)
EXTENDS IssueFlow, Naturals, Sequences, FiniteSets

CONSTANTS
    MaxAttempts,     \* settings.max_repair_attempts
    RetryBudget,     \* settings.interrupted_retry_budget
    Batching,        \* settings.repair_batch_size > 1
    Values,          \* what the issue's cells may hold
    Submitted,       \* what they held when the issue was opened
    MaxReopens,      \* bound: rediscoveries by final validation
    MaxSiblings,     \* bound: edits of the same cells for other issues
    MaxPatches       \* bound: rows of `patches`

ASSUME RepairAssumption ==
    /\ MaxAttempts \in Nat /\ RetryBudget \in Nat
    /\ MaxReopens \in Nat /\ MaxSiblings \in Nat /\ MaxPatches \in Nat
    /\ Batching \in BOOLEAN
    /\ Submitted \in Values

VARIABLES
    kind,         \* "rule" (a rule can re-derive it) or "semantic"
    state,        \* the issue's row: state, attempts_used,
    used,         \*   interrupted_retries_used
    retries,
    attempts,     \* repair_attempts; the index is the attempt_no
    patches,      \* patches, in the order they were inserted
    verdict,      \* review_verdicts by attempt_no from 1
    blind,        \* attempt 0: the claim-blind audit
    ruling,       \* attempt 0: the adjudicator
    book,         \* what the working copy holds in the issue's cells
    siblings,     \* edits of those cells for other issues
    reopens,      \* times final validation found the defect again
    job,          \* "running" or "failed" (CORRUPTION)
    carried,      \* a resumed job left the last patch to a later phase
    overtaken,    \* history: a sibling was written while it was in flight
    pc,           \* where the worker is in its step
    hand,         \* index of the patch in its hand, 0 for none
    mode          \* "single" or "batch" review; or what is owed to the
                  \* issue once its attempt is settled

issue == <<kind, state, used, retries>>
history == <<attempts, patches, verdict, blind, ruling>>
past == <<carried, overtaken>>
world == <<book, siblings, reopens, job, carried, overtaken>>
worker == <<pc, hand, mode>>
vars == <<issue, history, world, worker>>

-----------------------------------------------------------------------------
Outcomes == {"open", "interrupted", "patch_rejected", "escalated",
             "patch_recorded", "patch_accepted", "revision_requested"}
Decisions == {"accept", "revise", "human_review"}
Corroborations == {"exact", "related", "silent", "silent_sound"}
Rulings == {"revise", "accept", "undecided"}
Owed == {"escalate", "refund", "reject", "reject_free"}

AttemptNumbers == 1..(MaxAttempts + RetryBudget)
PatchRows == [no : AttemptNumbers \cup {1}, before : Values, after : Values,
              by : {"writer", "mechanical"}]
Verdicts == [decision : Decisions, patch : Nat]
NoVerdict == [decision |-> "none"]

(* "idle": between two steps; "down": no worker; "recover", "refund": a new
   worker in recover_attempts.  Inside a step: "reserved" (the attempt is
   spent), "calling" (its row is committed, the Writer runs), "settled" (the
   row is closed, the issue not saved yet), "proposed" (the patch is
   recorded), "linked" (and its attempt names it), "review" (AWAITING_REVIEW
   saved), "judged" (the verdict is durable), "decide" (the attempt it judged
   is settled), "undone" (rolled back), "mechanical" (a mechanical patch
   recorded), "apply" (APPLYING saved), "written", "audited" and "ruled" (the
   verdict at attempt 0 has just been inserted).                            *)
Positions ==
    {"idle", "down", "recover", "refund", "reserved", "calling", "settled",
     "proposed", "linked", "review", "judged", "decide", "undone",
     "mechanical", "apply", "written", "audited", "ruled"}

TypeOK ==
    /\ kind \in {"rule", "semantic"}
    /\ state \in IssueState \ {"patch_applied"}
    /\ used \in 0..MaxAttempts /\ retries \in 0..RetryBudget
    /\ attempts \in Seq(Outcomes)
    /\ patches \in Seq(PatchRows)
    /\ verdict \in [AttemptNumbers \cup {1} -> Verdicts \cup {NoVerdict}]
    /\ blind \in Corroborations \cup {"none"}
    /\ ruling \in Rulings \cup {"none"}
    /\ book \in Values
    /\ siblings \in 0..MaxSiblings /\ reopens \in 0..MaxReopens
    /\ job \in {"running", "failed"}
    /\ carried \in BOOLEAN /\ overtaken \in BOOLEAN
    /\ pc \in Positions /\ hand \in 0..Len(patches)
    /\ mode \in Owed \cup {"single", "batch"}

Init ==
    /\ kind \in {"rule", "semantic"}
    /\ state = "open" /\ used = 0 /\ retries = 0
    /\ attempts = << >> /\ patches = << >>
    /\ verdict = [n \in AttemptNumbers \cup {1} |-> NoVerdict]
    /\ blind = "none" /\ ruling = "none"
    /\ book = Submitted
    /\ siblings = 0 /\ reopens = 0 /\ job = "running"
    /\ carried = FALSE /\ overtaken = FALSE
    /\ pc = "idle" /\ hand = 0 /\ mode = "single"

-----------------------------------------------------------------------------
(* Mutant: a refund without a budget.                                       *)
RefundAlways ==
    IF used > 0
    THEN used' = used - 1 /\ retries' = retries + 1
    ELSE UNCHANGED <<used, retries>>

(* IssueMachine: the cap and the refund.                                    *)
CanAttempt(n) == n < MaxAttempts

Refund ==
    IF retries < RetryBudget /\ used > 0
    THEN used' = used - 1 /\ retries' = retries + 1
    ELSE UNCHANGED <<used, retries>>

Idle == pc' = "idle" /\ hand' = 0 /\ mode' = "single"
WorkerDown == pc' = "down" /\ hand' = 0 /\ mode' = "single"
JobFailed == job' = "failed" /\ WorkerDown

(* The last patch is a new one.                                             *)
Fresh ==
    /\ carried' = FALSE /\ overtaken' = FALSE
    /\ UNCHANGED <<book, siblings, reopens, job>>

(* save_issue of an issue that only moved.                                  *)
Save(s) == state' = s /\ UNCHANGED <<kind, used, retries>>

(* _latest_patch: the highest attempt_no.  SQL leaves a tie open; SQLite
   keeps the row inserted first.                                            *)
Latest ==
    CHOOSE i \in DOMAIN patches :
        \A j \in DOMAIN patches :
            \/ patches[j].no < patches[i].no
            \/ patches[j].no = patches[i].no /\ i <= j
Last == Len(attempts)
Held == patches[hand]

-----------------------------------------------------------------------------
(* _write, before any attempt is spent.                                     *)
Writable == pc = "idle" /\ state \in NeedsWriter /\ CanAttempt(used)
Untouched == state = "open" /\ used = 0

(* Mutants: the last attempt is never the last; a silent rule always closes
   the issue.                                                               *)
ExhaustedLater ==
    /\ pc = "idle" /\ state \in NeedsWriter /\ used > MaxAttempts
    /\ Save("needs_human_review")
    /\ UNCHANGED <<history, world, worker>>

SupersededAnytime ==
    /\ Writable /\ kind = "rule"
    /\ Save("superseded")
    /\ UNCHANGED <<history, world, worker>>

Exhausted ==
    /\ pc = "idle" /\ state \in NeedsWriter /\ ~CanAttempt(used)
    /\ Save("needs_human_review")
    /\ UNCHANGED <<history, world, worker>>

BlockVanished ==
    /\ Writable
    /\ Save("needs_human_review")
    /\ UNCHANGED <<history, world, worker>>

(* The rule is silent and this issue has spent no attempt.                  *)
Superseded ==
    /\ Writable /\ kind = "rule" /\ used = 0
    /\ Save("superseded")
    /\ UNCHANGED <<history, world, worker>>

(* _mechanical_patch always numbers its patch 1 and inserts no attempt.     *)
InsertMechanical(after) ==
    /\ Writable /\ kind = "rule" /\ Untouched
    /\ after # book /\ Len(patches) < MaxPatches
    /\ patches' = Append(patches, [no |-> 1, before |-> book, after |-> after,
                                   by |-> "mechanical"])
    /\ pc' = "mechanical" /\ hand' = Len(patches) + 1 /\ UNCHANGED mode
    /\ Fresh /\ UNCHANGED <<issue, attempts, verdict, blind, ruling>>

SaveMechanical ==
    /\ pc = "mechanical"
    /\ Save("applying")
    /\ pc' = "apply"
    /\ UNCHANGED <<hand, mode, history, world>>

MarkReady ==
    /\ Writable /\ Batching /\ kind = "rule" /\ Untouched
    /\ Save("awaiting_patch")
    /\ UNCHANGED <<history, world, worker>>

-----------------------------------------------------------------------------
(* _review_unpatched_issue and _adjudicate: a model's claim is audited by an
   agent that was not told of it, and where the two differ it is ruled on.
   Both verdicts are kept under attempt 0 and never asked for twice.        *)
Claim == Writable /\ kind = "semantic" /\ Untouched

AuditBlind(c) ==
    /\ Claim /\ blind = "none"
    /\ blind' = c /\ pc' = "audited"
    /\ UNCHANGED <<hand, mode, issue, attempts, patches, verdict, ruling, world>>

(* After a fresh audit the step ends without a ruling: one call per step.   *)
AwaitRuling ==
    /\ pc = "audited" /\ blind = "related"
    /\ Idle
    /\ UNCHANGED <<issue, history, world>>

ConcludeAudit ==
    /\ pc = "audited" \/ Claim
    /\ \/ blind = "exact" /\ Save("awaiting_patch")
       \/ blind = "silent_sound" /\ siblings > 0 /\ Save("superseded")
       \/ blind = "silent_sound" /\ siblings = 0 /\ Save("unconfirmed")
       \/ blind = "silent" /\ Save("unconfirmed")
    /\ Idle
    /\ UNCHANGED <<history, world>>

Adjudicate(r) ==
    /\ Claim /\ blind = "related" /\ ruling = "none"
    /\ ruling' = r /\ pc' = "ruled"
    /\ UNCHANGED <<hand, mode, issue, attempts, patches, verdict, blind, world>>

ConcludeRuling ==
    /\ pc = "ruled" \/ (Claim /\ blind = "related" /\ ruling # "none")
    /\ \/ ruling = "revise" /\ Save("awaiting_patch")
       \/ ruling = "accept" /\ Save("refuted")
       \/ ruling = "undecided" /\ Save("unconfirmed")
    /\ Idle
    /\ UNCHANGED <<history, world>>

-----------------------------------------------------------------------------
(* Mutant: a model's claim goes straight to the Writer.                     *)
ReserveUnaudited ==
    /\ Writable
    /\ state' = "awaiting_patch" /\ used' = used + 1
    /\ pc' = "reserved"
    /\ UNCHANGED <<kind, retries, hand, mode, history, world>>

(* One Writer call.  The attempt is spent and saved before the call; its row
   is a commit of its own.                                                  *)
Reserve ==
    /\ Writable
    /\ Untouched => kind = "rule" /\ ~Batching
    /\ state' = "awaiting_patch" /\ used' = used + 1
    /\ pc' = "reserved"
    /\ UNCHANGED <<kind, retries, hand, mode, history, world>>

InsertAttempt ==
    /\ pc = "reserved"
    /\ attempts' = Append(attempts, "open")
    /\ pc' = "calling"
    /\ UNCHANGED <<hand, mode, patches, verdict, blind, ruling, issue, world>>

Settle(outcome) == attempts' = [attempts EXCEPT ![Last] = outcome]

(* The provider refuses or the Writer asks for a person; the call is lost; the
   patch is rejected by the parser or the gate, at the Writer's expense or
   not.  The row is closed first, what is owed to the issue is saved next.  *)
Answer(outcome, owed) ==
    /\ pc = "calling"
    /\ Settle(outcome)
    /\ pc' = "settled" /\ mode' = owed
    /\ UNCHANGED <<hand, patches, verdict, blind, ruling, issue, world>>

WriterAnswers ==
    \/ Answer("escalated", "escalate")
    \/ Answer("interrupted", "refund")
    \/ Answer("patch_rejected", "reject")
    \/ Answer("patch_rejected", "reject_free")

SaveAnswer ==
    /\ pc = "settled"
    /\ IF mode \in {"refund", "reject_free"} THEN Refund ELSE UNCHANGED <<used, retries>>
    /\ state' = CASE mode = "refund" -> state
                  [] mode = "escalate" -> "needs_human_review"
                  [] OTHER -> IF CanAttempt(used') THEN "patch_rejected"
                                                   ELSE "needs_human_review"
    /\ Idle
    /\ UNCHANGED <<kind, history, world>>

InsertPatch(after) ==
    /\ pc = "calling"
    /\ after # book /\ Len(patches) < MaxPatches
    /\ patches' = Append(patches, [no |-> Last, before |-> book, after |-> after,
                                   by |-> "writer"])
    /\ pc' = "proposed"
    /\ Fresh /\ UNCHANGED <<hand, mode, attempts, verdict, blind, ruling, issue>>

(* settle_attempt stamps finished_at, so the row is no longer open.         *)
LinkPatch ==
    /\ pc = "proposed"
    /\ Settle("patch_recorded")
    /\ pc' = "linked"
    /\ UNCHANGED <<hand, mode, patches, verdict, blind, ruling, issue, world>>

SaveProposed ==
    /\ pc = "linked"
    /\ Save("patch_proposed")
    /\ Idle
    /\ UNCHANGED <<history, world>>

-----------------------------------------------------------------------------
(* _review and _review_batch: the candidate is judged on a simulation, the
   verdict is durable before anything follows from it.                      *)
BeginReview(m) ==
    /\ pc = "idle" /\ state \in {"patch_proposed", "awaiting_review"}
    /\ m = "batch" => Batching
    /\ Save("awaiting_review")
    /\ pc' = "review" /\ hand' = Latest /\ mode' = m
    /\ UNCHANGED <<history, world>>

(* _patch_position, which only the single review consults.                  *)
Before == book = Held.before
After == book = Held.after
InPlace == mode = "single" /\ After
Mixed == mode = "single" /\ ~Before /\ ~After

ReviewCorrupt ==
    /\ pc = "review" /\ Mixed
    /\ JobFailed
    /\ UNCHANGED <<issue, history, book, siblings, reopens, past>>

ReviewVanished ==
    /\ \/ pc = "review" /\ mode = "single" /\ ~Mixed /\ verdict[Held.no] = NoVerdict
       \/ pc = "idle" /\ Batching /\ state \in {"patch_proposed", "awaiting_review"}
    /\ Save("needs_human_review")
    /\ Idle
    /\ UNCHANGED <<history, world>>

(* _ask_reviewer, unless a verdict for this attempt_no is already durable.  A
   batch asks again when one of its issues has none under the batch's role.  *)
Judge(d) ==
    /\ pc = "review" /\ ~Mixed
    /\ \/ /\ verdict[Held.no] = NoVerdict \/ mode = "batch"
          /\ verdict' = [verdict EXCEPT ![Held.no] = [decision |-> d, patch |-> hand]]
       \/ verdict[Held.no] # NoVerdict /\ d = verdict[Held.no].decision /\ UNCHANGED verdict
    /\ pc' = "judged"
    /\ UNCHANGED <<hand, mode, attempts, patches, blind, ruling, issue, world>>

Decision == verdict[Held.no].decision

(* Mutant: the attempt a verdict judged is not settled.                     *)
SettleNothing ==
    /\ pc = "judged" /\ pc' = "decide"
    /\ UNCHANGED <<hand, mode, history, issue, world>>

(* _settle_reviewed_attempt: the latest attempt, if it has a patch and no
   outcome yet.                                                             *)
SettleReviewed ==
    /\ pc = "judged"
    /\ IF Last > 0 /\ attempts[Last] = "patch_recorded"
       THEN Settle(CASE Decision = "accept" -> "patch_accepted"
                     [] Decision = "revise" -> "revision_requested"
                     [] OTHER -> "escalated")
       ELSE UNCHANGED attempts
    /\ pc' = "decide"
    /\ UNCHANGED <<hand, mode, patches, verdict, blind, ruling, issue, world>>

Approve ==
    /\ pc = "decide" /\ Decision = "accept" /\ ~InPlace
    /\ Save("patch_approved")
    /\ Idle
    /\ UNCHANGED <<history, world>>

(* AWAITING_REVIEW to ACCEPTED is no legal transition: IllegalTransition,
   which nothing catches.                                                   *)
ApproveInPlace ==
    /\ pc = "decide" /\ Decision = "accept" /\ InPlace
    /\ "accepted" \notin LegalIssueTransitions(state)
    /\ WorkerDown
    /\ UNCHANGED <<issue, history, world>>

(* _rollback_rejected_patch writes the inverse patch through apply_patch.   *)
RollBack ==
    /\ pc = "decide" /\ Decision # "accept" /\ InPlace
    /\ book' = Held.before
    /\ pc' = "undone"
    /\ UNCHANGED <<hand, mode, issue, history, siblings, reopens, job, past>>

SaveDecision ==
    /\ \/ pc = "decide" /\ Decision # "accept" /\ ~InPlace
       \/ pc = "undone"
    /\ Save(IF Decision = "revise" /\ CanAttempt(used)
            THEN "revision_requested" ELSE "needs_human_review")
    /\ Idle
    /\ UNCHANGED <<history, world>>

-----------------------------------------------------------------------------
(* _apply; a mechanical repair joins it once APPLYING is saved.             *)
BeginApply ==
    /\ pc = "idle" /\ state \in NeedsApply
    /\ Save("applying")
    /\ pc' = "apply" /\ hand' = Latest /\ UNCHANGED mode
    /\ UNCHANGED <<history, world>>

Write ==
    /\ pc = "apply" /\ (Before \/ After)
    /\ book' = Held.after
    /\ pc' = "written"
    /\ UNCHANGED <<hand, mode, issue, history, siblings, reopens, job, past>>

ApplyCorrupt ==
    /\ pc = "apply" /\ ~Before /\ ~After
    /\ JobFailed
    /\ UNCHANGED <<issue, history, book, siblings, reopens, past>>

SaveAccepted ==
    /\ pc = "written"
    /\ Save("accepted")
    /\ Idle
    /\ UNCHANGED <<history, world>>

-----------------------------------------------------------------------------
(* The rest of the council.                                                 *)

(* IssueMachine.reopen, when final validation finds the defect again: the
   attempts spent stay spent.                                               *)
Reopen ==
    /\ pc = "idle" /\ state \in TerminalIssueStates \ {"needs_human_review"}
    /\ reopens < MaxReopens /\ reopens' = reopens + 1
    /\ Save(IF CanAttempt(used) THEN "revision_requested" ELSE "needs_human_review")
    /\ UNCHANGED <<history, book, siblings, job, past, worker>>

(* Another issue of the block is repaired in the same cells.  No queue offers
   one while this one has a proposal, except one that is left behind.       *)
InFlight == NeedsReview \cup NeedsApply

SiblingWrites(v) ==
    /\ pc = "idle" /\ v # book /\ siblings < MaxSiblings
    /\ book' = v /\ siblings' = siblings + 1
    /\ overtaken' = (overtaken \/ state \in InFlight)
    /\ UNCHANGED <<issue, history, reopens, job, carried, worker>>

(* Mutant: the busy list of the queue forgets the proposals.                *)
SiblingEditOverProposal(v) ==
    state \notin NeedsApply \cup {"awaiting_review"} /\ SiblingWrites(v)

SiblingEdit(v) == (state \notin InFlight \/ carried) /\ SiblingWrites(v)

-----------------------------------------------------------------------------
(* Crash, and orchestrator.recover_attempts by the next worker.             *)
Crash ==
    /\ pc # "down" /\ WorkerDown
    /\ UNCHANGED <<issue, history, world>>

Restart ==
    /\ pc = "down" /\ job = "running"
    /\ pc' = "recover"
    /\ UNCHANGED <<hand, mode, issue, history, world>>

(* POST resume of a job that failed or went to a person: it starts from its
   first phase, which is not the one of this issue's reviewer.              *)
Resume ==
    /\ pc = "down" /\ job = "running"
    /\ carried' = (state \in InFlight)
    /\ pc' = "recover"
    /\ UNCHANGED <<hand, mode, issue, history, book, siblings, reopens, job, overtaken>>

OpenAttempts == {n \in DOMAIN attempts : attempts[n] = "open"}

(* Mutant: recovery is skipped.                                             *)
SkipRecovery ==
    /\ pc = "recover" /\ pc' = "idle"
    /\ UNCHANGED <<hand, mode, issue, history, world>>

CloseAttempt(n) ==
    /\ pc = "recover" /\ n \in OpenAttempts
    /\ attempts' = [attempts EXCEPT ![n] = "interrupted"]
    /\ pc' = "refund"
    /\ UNCHANGED <<hand, mode, patches, verdict, blind, ruling, issue, world>>

RefundAttempt ==
    /\ pc = "refund"
    /\ Refund
    /\ pc' = "recover"
    /\ UNCHANGED <<kind, state, hand, mode, history, world>>

Recovered ==
    /\ pc = "recover" /\ OpenAttempts = {}
    /\ pc' = "idle"
    /\ UNCHANGED <<hand, mode, issue, history, world>>

-----------------------------------------------------------------------------
Unpatched ==
    \/ Exhausted \/ BlockVanished \/ Superseded \/ MarkReady
    \/ \E c \in Corroborations : AuditBlind(c)
    \/ AwaitRuling \/ ConcludeAudit \/ ConcludeRuling
    \/ \E r \in Rulings : Adjudicate(r)

WriteStep ==
    \/ Reserve \/ InsertAttempt \/ WriterAnswers \/ SaveAnswer
    \/ \E v \in Values : InsertPatch(v) \/ InsertMechanical(v)
    \/ LinkPatch \/ SaveProposed \/ SaveMechanical

ReviewStep ==
    \/ \E m \in {"single", "batch"} : BeginReview(m)
    \/ \E d \in Decisions : Judge(d)
    \/ ReviewVanished \/ ReviewCorrupt \/ SettleReviewed
    \/ Approve \/ ApproveInPlace \/ RollBack \/ SaveDecision

ApplyStep == BeginApply \/ Write \/ ApplyCorrupt \/ SaveAccepted

Recovery ==
    \/ \E n \in DOMAIN attempts : CloseAttempt(n)
    \/ RefundAttempt \/ Recovered

Worker == Unpatched \/ WriteStep \/ ReviewStep \/ ApplyStep \/ Recovery

Others == Reopen \/ \E v \in Values : SiblingEdit(v)

Next == Worker \/ Others \/ Restart \/ Resume \/ Crash

Spec == Init /\ [][Next]_vars

(* The phase loop keeps offering a live issue to a worker, and a lapsed lease
   is swept.                                                                *)
FairSpec == Spec /\ WF_vars(Worker) /\ WF_vars(Restart)
-----------------------------------------------------------------------------
(* state_machine.py:231: however calls are lost, refunded and crashed through,
   the Writer is called for one issue at most so often (a row of
   repair_attempts is committed before each call).                          *)
CallsBounded == Len(attempts) <= MaxAttempts + RetryBudget

(* A refund is given once per lost call, never twice for one.               *)
Refundable == {n \in DOMAIN attempts : attempts[n] \in {"interrupted", "patch_rejected"}}
RefundsEarned == retries <= Cardinality(Refundable)

(* What recovery closes really is the call of a dead worker: between steps no
   attempt is open.                                                         *)
OpenAttemptIsACall ==
    OpenAttempts # {} =>
        OpenAttempts = {Last} /\ pc \in {"calling", "proposed", "down", "recover"}

(* What is about to be written was judged: the patch _apply takes is
   mechanical, or the last verdict on it accepted that very patch and its
   attempt is settled as reviewed.                                          *)
AppliedIsJudged ==
    state \in NeedsApply /\ patches[Latest].by = "writer" =>
        /\ verdict[patches[Latest].no] = [decision |-> "accept", patch |-> Latest]
        /\ attempts[patches[Latest].no] \in {"patch_accepted", "revision_requested", "escalated"}

(* A model's claim alone never reaches the Writer: a blind audit agreed, an
   adjudicator confirmed it, or final validation found the defect.          *)
ClaimIsCorroborated ==
    kind = "semantic" /\ attempts # << >> =>
        blind = "exact" \/ ruling = "revise" \/ reopens > 0

(* The workbook is found neither before nor after a patch, and the job fails
   for it, only when two patches carry the same attempt_no, or when a resumed
   job left the last patch waiting and a sibling was written under it: in no
   other order do the queues let two repairs meet in one cell.              *)
Tied == \E i, j \in DOMAIN patches : i # j /\ patches[i].no = patches[j].no
NeverMixed == job = "failed" => Tied \/ (carried /\ overtaken)

(* council.py:2275: an issue is not closed by a silent rule once a reviewer
   asked for a revision of its repair, whatever refunds came in between.    *)
Judged == {n \in DOMAIN verdict : verdict[n] # NoVerdict}
ReviewerNotSilenced ==
    [][state' = "superseded" /\ state \in NeedsWriter => Judged = {}]_vars

(* Once workers stop dying, of crashes or of the exception a verdict raises
   that accepts what is in the workbook already, an issue the loop keeps
   offering is resolved, goes to a person, or its job fails.                *)
IssueSettles ==
    <>[][~Crash /\ ~ApproveInPlace]_vars =>
        [](state \in LiveIssueStates =>
              <>(state \in TerminalIssueStates \/ job = "failed"))

(* council.py:3266: a reviewed candidate is not in the workbook yet; `after`
   "is possible only for an in-flight job created under the former
   apply-before-review lifecycle".                                          *)
AfterOnlyLegacy == pc = "review" => ~After

=============================================================================
