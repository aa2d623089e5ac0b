----------------------------- MODULE BlockRepair -----------------------------
(***************************************************************************)
(* Which issue of a block is next: council._repair with _live_block_group, *)
(* _unprepared_sibling and _inflight_sibling, the queue predicate of       *)
(* persistence.next_issue_for_phase, and the coordinated calls of          *)
(* _write_batch and _review_batch.                                         *)
(*                                                                         *)
(* IssueRepair follows one issue and assumes that nobody edits the cells   *)
(* of a proposal in flight; this module has several issues of the same     *)
(* blocks and asks whether that is so.  Of each issue remain its state,    *)
(* its attempts, the cells its candidate edits and the verdict on it.      *)
(* REVISION_REQUESTED stands for PATCH_REJECTED too, PATCH_PROPOSED for    *)
(* AWAITING_REVIEW, PATCH_APPROVED for APPLYING: no queue tells the two of *)
(* a pair apart.  apply_patch is one step (ApplyProtocol), and of the job  *)
(* only the phases that repair are kept (Pipeline has the others).         *)
(***************************************************************************)
EXTENDS IssueFlow, Naturals, FiniteSets, FiniteSetsExt

CONSTANTS
    Issues,        \* 1..n, in the order of list_issues (created_at)
    BlockOf,       \* the block of each
    RowsOf,        \* the rows its cells are in
    RoleOf,        \* its reviewer: "known" or "independent"
    KindsOf,       \* what it may be: "rule" (a rule can re-derive it), "semantic"
    CellsOf,       \* the sets of cells a proposal for it may edit
    BatchSize,     \* settings.repair_batch_size
    MaxAttempts,   \* settings.max_repair_attempts
    RetryBudget,   \* settings.interrupted_retry_budget
    MaxRounds,     \* settings.max_validation_rounds
    MaxCrashes,    \* bound: crashes inside a step
    MaxResumes     \* bound: failures of the job that are resumed

Blocks == {BlockOf[i] : i \in Issues}

ASSUME BlockAssumption ==
    /\ IsFiniteSet(Issues) /\ Issues = 1..Cardinality(Issues)
    /\ \A i \in Issues : RoleOf[i] \in {"known", "independent"}
    /\ \A i \in Issues : KindsOf[i] \subseteq {"rule", "semantic"}
    \* validate_patch refuses an edit outside the issue's block (OUT_OF_BLOCK_SCOPE)
    /\ \A i, j \in Issues : BlockOf[i] # BlockOf[j] =>
           \A c \in CellsOf[i], d \in CellsOf[j] : c \cap d = {}
    /\ BatchSize \in Nat \ {0}
    /\ MaxAttempts \in Nat /\ RetryBudget \in Nat
    /\ MaxRounds \in Nat /\ MaxCrashes \in Nat /\ MaxResumes \in Nat

VARIABLES
    phase,      \* jobs.state, of the phases that repair
    rounds,     \* jobs.validation_rounds_used
    kind,       \* "rule" or "semantic"
    state,      \* issues.state; "none" before it is found
    used,       \* issues.attempts_used
    retries,    \* issues.interrupted_retries_used
    open,       \* the issues with an open row in repair_attempts
    cand,       \* the cells of the issue's latest patch
    dirty,      \* candidates one of whose cells was rewritten since
    verdict,    \* review_verdicts on the candidate, by the role it is kept under
    asked,      \* history: reviewer calls about the candidate
    at,         \* where the worker is: "idle", "reserve", "call", "results",
                \*   "lost", "review" or "settle"
    group,      \* the issues of the step
    todo,       \* those of them it has not come to
    answer,     \* what the Writer answered for each
    carried,    \* history: candidates a resumed job left to a later phase
    crashes, resumes

queue == <<kind, state, used, retries, open>>
candidates == <<cand, dirty, verdict, asked>>
worker == <<at, group, todo, answer>>
history == <<carried, crashes, resumes>>
vars == <<phase, rounds, queue, candidates, worker, history>>

-----------------------------------------------------------------------------
Decisions == {"accept", "revise", "human_review"}
(* The Writer's call ends: nothing came back; it asks for a person or the
   provider refuses; its proposal is no patch; a patch the gate refuses, or
   lets pass, over some cells.                                              *)
NoAnswer == [kind |-> "lost", cells |-> {}]
Invalid == [kind |-> "invalid", cells |-> {}]
Answers(i) ==
    {[kind |-> "human", cells |-> {}], Invalid}
        \cup [kind : {"refused_by_gate", "patch"}, cells : CellsOf[i]]

Repairing == {"repairing_known", "repairing_validation"}
Single == {"independent_review", "final_semantic"}
Ready == {"awaiting_patch", "revision_requested"}
Busy == {"awaiting_patch", "patch_proposed", "patch_approved"}
Found == {i \in Issues : state[i] # "none"}
InFlight(i) == state[i] \in {"patch_proposed", "patch_approved"}

NoVerdict == [decision |-> "none", role |-> "none"]

Init ==
    /\ phase = "repairing_known" /\ rounds = 0
    /\ kind \in [Issues -> {"rule", "semantic"}] /\ \A i \in Issues : kind[i] \in KindsOf[i]
    /\ state \in [Issues -> {"none", "open"}]
    /\ \A i \in Issues : state[i] = "open" => RoleOf[i] = "known"
    /\ used = [i \in Issues |-> 0] /\ retries = [i \in Issues |-> 0] /\ open = {}
    /\ cand = [i \in Issues |-> {}] /\ dirty = {}
    /\ verdict = [i \in Issues |-> NoVerdict] /\ asked = [i \in Issues |-> 0]
    /\ at = "idle" /\ group = {} /\ todo = {} /\ answer = [i \in Issues |-> NoAnswer]
    /\ carried = {} /\ crashes = 0 /\ resumes = 0

-----------------------------------------------------------------------------
(* The queues.                                                              *)
CanAttempt(i) == used[i] < MaxAttempts

(* _phase_issues: all of them, unless the phase has one reviewer.           *)
PhaseIssues ==
    CASE phase = "repairing_known" -> {i \in Found : RoleOf[i] = "known"}
      [] phase = "independent_review" -> {i \in Found : RoleOf[i] = "independent"}
      [] OTHER -> Found

Oldest(S) == Min(S)
SameBlock(i) == {j \in Issues : BlockOf[j] = BlockOf[i]}

(* The issues of one block that may share a call: oldest first, no two in one
   row, as many as the setting allows.                                      *)
Compatible(S) ==
    LET chosen[n \in 0..Cardinality(Issues)] ==
            IF n = 0 THEN {}
            ELSE LET before == chosen[n - 1] IN
                 IF /\ n \in S /\ Cardinality(before) < BatchSize
                    /\ \A j \in before : RowsOf[n] \cap RowsOf[j] = {}
                 THEN before \cup {n} ELSE before
    IN  chosen[Cardinality(Issues)]

(* _live_block_group: the first block with enough of them.                  *)
LiveBlockGroup(states, minimum) ==
    LET eligible == {i \in PhaseIssues : /\ state[i] \in states
                                         /\ state[i] \in NeedsWriter => CanAttempt(i)}
        In(b) == {i \in eligible : BlockOf[i] = b}
        enough == {b \in Blocks : Cardinality(Compatible(In(b))) >= minimum}
        first == CHOOSE b \in enough : \A c \in enough : Oldest(In(b)) <= Oldest(In(c))
    IN  IF enough = {} THEN {} ELSE Compatible(In(first))

UnpreparedSiblings ==
    {i \in PhaseIssues : state[i] = "open" /\ \E j \in PhaseIssues \cap SameBlock(i) : state[j] \in Ready}

LiveIn(S) == {i \in S : state[i] \in LiveIssueStates}
InflightSiblings ==
    {i \in LiveIn(PhaseIssues) : LiveIn(PhaseIssues) \cap SameBlock(i) # {i}}

(* next_issue_for_phase: no other issue of the block, of either role, is in
   flight.  Which of these is first is left open.                           *)
NextIssues ==
    {i \in LiveIn(PhaseIssues) : \A j \in SameBlock(i) \ {i} : state[j] \notin Busy}

(* _repair asks these in turn; the phases that repair one issue at a time only
   ask the last.                                                            *)
Turn(how, S) == [how |-> how, who |-> S]
OneOf(S) == {{i} : i \in S}
First(S) == {Oldest(S)}

(* Mutant: without the fallback for siblings of one row.                    *)
OfferNoFallback ==
    IF LiveBlockGroup(NeedsReview, 1) # {}
    THEN {Turn("one", First(LiveBlockGroup(NeedsReview, 1)))}
    ELSE IF LiveBlockGroup(NeedsApply, 1) # {}
    THEN {Turn("one", First(LiveBlockGroup(NeedsApply, 1)))}
    ELSE IF LiveBlockGroup(Ready, 2) # {}
    THEN {Turn("write", LiveBlockGroup(Ready, 2))}
    ELSE IF UnpreparedSiblings # {} THEN {Turn("one", First(UnpreparedSiblings))}
    ELSE {Turn("one", s) : s \in OneOf(NextIssues)}

Offer ==
    IF phase \in Single \/ BatchSize = 1
    THEN {Turn("one", s) : s \in OneOf(NextIssues)}
    ELSE IF LiveBlockGroup(NeedsReview, 2) # {}
    THEN {Turn("review", LiveBlockGroup(NeedsReview, 2))}
    ELSE IF LiveBlockGroup(NeedsReview, 1) # {}
    THEN {Turn("one", First(LiveBlockGroup(NeedsReview, 1)))}
    ELSE IF LiveBlockGroup(NeedsApply, 1) # {}
    THEN {Turn("one", First(LiveBlockGroup(NeedsApply, 1)))}
    ELSE IF LiveBlockGroup(Ready, 2) # {}
    THEN {Turn("write", LiveBlockGroup(Ready, 2))}
    ELSE IF UnpreparedSiblings # {} THEN {Turn("one", First(UnpreparedSiblings))}
    ELSE IF InflightSiblings # {} THEN {Turn("one", First(InflightSiblings))}
    ELSE {Turn("one", s) : s \in OneOf(NextIssues)}

Idle == at = "idle" /\ phase \in Repairing \cup Single
Begin(step, S) == at' = step /\ group' = S /\ todo' = S /\ UNCHANGED answer
Rest == at' = "idle" /\ group' = {} /\ todo' = {} /\ answer' = [i \in Issues |-> NoAnswer]
Corrupt == phase' = "corrupt" /\ Rest
Move(i, s) == state' = [state EXCEPT ![i] = s] /\ UNCHANGED kind
SaveOnly(i, s) == Move(i, s) /\ UNCHANGED <<used, retries, open>>

-----------------------------------------------------------------------------
(* An issue by itself: _write before any attempt, _review and _apply.       *)

(* The rule is silent; the blind audit does not confirm the claim.          *)
CloseUnrepaired(i) ==
    /\ state[i] \in NeedsWriter /\ CanAttempt(i) /\ used[i] = 0
    /\ \/ kind[i] = "rule" /\ SaveOnly(i, "superseded")
       \/ kind[i] = "semantic" /\ state[i] = "open" /\ SaveOnly(i, "unconfirmed")
    /\ UNCHANGED <<phase, rounds, candidates, worker, history>>

Exhausted(i) ==
    /\ state[i] \in NeedsWriter /\ ~CanAttempt(i)
    /\ SaveOnly(i, "needs_human_review")
    /\ UNCHANGED <<phase, rounds, candidates, worker, history>>

MarkReady(i) ==
    /\ state[i] = "open" /\ CanAttempt(i)
    /\ (kind[i] = "rule" => BatchSize > 1)
    /\ SaveOnly(i, "awaiting_patch")
    /\ UNCHANGED <<phase, rounds, candidates, worker, history>>

(* Every candidate over one of these cells is now neither before nor after. *)
Written(i, cells) ==
    dirty' = (dirty \cup {j \in Issues \ {i} : InFlight(j) /\ cand[j] \cap cells # {}}) \ {i}

MechanicalRepair(i, cells) ==
    /\ state[i] = "open" /\ kind[i] = "rule" /\ CanAttempt(i)
    /\ cells \in CellsOf[i]
    /\ SaveOnly(i, "accepted")
    /\ Written(i, cells)
    /\ UNCHANGED <<phase, rounds, cand, verdict, asked, worker, history>>

(* Where a decision takes an issue; a revision needs an attempt to be left.  *)
Decided(i, d) ==
    CASE d = "accept" -> "patch_approved"
      [] d = "revise" /\ CanAttempt(i) -> "revision_requested"
      [] OTHER -> "needs_human_review"

(* A verdict already kept for the attempt is used, whatever its role.       *)
ReviewOne(i, d) ==
    /\ state[i] = "patch_proposed" /\ i \notin dirty
    /\ \/ verdict[i] # NoVerdict /\ d = verdict[i].decision /\ UNCHANGED <<verdict, asked>>
       \/ /\ verdict[i] = NoVerdict
          /\ verdict' = [verdict EXCEPT ![i] = [decision |-> d, role |-> RoleOf[i]]]
          /\ asked' = [asked EXCEPT ![i] = @ + 1]
    /\ SaveOnly(i, Decided(i, d))
    /\ UNCHANGED <<phase, rounds, cand, dirty, worker, history>>

ApplyOne(i) ==
    /\ state[i] = "patch_approved" /\ i \notin dirty
    /\ SaveOnly(i, "accepted")
    /\ Written(i, cand[i])
    /\ UNCHANGED <<phase, rounds, cand, verdict, asked, worker, history>>

(* _patch_position: the file is neither before nor after.                   *)
NeitherBeforeNorAfter(i) ==
    /\ InFlight(i) /\ i \in dirty
    /\ Corrupt
    /\ UNCHANGED <<rounds, queue, candidates, history>>

-----------------------------------------------------------------------------
(* _write and _write_batch: one Writer call for the group.                  *)
BeginWrite(S) ==
    /\ Begin("reserve", S)
    /\ UNCHANGED <<phase, rounds, queue, candidates, history>>

BeginWriteOne(i) ==
    /\ state[i] \in NeedsWriter /\ CanAttempt(i)
    /\ state[i] = "open" => (kind[i] = "rule" /\ BatchSize = 1)
    /\ BeginWrite({i})

(* Mutant: a revision costs no attempt.                                     *)
ReserveFree ==
    /\ at = "reserve"
    /\ LET i == Oldest(todo) IN
       /\ Move(i, "awaiting_patch") /\ open' = open \cup {i}
       /\ IF todo = {i} THEN at' = "call" /\ todo' = group
                        ELSE todo' = todo \ {i} /\ UNCHANGED at
    /\ UNCHANGED <<phase, rounds, used, retries, candidates, group, answer, history>>

(* The attempt is spent and its row inserted, issue by issue.               *)
Reserve ==
    /\ at = "reserve"
    /\ LET i == Oldest(todo) IN
       /\ used' = [used EXCEPT ![i] = @ + 1] /\ Move(i, "awaiting_patch")
       /\ open' = open \cup {i}
       /\ IF todo = {i} THEN at' = "call" /\ todo' = group
                        ELSE todo' = todo \ {i} /\ UNCHANGED at
    /\ UNCHANGED <<phase, rounds, retries, candidates, group, answer, history>>

CallWriter(answers) ==
    /\ at = "call"
    /\ answer' = answers /\ at' = "results"
    /\ UNCHANGED <<phase, rounds, queue, candidates, group, todo, history>>

WriterCalls ==
    \/ CallWriter([i \in Issues |-> NoAnswer])
    \/ \E f \in [group -> UNION {Answers(i) : i \in group}] :
          /\ \A i \in group : f[i] \in Answers(i)
          /\ CallWriter([i \in Issues |-> IF i \in group THEN f[i] ELSE NoAnswer])

(* Mutant: proposals for one cell both stand.                               *)
NeverOverlapping(i) == i \notin group

(* Two proposals of one call for one cell: neither stands.                  *)
Overlapping(i) == \E j \in group \ {i} : answer[i].cells \cap answer[j].cells # {}

Refunded(i) == retries[i] < RetryBudget /\ used[i] > 0
Refund(i) ==
    /\ used' = [used EXCEPT ![i] = IF Refunded(i) THEN @ - 1 ELSE @]
    /\ retries' = [retries EXCEPT ![i] = IF Refunded(i) THEN @ + 1 ELSE @]

(* The call was lost: each attempt is closed and handed back.               *)
SettleLost ==
    /\ at = "results" /\ answer[Oldest(todo)] = NoAnswer
    /\ LET i == Oldest(todo) IN
       /\ open' = open \ {i} /\ Refund(i)
       /\ todo' = todo \ {i} /\ at' = IF todo = {i} THEN "lost" ELSE at
    /\ UNCHANGED <<phase, rounds, kind, state, candidates, group, answer, history>>

(* The result of one issue: its attempt is closed, then the issue saved.    *)
SettleAnswer ==
    /\ at = "results" /\ answer[Oldest(todo)] # NoAnswer
    /\ LET i == Oldest(todo)
           result == answer[i].kind
           proposed == result = "patch" /\ ~Overlapping(i)
       IN  /\ open' = open \ {i}
           /\ Move(i, CASE result = "human" -> "needs_human_review"
                        [] proposed -> "patch_proposed"
                        [] OTHER -> IF CanAttempt(i) THEN "revision_requested"
                                                     ELSE "needs_human_review")
           /\ IF proposed
              THEN /\ cand' = [cand EXCEPT ![i] = answer[i].cells]
                   /\ verdict' = [verdict EXCEPT ![i] = NoVerdict]
                   /\ asked' = [asked EXCEPT ![i] = 0]
                   /\ dirty' = dirty \ {i}
              ELSE UNCHANGED candidates
           /\ IF todo # {i} THEN todo' = todo \ {i} /\ UNCHANGED <<at, group, answer>>
                            ELSE Rest
    /\ UNCHANGED <<phase, rounds, used, retries, history>>

(* _provider_failed: the job may have failed often enough.                  *)
ProviderFailed ==
    /\ at = "lost"
    /\ phase' \in {phase, "failed"}
    /\ Rest
    /\ UNCHANGED <<rounds, queue, candidates, history>>

-----------------------------------------------------------------------------
(* _review_batch: the candidates are judged together on one simulated block. *)
BeginReview(S) ==
    /\ Begin("review", S)
    /\ UNCHANGED <<phase, rounds, queue, candidates, history>>

BatchRole == RoleOf[Oldest(group)]
Cached(i) == verdict[i] # NoVerdict /\ verdict[i].role = BatchRole

(* One decision for every issue asked about and for no other: anything else is
   a malformed answer.                                                      *)
BatchDecisions == [group -> Decisions]

(* The whole response is committed at once, under the role of the oldest
   issue.                                                                   *)
InsertVerdicts(ds) ==
    /\ verdict' = [i \in Issues |-> IF i \in group
                                     THEN [decision |-> ds[i], role |-> BatchRole]
                                     ELSE verdict[i]]
    /\ asked' = [i \in Issues |-> IF i \in group THEN asked[i] + 1 ELSE asked[i]]

JudgeBatch(ds) ==
    /\ at = "review"
    /\ IF \A i \in group : Cached(i)
       THEN UNCHANGED <<verdict, asked>>
       ELSE InsertVerdicts(ds)
    /\ at' = "settle"
    /\ UNCHANGED <<phase, rounds, queue, cand, dirty, group, todo, answer, history>>

SettleVerdict ==
    /\ at = "settle"
    /\ LET i == Oldest(todo) IN
       /\ SaveOnly(i, Decided(i, verdict[i].decision))
       /\ IF todo = {i} THEN Rest ELSE todo' = todo \ {i} /\ UNCHANGED <<at, group, answer>>
    /\ UNCHANGED <<phase, rounds, candidates, history>>

-----------------------------------------------------------------------------
(* The job around it.                                                       *)
NextPhase(p) ==
    CASE p = "repairing_known" -> "independent_review"
      [] p = "independent_review" -> "final_semantic"
      [] p = "repairing_validation" -> "final_semantic"
      [] OTHER -> "final_validation"

PhaseDrained ==
    /\ Idle /\ Offer = {}
    /\ phase' = NextPhase(phase)
    /\ UNCHANGED <<rounds, queue, candidates, worker, history>>

(* What a model finds: a sweep's issues are the independent reviewer's, those
   of the final verification either's.                                      *)
OpenIssue(i) ==
    /\ at = "idle" /\ phase \in Single /\ state[i] = "none" /\ kind[i] = "semantic"
    /\ phase = "independent_review" => RoleOf[i] = "independent"
    /\ SaveOnly(i, "open")
    /\ UNCHANGED <<phase, rounds, candidates, worker, history>>

(* _validate: the rules that fire again reopen their issues, or open new ones. *)
Reopened(i) == IF CanAttempt(i) THEN "revision_requested" ELSE "needs_human_review"
Validate(again) ==
    /\ at = "idle" /\ phase = "final_validation"
    /\ \A i \in again : kind[i] = "rule" /\ state[i] \in {"none", "accepted", "superseded"}
    /\ rounds' = rounds + 1
    /\ state' = [i \in Issues |-> IF i \notin again THEN state[i]
                                  ELSE IF state[i] = "none" THEN "open" ELSE Reopened(i)]
    /\ phase' = IF again # {} /\ rounds + 1 < MaxRounds
                THEN "repairing_validation" ELSE "finalizing"
    /\ UNCHANGED <<kind, used, retries, open, candidates, worker, history>>

(* A worker dies inside a step; recover_attempts refunds what it left open.
   A reviewer's answer that is lost, or that names other issues than it was
   asked about, leaves the rows of a death in _review_batch.                *)
Crash ==
    /\ at # "idle" /\ crashes < MaxCrashes
    /\ crashes' = crashes + 1
    /\ used' = [i \in Issues |-> IF i \in open /\ Refunded(i) THEN used[i] - 1 ELSE used[i]]
    /\ retries' = [i \in Issues |-> IF i \in open /\ Refunded(i) THEN retries[i] + 1 ELSE retries[i]]
    /\ open' = {}
    /\ Rest
    /\ UNCHANGED <<phase, rounds, kind, state, candidates, carried, resumes>>

(* The deadline, or an outage in a step that repairs nothing.               *)
Fail ==
    /\ Idle /\ resumes < MaxResumes
    /\ phase' = "failed"
    /\ UNCHANGED <<rounds, queue, candidates, worker, history>>

(* FAILED re-enters at INGESTING, and from there the first repair phase.    *)
Resume ==
    /\ phase = "failed" /\ resumes < MaxResumes
    /\ resumes' = resumes + 1
    /\ phase' = "repairing_known"
    /\ carried' = carried \cup {i \in Issues : state[i] \in Busy /\ RoleOf[i] # "known"}
    /\ UNCHANGED <<rounds, queue, candidates, worker, crashes>>

-----------------------------------------------------------------------------
(* One step of _repair, or of a phase that repairs one issue at a time.     *)
Advance(i) ==
    \/ CloseUnrepaired(i) \/ Exhausted(i) \/ MarkReady(i)
    \/ \E cells \in CellsOf[i] : MechanicalRepair(i, cells)
    \/ BeginWriteOne(i)
    \/ \E d \in Decisions : ReviewOne(i, d)
    \/ ApplyOne(i) \/ NeitherBeforeNorAfter(i)

RepairStep ==
    Idle /\ \E turn \in Offer :
        \/ turn.how = "one" /\ \E i \in turn.who : Advance(i)
        \/ turn.how = "write" /\ BeginWrite(turn.who)
        \/ turn.how = "review" /\ BeginReview(turn.who)

WriteStep == Reserve \/ WriterCalls \/ SettleLost \/ SettleAnswer \/ ProviderFailed

ReviewStep == \/ \E ds \in BatchDecisions : JudgeBatch(ds)
              \/ SettleVerdict

JobStep ==
    \/ PhaseDrained \/ Resume
    \/ \E S \in SUBSET Issues : Validate(S)

Next ==
    \/ RepairStep \/ WriteStep \/ ReviewStep \/ JobStep
    \/ \E i \in Issues : OpenIssue(i)
    \/ Crash \/ Fail

Spec == Init /\ [][Next]_vars

(* The runner steps the job as long as a step is left.                      *)
FairSpec == Spec /\ WF_vars(RepairStep \/ WriteStep \/ ReviewStep \/ JobStep)
-----------------------------------------------------------------------------
(* persistence.py:782: two issues never race on the same cell.  No edit falls
   on a cell of a candidate in flight, and no two candidates in flight claim
   one, whatever a crash cut short, unless a resumed job left one of them to
   a phase that does not look at it.                                        *)
CandidatesStandAlone ==
    \A i \in Issues : InFlight(i) =>
        /\ i \in dirty => i \in carried
        /\ \A j \in Issues \ {i} :
               InFlight(j) /\ cand[i] \cap cand[j] # {} => {i, j} \cap carried # {}

(* No issue is forgotten: when the phases that repair are over, all that were
   found are resolved or with a person.  Siblings hide each other from the
   queue predicate, and only the order of _repair keeps them from waiting for
   each other for good; a candidate that a resumed job carried into phases
   which do not coordinate blocks can.                                      *)
NoneForgotten ==
    phase = "final_validation" =>
        \A i \in LiveIn(Issues) : SameBlock(i) \cap carried # {}

(* Every step of _repair gets somewhere: without further failures the phases
   come to an end, though calls are lost and refunded.                      *)
RepairEnds == <>(phase \in {"finalizing", "corrupt", "failed"})

(* llm-data-contract.md:127: the verdicts of one response are reused after a
   crash before any replacement review is requested.                        *)
ReviewedOnce == \A i \in Issues : asked[i] <= 1
=============================================================================
