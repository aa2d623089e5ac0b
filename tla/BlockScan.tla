----------------------------- MODULE BlockScan ------------------------------
(***************************************************************************)
(* How blocks are examined: CurationCouncil._audit, the sweep half of      *)
(* _independent_review, _verify_block(s), with agents.batching (whose      *)
(* answer is whose), agents.coverage (which rows it accounts for),         *)
(* agents.isolation (the registry of private reasoning) and the conditions *)
(* of _finalize that rest on them.                                         *)
(*                                                                         *)
(* One call carries a batch of blocks; its answers may be omitted, copied  *)
(* under another block's id, short, doubled or about foreign cells.  Each  *)
(* commit is an action, and the worker may die between two of them.  What  *)
(* a call costs, and one that fails, is ModelCall's; repairs between the   *)
(* phases are the constant Changed, repairs inside the last one Pipeline's. *)
(***************************************************************************)
EXTENDS Naturals, FiniteSets, FiniteSetsExt

CONSTANTS
    Blocks, Rows,
    Place,           \* where the workbook lists a block
    Graded,          \* per block: ProblemBlock.graded_rows
    Cost,            \* per block: _batch_cost
    Changed,         \* _final_semantic_targets: blocks with a net change
    BatchSize,       \* settings.scan_batch_size
    BatchBudget,     \* settings.scan_batch_max_characters
    Rescans,         \* settings.coverage_rescans
    FinalRounds,     \* settings.final_semantic_rounds
    StepBudget,      \* settings.step_budget
    MaxCrashes       \* bound: workers that die

Phases == {"audited", "swept", "final_semantic"}
(* What else an answer says: a finding names a cell of another block, a row
   recorded correct is computed differently, or a verifier calls the block
   unsound and names nothing.  Only the phases that act on it tell it apart. *)
Says == [audited |-> {"clean", "stray"},
         swept |-> {"clean", "stray", "contradicts"},
         final_semantic |-> {"clean", "stray", "contradicts", "unsound"}]

ASSUME ScanAssumption ==
    /\ IsFiniteSet(Blocks) /\ Changed \subseteq Blocks
    /\ Place \in [Blocks -> Nat]
    /\ \A b, c \in Blocks : b # c => Place[b] # Place[c]
    /\ \A S \in SUBSET Blocks :
           S # {} => \E b \in S : \A c \in S : Place[b] <= Place[c]
    /\ Graded \in [Blocks -> SUBSET Rows]
    /\ \A b, c \in Blocks : b # c => Graded[b] \cap Graded[c] = {}
    /\ \A b \in Blocks : Cost[b] \in Nat
    /\ \A n \in {BatchSize, BatchBudget, Rescans, FinalRounds, StepBudget, MaxCrashes} :
           n \in Nat

VARIABLES
    phase,       \* the phase whose queue is being emptied, or "over"
    steps,       \* jobs.steps_used
    done,        \* block_progress: per phase, the blocks marked
    short,       \* coverage_short_<phase> events
    never,       \* rows_never_verified events: phase and block
    rounds,      \* final_verification events per block
    private,     \* private_blobs: the audit scan whose reasoning a block's row holds
    issues,      \* the last answer whose findings about a block were opened
    doubted,     \* coverage_records: the last sweep to write any contradicts itself
    claims,      \* blocks whose verdicts on the curator's claims are recorded
    registry,    \* TaintRegistry.entries, in memory, as private
    todo,        \* results of the last call still to be persisted
    requeued,    \*   and the blocks it said nothing usable about
    stage,       \* where the first result of todo is, see After
    outcome,     \* "running", "succeeded", "attention", "failed"
    crashes

durable == <<steps, done, short, never, rounds, private, issues, doubted, claims>>
memory == <<registry, todo, requeued, stage>>
vars == <<phase, durable, memory, outcome, crashes>>

NoAnswer == [text |-> 0, full |-> FALSE]

(* The writes that follow one result, in the order of each phase.  What the
   audit and the verification record as coverage is read by no decision.     *)
FirstWrite == [audited |-> "private", swept |-> "issues", final_semantic |-> "round"]
After ==
    [audited |-> [private |-> "issues", issues |-> "decide", decide |-> "claims"],
     swept |-> [issues |-> "coverage", coverage |-> "decide", decide |-> "mark"],
     final_semantic |-> [round |-> "issues", issues |-> "decide", decide |-> "mark"]]

Init ==
    /\ phase = "audited" /\ steps = 0
    /\ done = [p \in Phases |-> {}]
    /\ short = [p \in Phases |-> [b \in Blocks |-> 0]]
    /\ never = {} /\ rounds = [b \in Blocks |-> 0]
    /\ private = [b \in Blocks |-> 0] /\ registry = private
    /\ issues = [p \in Phases |-> [b \in Blocks |-> NoAnswer]]
    /\ doubted = {} /\ claims = {} /\ todo = {} /\ requeued = {} /\ stage = "idle"
    /\ outcome = "running"
    /\ crashes = 0

-----------------------------------------------------------------------------
(* Which blocks go *)

Waiting(b) ==
    /\ b \notin done[phase]
    /\ phase = "final_semantic" => b \in Changed /\ rounds[b] < FinalRounds
Pending == {b \in Blocks : Waiting(b)}

(* _take_batch, _take_final_batch: those before it and itself are within the
   count and the size, and the first goes whatever its size.                 *)
Goes(b) ==
    LET upto == {c \in Pending : Place[c] <= Place[b]}
    IN  \/ upto = {b}
        \/ /\ Cardinality(upto) <= BatchSize
           /\ MapThenSumSet(LAMBDA c : Cost[c], upto) <= BatchBudget
Batch == {b \in Pending : Goes(b)}

-----------------------------------------------------------------------------
(* What an answer is worth *)

(* The answer about block b: under which id it came, how often it records each
   graded row, and what it says.  One under an id that was never sent is
   discarded, as if it were omitted.                                         *)
Answers(b) ==
    {a \in [id : Batch, seen : [Graded[b] -> 0..2], says : Says[phase]] :
        a.says = "contradicts" => \E r \in Graded[b] : a.seen[r] > 0}
Omitted == [id |-> "none", seen |-> <<>>, says |-> "clean"]
(* A call for one block has no ids. *)
Alone == Cardinality(Batch) = 1
AnswersOrNone(b) == Answers(b) \cup IF Alone THEN {} ELSE {Omitted}
Replies ==
    {reply \in [Batch -> UNION {AnswersOrNone(b) : b \in Batch}] :
        \A b \in Batch : reply[b] \in AnswersOrNone(b)}

(* attribute: exactly one result under the block's id *)
Under(reply, b) == IF Alone THEN Batch ELSE {c \in Batch : reply[c].id = b}
Attributed(reply, b) == Cardinality(Under(reply, b)) = 1
ResultOf(reply, b) == reply[CHOOSE c \in Under(reply, b) : TRUE]
(* cells_for_block: a finding with a cell elsewhere spoils the whole result *)
Strays(result) == result.says = "stray"
Usable(reply) ==
    {b \in Batch : Attributed(reply, b) /\ ~Strays(ResultOf(reply, b))}

GapsByCount(b, seen) ==
    IF Cardinality({r \in DOMAIN seen : seen[r] > 0}) < Cardinality(Graded[b]) THEN Graded[b] ELSE {}
(* coverage_gaps: graded rows not recorded exactly once *)
Gaps(b, seen) == {r \in Graded[b] : r \notin DOMAIN seen \/ seen[r] # 1}
(* record_coverage: a result without a row leaves nothing *)
Recorded(result) == \E r \in DOMAIN result.seen : result.seen[r] > 0
(* self_contradicting, on the block's own graded rows *)
Contradicts(b, result) ==
    result.says = "contradicts" /\ \E r \in DOMAIN result.seen \cap Graded[b] : result.seen[r] > 0

(* History: the answer really about b came under its id, accounts for every
   graded row and leaves no doubt, whatever the code made of it.             *)
Examines(reply, b) ==
    /\ Alone \/ reply[b].id = b
    /\ \A r \in Graded[b] : reply[b].seen[r] = 1
    /\ reply[b].says = "clean" \/ (phase = "swept" /\ b \in Changed /\ reply[b].says # "stray")

-----------------------------------------------------------------------------
(* A step: the call *)

Working == outcome = "running" /\ stage = "idle"

(* The reasoning of every usable result enters the registry inside the call;
   a lone audit registers it before it looks at the findings.                *)
Registers(reply) ==
    IF phase # "audited" THEN {} ELSE IF Alone THEN Batch ELSE Usable(reply)

(* Which scan of the block this is, re-scans counted; 0 where no reasoning is. *)
Scan(b) == IF phase = "audited" THEN short[phase][b] + 1 ELSE 0
(* What is kept of a usable result *)
Result(reply, b) ==
    LET result == ResultOf(reply, b)
    IN  [block |-> b, gaps |-> Gaps(b, result.seen) # {},
         recorded |-> phase = "swept" /\ Recorded(result),
         contradicts |-> Contradicts(b, result), unsound |-> result.says = "unsound",
         answer |-> [text |-> Scan(b),
                     full |-> Examines(reply, b)]]
Results(reply) == {Result(reply, b) : b \in Usable(reply)}

Dispatch ==
    /\ Working /\ phase \in Phases /\ Pending # {} /\ steps < StepBudget
    /\ steps' = steps + 1
    /\ \E reply \in Replies :
           /\ todo' = Results(reply)
           /\ requeued' = Batch \ Usable(reply)
           /\ registry' = [b \in Blocks |-> IF b \in Registers(reply) THEN Scan(b) ELSE registry[b]]
    /\ stage' = IF todo' = {} THEN "requeue" ELSE FirstWrite[phase]
    /\ UNCHANGED <<phase, done, short, never, rounds, private, issues, doubted, claims,
                   outcome, crashes>>

Exhausted ==
    /\ Working /\ steps >= StepBudget /\ phase # "over"
    /\ outcome' = "failed"
    /\ UNCHANGED <<phase, durable, memory, crashes>>

-----------------------------------------------------------------------------
(* A step: what follows the answer, one commit at a time *)

First == CHOOSE r \in todo : \A q \in todo : Place[r.block] <= Place[q.block]
At(s) == outcome = "running" /\ stage = s
NextResult ==
    /\ todo' = todo \ {First}
    /\ stage' = IF todo' # {} THEN FirstWrite[phase]
                ELSE IF requeued = {} THEN "idle" ELSE "requeue"
    /\ UNCHANGED requeued
SameResult == stage' = After[phase][stage] /\ UNCHANGED <<todo, requeued>>
Rest == <<phase, steps, outcome, crashes>>

(* save_private_blob: one text per label, the last *)
Replacing(texts) == [texts EXCEPT ![First.block] = First.answer.text]
(* _keep_private: the registry, then the row *)
KeepPrivate ==
    /\ At("private") /\ SameResult
    /\ registry' = Replacing(registry)
    /\ private' = Replacing(private)
    /\ UNCHANGED <<Rest, done, short, never, rounds, issues, doubted, claims>>

OpenIssues ==
    /\ At("issues") /\ SameResult
    /\ issues' = [issues EXCEPT ![phase][First.block] = First.answer]
    /\ UNCHANGED <<Rest, registry, done, short, never, rounds, private, doubted, claims>>

(* latest_coverage: a scan that recorded nothing leaves the one before it *)
Latest == IF ~First.recorded THEN doubted
          ELSE IF First.contradicts THEN doubted \cup {First.block}
          ELSE doubted \ {First.block}
PersistCoverage ==
    /\ At("coverage") /\ SameResult
    /\ doubted' = Latest
    /\ UNCHANGED <<Rest, registry, done, short, never, rounds, private, issues, claims>>

CountRound ==
    /\ At("round") /\ SameResult
    /\ rounds' = [rounds EXCEPT ![First.block] = @ + 1]
    /\ UNCHANGED <<Rest, registry, done, short, never, private, issues, doubted, claims>>

(* _coverage_incomplete: scanned again while the durable count allows it *)
Rescan ==
    /\ At("decide") /\ phase # "final_semantic"
    /\ First.gaps /\ short[phase][First.block] < Rescans
    /\ short' = [short EXCEPT ![phase][First.block] = @ + 1]
    /\ NextResult
    /\ UNCHANGED <<Rest, registry, done, never, rounds, private, issues, doubted, claims>>

GiveUpRows ==
    /\ At("decide") /\ phase # "final_semantic"
    /\ First.gaps /\ short[phase][First.block] >= Rescans
    /\ never' = never \cup {<<phase, First.block>>}
    /\ SameResult
    /\ UNCHANGED <<Rest, registry, done, short, rounds, private, issues, doubted, claims>>

(* _verification_defects *)
Defective == First.gaps \/ First.unsound \/ First.contradicts
Withhold ==
    /\ At("decide") /\ phase = "final_semantic" /\ Defective
    /\ NextResult
    /\ UNCHANGED <<Rest, registry, done, short, never, rounds, private, issues, doubted, claims>>

(* A result that nothing is held against goes on to the next write. *)
Stands == At("decide") /\ IF phase = "final_semantic" THEN ~Defective ELSE ~First.gaps
Reached(s) == At(s) \/ (Stands /\ After[phase].decide = s)

(* _record_claim_verdicts *)
RecordClaims ==
    /\ Reached("claims")
    /\ stage' = "mark" /\ UNCHANGED <<todo, requeued>>
    /\ claims' = claims \cup {First.block}
    /\ UNCHANGED <<Rest, registry, done, short, never, rounds, private, issues, doubted>>

Mark ==
    /\ Reached("mark") /\ NextResult
    /\ done' = [done EXCEPT ![phase] = @ \cup {First.block}]
    /\ UNCHANGED <<Rest, registry, short, never, rounds, private, issues, doubted, claims>>

(* blocks_requeued is only noted; a rejected verification counts as a round. *)
Requeue ==
    /\ At("requeue")
    /\ IF phase = "final_semantic"
       THEN \E b \in requeued :
                /\ rounds' = [rounds EXCEPT ![b] = @ + 1]
                /\ requeued' = requeued \ {b}
       ELSE requeued' = {} /\ UNCHANGED rounds
    /\ stage' = IF requeued' = {} THEN "idle" ELSE "requeue"
    /\ UNCHANGED <<Rest, todo, registry, done, short, never, private, issues, doubted, claims>>

-----------------------------------------------------------------------------
(* Between the steps *)

StartsEmpty == [b \in Blocks |-> 0]
(* The worker dies; the next one rebuilds the registry from the rows. *)
Rebuilt == private
Crash ==
    /\ outcome = "running" /\ crashes < MaxCrashes
    /\ crashes' = crashes + 1
    /\ registry' = Rebuilt /\ todo' = {} /\ requeued' = {} /\ stage' = "idle"
    /\ UNCHANGED <<phase, durable, outcome>>

NextPhase == [audited |-> "swept", swept |-> "final_semantic", final_semantic |-> "over"]
EndPhase ==
    /\ Working /\ phase \in Phases /\ Pending = {} /\ steps < StepBudget
    /\ steps' = steps + 1 /\ phase' = NextPhase[phase]
    /\ UNCHANGED <<done, short, never, rounds, private, issues, doubted, claims,
                   memory, outcome, crashes>>

(* _unresolved_coverage_contradictions *)
StillContradicted == doubted \ Changed
(* _finalize, with "ok" for everything about the file and the issues *)
Finalize ==
    /\ Working /\ phase = "over"
    /\ \E ok \in BOOLEAN :
           outcome' = IF /\ ok /\ never = {} /\ Changed \subseteq done["final_semantic"]
                         /\ StillContradicted = {}
                      THEN "succeeded" ELSE "attention"
    /\ UNCHANGED <<phase, durable, memory, crashes>>

Persist == \/ KeepPrivate \/ OpenIssues \/ PersistCoverage \/ CountRound \/ Rescan \/ GiveUpRows
           \/ Withhold \/ RecordClaims \/ Mark \/ Requeue
Next == \/ Dispatch \/ Exhausted \/ Persist \/ Crash \/ EndPhase \/ Finalize
Spec == Init /\ [][Next]_vars

-----------------------------------------------------------------------------
(* Properties *)

ResultType ==
    [block : Blocks, gaps : BOOLEAN, recorded : BOOLEAN, contradicts : BOOLEAN,
     unsound : BOOLEAN, answer : [text : Nat, full : BOOLEAN]]
(* The types of the durable record and of the worker's memory. *)
TypeOK ==
    /\ phase \in Phases \cup {"over"} /\ steps \in 0..StepBudget
    /\ done \in [Phases -> SUBSET Blocks]
    /\ short \in [Phases -> [Blocks -> Nat]]
    /\ never \subseteq Phases \X Blocks
    /\ rounds \in [Blocks -> Nat]
    /\ private \in [Blocks -> Nat] /\ registry \in [Blocks -> Nat]
    /\ issues \in [Phases -> [Blocks -> [text : Nat, full : BOOLEAN]]]
    /\ todo \subseteq ResultType
    /\ doubted \subseteq Blocks /\ claims \subseteq Blocks /\ requeued \subseteq Blocks
    /\ stage \in {"idle", "requeue", "private", "issues", "coverage", "round", "decide",
                  "claims", "mark"}
    /\ outcome \in {"running", "succeeded", "attention", "failed"}

(* A job succeeds only if every block with graded rows was examined in full
   by the audit and by the sweep, and every changed one by the final
   verification, in an answer of its own; and it is the findings of that very
   answer that are on record, with the block's verdicts on the claims.  No
   omission, mixed-up id, doubled row, self-contradiction or death between two
   commits makes silence pass for a clean block.                              *)
SuccessIsExamined ==
    outcome = "succeeded" =>
        /\ \A b \in Blocks, p \in {"audited", "swept"} :
               Graded[b] # {} => issues[p][b].full
        /\ \A b \in Changed :
               Graded[b] # {} => issues["final_semantic"][b].full
        /\ Blocks \subseteq claims

(* Whenever a call may go out, the registry that guards it holds, for every
   block whose audit findings are on record, reasoning no older than them:
   also in a worker started after a death between two commits.               *)
ReasoningIsRegistered ==
    stage = "idle" => \A b \in Blocks : issues["audited"][b].text <= registry[b]
=============================================================================
