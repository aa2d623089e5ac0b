--------------------------- MODULE ApplyProtocol ---------------------------
(***************************************************************************)
(* How a patch reaches the working copy: council._review, _apply and       *)
(* _apply_mechanical_patch, orchestrator.apply_patch (intent, then file,   *)
(* then commit), workbook/writer.apply_edits and atomic_save, and the      *)
(* recovery every new worker runs first (orchestrator.recover_job).        *)
(*                                                                         *)
(* One action per durable step, so that a crash can fall between any two.  *)
(* Durable: the workbook file and the rows of apply_intents,               *)
(* change_records, issues and patches; the block's final-semantic marker   *)
(* is Pipeline's.  Lost in a crash: the worker's position, the patch in    *)
(* hand.                                                                   *)
(*                                                                         *)
(* One worker, one block.  What waits for its review or its application    *)
(* may share cells with a later patch only if a resumed job left it to     *)
(* another phase, where no queue counts it (BlockRepair: carried).  A      *)
(* verdict is remembered only while its rollback is under way.  Text read  *)
(* back from a cell is the text written to it.                             *)
(***************************************************************************)
EXTENDS Naturals, FiniteSets

CONSTANTS
    Cells,        \* the cells of the block
    Values,       \* what a cell may hold, as render_cell shows it
    Patches,      \* patch identifiers (uuid4 in the code)
    Rollbacks,    \* those of rollbacks ("rollback-" and the verdict)
    Source,       \* the block as submitted
    NoPatch       \* stands for a patch that was not recorded yet

Blocks == [Cells -> Values]

ASSUME ApplyAssumption ==
    /\ Source \in Blocks
    /\ NoPatch \notin Patches /\ Rollbacks \subseteq Patches
    /\ NoPatch \notin [before : Blocks, after : Blocks]

VARIABLES
    book,         \* the working copy on disk
    spare,        \* the image not in place: the edited workbook until
                  \* os.replace, then the replaced one until the fsync
                  \* (no third image otherwise)
    sourceIntact, \* the source still has the recorded sha256
    tampered,     \* something outside the job wrote to the working copy
    patch,        \* rows of `patches`, and what a rollback's intent holds
    issueState,   \* state of the issue each patch belongs to
    intent,       \* state of the latest apply_intents row of each patch
    records,      \* how often a patch's change records are in the ledger
    net,          \* net_changes: each cell's last recorded `after`
    job,          \* "running" or "failed" (CORRUPTION is never resumed)
    pc,           \* where the worker is
    cur,          \* the patch in the worker's hand
    caller,       \* who called apply_patch: "apply", "mechanical", "rollback"
    undone,       \* the rejected patch that is rolled back
    carried,      \* the patches a resumed job left to a later phase
    overtaken     \* history: the waiting patches, and the rollbacks, that
                  \* another patch wrote over and that were not written again

outcome == <<sourceIntact, tampered, job>>
rows == <<patch, issueState, intent>>
ledger == <<records, net>>
files == <<book, spare>>
worker == <<pc, cur, caller, undone>>
past == <<carried, overtaken>>
vars == <<files, outcome, rows, ledger, worker, past>>

-----------------------------------------------------------------------------
(* models.Patch with its CellEdits: the block it was written against and the
   block it asks for.  Its cells are those it changes: no CellEdit is a no-op
   and no Patch is empty.                                                   *)
Edits == {e \in [before : Blocks, after : Blocks] : e.before # e.after}
CellsOf(e) == {c \in Cells : e.before[c] # e.after[c]}

(* "proposed" stands for PATCH_PROPOSED and AWAITING_REVIEW, "condemned" for
   the latter with a verdict against the patch in place.                    *)
IssueStates ==
    {"none", "proposed", "condemned", "approved", "applying", "accepted", "patch_rejected"}
IntentStates == {"none", "open", "applied", "not_applied", "rejected"}

(* "idle" is between two steps, "down" is no worker at all, "recover" a new
   worker before its first step, "recovering" one that has recorded the
   changes of an intent it rolls forward.  Inside a step: "inserted" (a
   mechanical patch recorded), "apply" (APPLYING saved), "positioned" (the
   cells were read), "intent" (intent committed), "saving" (edits verified),
   "replaced" (os.replace done), "synced" (directory fsynced), "recorded"
   (change records committed), "settled" (intent settled, or the patch was
   found in place), "refused" (intent settled as rejected).                 *)
InApplyPatch == {"intent", "saving", "replaced", "synced", "recorded"}
Positions == InApplyPatch \cup {"idle", "down", "recover", "recovering",
                "inserted", "apply", "positioned", "settled", "refused"}

TypeOK ==
    /\ book \in Blocks /\ spare \in Blocks
    /\ net \in Blocks
    /\ sourceIntact \in BOOLEAN /\ tampered \in BOOLEAN
    /\ patch \in [Patches -> Edits \cup {NoPatch}]
    /\ issueState \in [Patches -> IssueStates]
    /\ intent \in [Patches -> IntentStates]
    /\ records \in [Patches -> 0..2]
    /\ job \in {"running", "failed"}
    /\ pc \in Positions /\ cur \in Patches \cup {NoPatch}
    /\ caller \in {"apply", "mechanical", "rollback"} /\ undone \in Patches \cup {NoPatch}
    /\ carried \subseteq Patches /\ overtaken \subseteq Patches

Init ==
    /\ book = Source /\ spare = Source /\ net = Source
    /\ sourceIntact = TRUE /\ tampered = FALSE
    /\ patch = [p \in Patches |-> NoPatch]
    /\ issueState = [p \in Patches |-> "none"]
    /\ intent = [p \in Patches |-> "none"]
    /\ records = [p \in Patches |-> 0]
    /\ job = "running"
    /\ pc = "recover" /\ cur = NoPatch /\ caller = "apply" /\ undone = NoPatch
    /\ carried = {} /\ overtaken = {}

(* The readings of the working copy that _patch_position, apply_edits and
   recover_apply_intents share.                                             *)
BeforeIn(b, e) == \A c \in CellsOf(e) : b[c] = e.before[c]
AfterIn(b, e) == \A c \in CellsOf(e) : b[c] = e.after[c]
AllBefore(e) == BeforeIn(book, e)
AllAfter(e) == AfterIn(book, e)
Edited(b, e) == [c \in Cells |-> IF c \in CellsOf(e) THEN e.after[c] ELSE b[c]]

InFlight(p) == issueState[p] \in {"approved", "applying"}
Waiting(p) == issueState[p] \in {"proposed", "condemned"} \/ InFlight(p)
Overlap(e, f) == CellsOf(e) \cap CellsOf(f) # {}

(* Mutant: the busy list of the queue forgets the proposals.                *)
DisjointOfApproved(e) ==
    \A q \in Patches \ carried : InFlight(q) => ~Overlap(patch[q], e)

Disjoint(e) ==
    \A q \in Patches \ carried : Waiting(q) => ~Overlap(patch[q], e)

Kept(q) == Waiting(q) \/ (q \in Rollbacks /\ patch[q] # NoPatch)

(* The file that a power loss would leave has the edits in hand.            *)
Lands ==
    overtaken' = (overtaken \ {cur}) \cup
        {q \in Patches \ {cur} : Kept(q) /\ Overlap(patch[q], patch[cur])}

(* An exception no caller catches, or the death of the process: the worker is
   gone, and what it had in memory with it.                                 *)
WorkerDown == pc' = "down" /\ cur' = NoPatch /\ caller' = "apply" /\ undone' = NoPatch
JobFailed == job' = "failed" /\ WorkerDown

-----------------------------------------------------------------------------
(* What the rest of the council hands over.                                 *)

(* A Writer's patch against the present block, recorded and linked.         *)
Propose(p, after) ==
    LET e == [before |-> book, after |-> after] IN
    /\ pc = "idle" /\ p \notin Rollbacks
    /\ patch[p] = NoPatch /\ e \in Edits /\ Disjoint(e)
    /\ patch' = [patch EXCEPT ![p] = e]
    /\ issueState' = [issueState EXCEPT ![p] = "proposed"]
    /\ UNCHANGED <<intent, files, outcome, ledger, worker, past>>

(* _review_batch: two proposals or more are judged on one simulation.       *)
JudgeInBatch(p, s) ==
    /\ pc = "idle" /\ issueState[p] = "proposed" /\ s \in {"approved", "patch_rejected"}
    /\ \E q \in Patches \ {p} : issueState[q] = "proposed"
    /\ issueState' = [issueState EXCEPT ![p] = s]
    /\ UNCHANGED <<patch, intent, files, outcome, ledger, worker, past>>

(* _review: the position of the patch is read first.                        *)
Reviewed(p, s) ==
    /\ issueState' = [issueState EXCEPT ![p] = s]
    /\ UNCHANGED <<patch, intent, files, outcome, ledger, worker, past>>

Accept(p) ==
    /\ pc = "idle" /\ issueState[p] = "proposed"
    /\ AllBefore(patch[p]) /\ Reviewed(p, "approved")

(* AWAITING_REVIEW to ACCEPTED is no legal transition: IllegalTransition,
   which nothing catches.                                                   *)
AcceptInPlace(p) ==
    /\ pc = "idle" /\ issueState[p] = "proposed"
    /\ AllAfter(patch[p])
    /\ WorkerDown
    /\ UNCHANGED <<outcome, rows, files, ledger, past>>

Reject(p) ==
    /\ pc = "idle" /\ issueState[p] \in {"proposed", "condemned"}
    /\ AllBefore(patch[p]) /\ Reviewed(p, "patch_rejected")

(* _rollback_rejected_patch: the verdict is durable, the inverse of the patch
   is handed to apply_patch.                                                *)
Inverse(e) == [before |-> e.after, after |-> e.before]

RollBack(p, q) ==
    /\ pc = "idle" /\ issueState[p] \in {"proposed", "condemned"}
    /\ AllAfter(patch[p])
    /\ q \in Rollbacks /\ patch[q] \in {NoPatch, Inverse(patch[p])}
    /\ patch' = [patch EXCEPT ![q] = Inverse(patch[p])]
    /\ issueState' = [issueState EXCEPT ![p] = "condemned"]
    /\ pc' = "positioned" /\ cur' = q /\ caller' = "rollback" /\ undone' = p
    /\ UNCHANGED <<intent, files, outcome, ledger, past>>

SaveRolledBack ==
    /\ pc = "settled" /\ caller = "rollback"
    /\ issueState' = [issueState EXCEPT ![undone] = "patch_rejected"]
    /\ pc' = "idle" /\ cur' = NoPatch /\ caller' = "apply" /\ undone' = NoPatch
    /\ UNCHANGED <<patch, intent, files, outcome, ledger, past>>

ReviewMixed(p) ==
    /\ pc = "idle" /\ issueState[p] \in {"proposed", "condemned"}
    /\ ~AllBefore(patch[p]) /\ ~AllAfter(patch[p])
    /\ JobFailed
    /\ UNCHANGED <<files, rows, sourceIntact, tampered, ledger, past>>

-----------------------------------------------------------------------------
(* council._apply_mechanical_patch up to the call of apply_patch: the patch
   is its own commit, the issue goes from OPEN to APPLYING in one save, and
   the position of the patch is not read.                                   *)
InsertMechanical(p, after) ==
    LET e == [before |-> book, after |-> after] IN
    /\ pc = "idle" /\ p \notin Rollbacks
    /\ patch[p] = NoPatch /\ e \in Edits /\ Disjoint(e)
    /\ patch' = [patch EXCEPT ![p] = e]
    /\ pc' = "inserted" /\ cur' = p /\ caller' = "mechanical" /\ undone' = NoPatch
    /\ UNCHANGED <<issueState, intent, files, outcome, ledger, past>>

SaveMechanical ==
    /\ pc = "inserted"
    /\ issueState' = [issueState EXCEPT ![cur] = "applying"]
    /\ pc' = "positioned"
    /\ UNCHANGED <<patch, intent, cur, caller, undone, files, outcome, ledger, past>>

(* council._apply up to the call of apply_patch.                            *)
BeginApply(p) ==
    /\ pc = "idle" /\ InFlight(p)
    /\ issueState' = [issueState EXCEPT ![p] = "applying"]
    /\ pc' = "apply" /\ cur' = p /\ caller' = "apply" /\ undone' = NoPatch
    /\ UNCHANGED <<patch, intent, files, outcome, ledger, past>>

ReadPosition ==
    /\ pc = "apply"
    /\ \/ /\ AllBefore(patch[cur])
          /\ pc' = "positioned" /\ UNCHANGED <<cur, caller, undone, job>>
       \/ /\ AllAfter(patch[cur])
          /\ pc' = "settled" /\ UNCHANGED <<cur, caller, undone, job>>
       \/ /\ ~AllBefore(patch[cur]) /\ ~AllAfter(patch[cur])
          /\ JobFailed
    /\ UNCHANGED <<rows, files, sourceIntact, tampered, ledger, past>>

-----------------------------------------------------------------------------

(* orchestrator.apply_patch, with apply_edits and atomic_save inside.       *)
OpenIntent ==
    /\ pc = "positioned"
    /\ intent' = [intent EXCEPT ![cur] = "open"]
    /\ pc' = "intent"
    /\ UNCHANGED <<patch, issueState, cur, caller, undone, files, outcome, ledger, past>>

VerifyEdits ==
    /\ pc = "intent"
    /\ sourceIntact /\ AllBefore(patch[cur])
    /\ spare' = Edited(book, patch[cur])
    /\ pc' = "saving"
    /\ UNCHANGED <<book, cur, caller, undone, rows, outcome, ledger, past>>

(* EditRejected: _apply catches it, the other two do not.                   *)
RefuseEdits ==
    /\ pc = "intent"
    /\ sourceIntact /\ ~AllBefore(patch[cur])
    /\ intent' = [intent EXCEPT ![cur] = "rejected"]
    /\ \/ caller = "apply" /\ pc' = "refused" /\ UNCHANGED <<cur, caller, undone>>
       \/ caller # "apply" /\ WorkerDown
    /\ UNCHANGED <<patch, issueState, files, outcome, ledger, past>>

SaveRejected ==
    /\ pc = "refused"
    /\ issueState' = [issueState EXCEPT ![cur] = "patch_rejected"]
    /\ pc' = "idle" /\ cur' = NoPatch
    /\ UNCHANGED <<patch, intent, caller, undone, files, outcome, ledger, past>>

(* WorkbookWriteError: the intent is settled and the exception travels on.
   The source is not what it was, or (a fault) the temp directory is on
   another device.                                                          *)
WriteError ==
    /\ intent' = [intent EXCEPT ![cur] = "rejected"]
    /\ WorkerDown /\ spare' = book
    /\ UNCHANGED <<patch, issueState, book, outcome, ledger, past>>

SourceRefused == pc = "intent" /\ ~sourceIntact /\ WriteError
SaveRefused == pc = "saving" /\ WriteError

(* Mutant: the workbook is saved in place, cell after cell.                 *)
SaveInPlace ==
    /\ pc = "saving"
    /\ book' \in {b \in Blocks : \A c \in Cells : b[c] \in {book[c], spare[c]}}
    /\ pc' = "synced"
    /\ UNCHANGED <<spare, cur, caller, undone, rows, outcome, ledger, past>>

Replace ==
    /\ pc = "saving"
    /\ book' = spare /\ spare' = book
    /\ pc' = "replaced"
    /\ UNCHANGED <<cur, caller, undone, rows, outcome, ledger, past>>

(* Mutant: the intent is settled without the change records.                *)
SyncWithoutRecords ==
    /\ pc = "replaced" /\ pc' = "recorded" /\ spare' = book /\ Lands
    /\ UNCHANGED <<book, cur, caller, undone, rows, outcome, ledger, carried>>

SyncDirectory ==
    /\ pc = "replaced"
    /\ pc' = "synced" /\ spare' = book /\ Lands
    /\ UNCHANGED <<book, cur, caller, undone, rows, outcome, ledger, carried>>

(* record_changes appends; a second copy of the rows is told from the first,
   further copies are not.                                                  *)
Recorded(p) ==
    /\ records' = [records EXCEPT ![p] = IF @ < 2 THEN @ + 1 ELSE 2]
    /\ net' = Edited(net, patch[p])

RecordChanges ==
    /\ pc = "synced"
    /\ Recorded(cur)
    /\ pc' = "recorded"
    /\ UNCHANGED <<cur, caller, undone, files, rows, outcome, past>>

SettleApplied ==
    /\ pc = "recorded"
    /\ intent' = [intent EXCEPT ![cur] = "applied"]
    /\ pc' = "settled"
    /\ UNCHANGED <<patch, issueState, cur, caller, undone, files, outcome, ledger, past>>

-----------------------------------------------------------------------------
(* The end of both callers, but for clear_block_done.                       *)
SaveAccepted ==
    /\ pc = "settled" /\ caller # "rollback"
    /\ issueState' = [issueState EXCEPT ![cur] = "accepted"]
    /\ pc' = "idle" /\ cur' = NoPatch
    /\ UNCHANGED <<patch, intent, caller, undone, files, outcome, ledger, past>>

-----------------------------------------------------------------------------
(* orchestrator.recover_job: the source first, then every open intent.      *)
OpenIntents == {p \in Patches : intent[p] = "open"}

RecoverSource ==
    /\ pc = "recover" /\ ~sourceIntact
    /\ JobFailed
    /\ UNCHANGED <<files, rows, sourceIntact, tampered, ledger, past>>

RollForward(p) ==
    /\ pc = "recover" /\ sourceIntact
    /\ p \in OpenIntents /\ AllAfter(patch[p])
    /\ Recorded(p)
    /\ pc' = "recovering" /\ cur' = p
    /\ UNCHANGED <<caller, undone, files, rows, outcome, past>>

SettleRolledForward ==
    /\ pc = "recovering"
    /\ intent' = [intent EXCEPT ![cur] = "applied"]
    /\ pc' = "recover" /\ cur' = NoPatch
    /\ UNCHANGED <<patch, issueState, caller, undone, files, outcome, ledger, past>>

(* Mutants: the intent is settled unread; or it is reported and left open.  *)
SettleUnread(p) ==
    /\ pc = "recover" /\ sourceIntact /\ p \in OpenIntents
    /\ intent' = [intent EXCEPT ![p] = "not_applied"]
    /\ UNCHANGED <<patch, issueState, files, outcome, ledger, worker, past>>

LeaveOpen(p) ==
    /\ pc = "recover" /\ sourceIntact /\ p \in OpenIntents /\ AllBefore(patch[p])
    /\ UNCHANGED vars

SettleNotApplied(p) ==
    /\ pc = "recover" /\ sourceIntact
    /\ p \in OpenIntents /\ AllBefore(patch[p])
    /\ intent' = [intent EXCEPT ![p] = "not_applied"]
    /\ UNCHANGED <<patch, issueState, files, outcome, ledger, worker, past>>

RecoverMixed(p) ==
    /\ pc = "recover" /\ sourceIntact
    /\ p \in OpenIntents /\ ~AllAfter(patch[p]) /\ ~AllBefore(patch[p])
    /\ JobFailed
    /\ UNCHANGED <<files, rows, sourceIntact, tampered, ledger, past>>

(* The rest of recover_job, which changes nothing modelled here.            *)
Recovered ==
    /\ pc = "recover" /\ sourceIntact /\ OpenIntents = {}
    /\ pc' = "idle"
    /\ UNCHANGED <<cur, caller, undone, files, rows, outcome, ledger, past>>

-----------------------------------------------------------------------------
(* The process dies, or an exception that nothing catches ends the worker
   (an OSError of the save or of the fsync).  A rename whose directory was
   not fsynced may be lost.                                                 *)
Crash ==
    /\ pc # "down"
    /\ WorkerDown
    /\ book' \in IF pc = "replaced" THEN {book, spare} ELSE {book}
    /\ spare' = book'
    /\ IF pc = "replaced" /\ book' = book THEN Lands ELSE UNCHANGED overtaken
    /\ UNCHANGED <<outcome, rows, ledger, carried>>

(* workers.sweep resubmits the job when its lease lapsed.                   *)
Restart ==
    /\ pc = "down" /\ job = "running"
    /\ pc' = "recover"
    /\ UNCHANGED <<cur, caller, undone, files, outcome, rows, ledger, past>>

(* POST resume of a job that failed, or ran out of something: it starts from
   its first phase, and what waits is left to the phase of its reviewer.    *)
Resume ==
    /\ pc = "down" /\ job = "running"
    /\ carried' = carried \cup {p \in Patches : Waiting(p)}
    /\ pc' = "recover"
    /\ UNCHANGED <<cur, caller, undone, files, outcome, rows, ledger, overtaken>>

(* Outside the job: a person opens and saves the working copy, once.        *)
Tamper(b) ==
    /\ ~tampered /\ b # book
    /\ tampered' = TRUE /\ book' = b
    /\ UNCHANGED <<spare, sourceIntact, job, rows, ledger, worker, past>>

SourceChanges ==
    /\ sourceIntact
    /\ sourceIntact' = FALSE
    /\ UNCHANGED <<tampered, job, files, rows, ledger, worker, past>>

-----------------------------------------------------------------------------
Council ==
    \/ \E p \in Patches, after \in Blocks :
          Propose(p, after) \/ InsertMechanical(p, after)
    \/ \E p, q \in Patches :
          \/ \E s \in {"approved", "patch_rejected"} : JudgeInBatch(p, s)
          \/ Accept(p) \/ AcceptInPlace(p) \/ Reject(p)
          \/ RollBack(p, q) \/ ReviewMixed(p)

ApplyStep ==
    \/ \E p \in Patches : BeginApply(p)
    \/ SaveMechanical \/ ReadPosition
    \/ OpenIntent \/ VerifyEdits \/ SourceRefused \/ RefuseEdits \/ SaveRejected
    \/ Replace \/ SyncDirectory \/ RecordChanges \/ SettleApplied
    \/ SaveAccepted \/ SaveRolledBack

Recovery ==
    \/ RecoverSource \/ SettleRolledForward \/ Recovered
    \/ \E p \in Patches : RollForward(p) \/ SettleNotApplied(p) \/ RecoverMixed(p)

Fault == SaveRefused \/ Crash \/ SourceChanges

Job == Council \/ ApplyStep \/ Recovery \/ Restart \/ Resume \/ Fault
Next == Job \/ \E b \in Blocks : Tamper(b)

Spec == Init /\ [][Next]_vars

(* A worker that runs takes its next step, and a lapsed lease is swept.     *)
Fairness == WF_vars(ApplyStep) /\ WF_vars(Recovery) /\ WF_vars(Restart)
FairSpec == Spec /\ Fairness
-----------------------------------------------------------------------------
(* The change ledger explains the workbook (what diff.reconcile demands): a
   cell that differs from its last recorded value belongs to a patch whose
   intent is open, at any moment and after any crash.                       *)
LedgerExplainsBook ==
    ~tampered =>
        \A c \in Cells : book[c] # net[c] =>
            \E p \in OpenIntents : c \in CellsOf(patch[p])

(* An accepted repair is in the ledger, whichever of apply_patch, the roll
   forward of recovery and the resumed _apply saw it through; only what a
   patch that overtook it put in place is in the ledger under that one.     *)
AcceptedIsRecorded ==
    ~tampered => \A p \in Patches : issueState[p] = "accepted" =>
        \/ intent[p] = "applied" /\ records[p] > 0
        \/ p \in overtaken

(* The job is failed for corruption only when something outside it touched
   the source or the working copy, or when it was resumed and a patch that
   the resumption left waiting was written over, or wrote over another: no
   crash, at whatever step, ever leaves a patch half in place, and in a job
   that was never resumed no repair is in another's way.                    *)
CorruptionHasCause ==
    job = "failed" =>
        \/ tampered \/ ~sourceIntact
        \/ carried # {} /\ \E p \in overtaken : Waiting(p)

(* While its issue still awaits the outcome, a settled intent says the truth
   about the cells: a retry starts from `before`, a resumed apply finds
   `after`; unless another patch wrote over them since.                     *)
DurableBook == IF pc = "replaced" THEN spare ELSE book
SettledIntentIsTrue ==
    ~tampered => \A p \in Patches \ overtaken : Waiting(p) =>
        /\ intent[p] = "applied" => AfterIn(DurableBook, patch[p])
        /\ intent[p] \in {"none", "not_applied", "rejected"} =>
               BeforeIn(DurableBook, patch[p])

(* Recovery settles what a crash left before anything new is authorised.    *)
OneOpenIntent == \A p, q \in OpenIntents : p = q

(* A byte changes only under an intent that was committed before and names
   the cell, and only between that patch's two values.                      *)
WritesAuthorised ==
    [][~tampered' => \A c \in Cells : book'[c] # book[c] =>
          \E p \in OpenIntents :
             {book[c], book'[c]} = {patch[p].before[c], patch[p].after[c]}]_vars

(* The file system and the rows together behave as one atomic write.        *)
Done == {p \in Patches :
            \/ intent[p] = "applied" /\ p \notin overtaken
            \/ intent[p] = "open" /\ AfterIn(DurableBook, patch[p])}
Atomic == INSTANCE AtomicApply
    WITH book <- DurableBook, done <- Done, alone <- ~tampered
AppliesAtomically == Atomic!Spec

(* If faults stop, every approved patch is accepted, rejected, or the job has
   failed: neither the roll forward nor the resumed _apply gets stuck.  Only a
   proposal that is found in place holds one up: reviews come first, and a
   worker that accepts it dies of it, again and again.                      *)
StuckInReview == \E q \in Patches : issueState[q] = "proposed" /\ AllAfter(patch[q])

ApprovedIsSettled ==
    <>[][~Fault]_vars =>
        \A p \in Patches :
            InFlight(p) ~> ~InFlight(p) \/ job = "failed" \/ StuckInReview

(* orchestrator.py:229: a mixture found by recovery is one that "os.replace
   cannot produce ..., so the file was modified outside the job"; likewise
   council.py:3295, of the position a review or an apply reads.             *)
OnlyFromOutside == job = "failed" => tampered \/ ~sourceIntact

(* orchestrator.recover_apply_intents: "only the change records are
   missing", so a roll forward records them for the first time.             *)
RecordedOnce == \A p \in Patches : records[p] <= 1
=============================================================================
