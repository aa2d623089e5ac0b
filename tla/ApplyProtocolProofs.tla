------------------------ MODULE ApplyProtocolProofs ------------------------
(***************************************************************************)
(* The apply protocol is correct for every number of cells, values and     *)
(* patches.  Two layers: what holds whatever happens (Sound) and what      *)
(* holds while nothing outside the job touched the working copy            *)
(* (Consistent).  Together they are inductive.                             *)
(***************************************************************************)
EXTENDS ApplyProtocol, TLAPS

-----------------------------------------------------------------------------
(* The inductive invariant.                                                 *)

Holding == Positions \ {"idle", "down", "recover"}
Applying == InApplyPatch \cup {"apply", "positioned", "settled", "refused"}

(* A row exists for whatever is in hand, waits, or is under an intent; a
   failed job has no worker.                                                *)
PatchInHand ==
    /\ pc \in Holding => cur \in Patches /\ patch[cur] # NoPatch
    /\ \A p \in Patches :
          issueState[p] # "none" \/ intent[p] # "none" \/ p \in overtaken =>
             patch[p] # NoPatch
    /\ job = "failed" => pc = "down"

(* The issue of the patch in hand, and what a proposal has not yet been.    *)
IssueInHand ==
    /\ pc \in Applying => \/ caller # "rollback" /\ issueState[cur] = "applying"
                          \/ /\ caller = "rollback" /\ cur \in Rollbacks
                             /\ undone \in Patches /\ issueState[undone] = "condemned"
    /\ pc \in {"apply", "inserted", "refused"} => caller # "rollback"
    /\ pc = "recovering" => intent[cur] # "none"
    /\ pc = "inserted" => issueState[cur] = "none" /\ cur \notin Rollbacks
    /\ \A p \in Rollbacks : issueState[p] = "none"
    /\ \A p \in Patches : issueState[p] \in {"proposed", "condemned"} => intent[p] = "none"
    /\ \A p \in overtaken \ Rollbacks : issueState[p] # "none"

Sound == TypeOK /\ PatchInHand /\ IssueInHand

(* Waiting patches of one phase share no cell, and a mechanical patch that
   was only inserted shares none with them.                                 *)
WaitingDisjoint ==
    /\ \A p, q \in Patches \ carried :
          Waiting(p) /\ Waiting(q) /\ p # q => ~Overlap(patch[p], patch[q])
    /\ pc = "inserted" =>
          intent[cur] = "none" /\ AllBefore(patch[cur]) /\ Disjoint(patch[cur])

(* An open intent belongs to the patch in the worker's hand, or waits for
   the recovery; the cells are never a mixture.                             *)
OpenIntentHeld ==
    \A p \in OpenIntents :
        /\ \/ BeforeIn(DurableBook, patch[p])
           \/ AfterIn(DurableBook, patch[p]) /\ p \notin overtaken
        /\ pc \in InApplyPatch \cup {"recovering"} => p = cur
        /\ pc \in InApplyPatch \cup {"recovering", "down", "recover"}

(* What the worker's position says about the patch in its hand.             *)
PositionMeans ==
    /\ pc \in InApplyPatch \cup {"recovering"} => intent[cur] = "open"
    /\ pc \in {"positioned", "intent", "saving"} => AllBefore(patch[cur])
    /\ pc = "saving" => spare = Edited(book, patch[cur])
    /\ pc = "replaced" =>
          book = Edited(spare, patch[cur]) /\ net = spare /\ BeforeIn(spare, patch[cur])
    /\ pc \in {"synced", "recorded", "recovering"} =>
          AllAfter(patch[cur]) /\ cur \notin overtaken
    /\ pc \in {"recorded", "recovering"} => net = book /\ records[cur] > 0
    /\ pc = "settled" => intent[cur] = "applied" \/ cur \in overtaken
    /\ pc # "refused"
    /\ pc \in Applying /\ caller = "rollback" => carried # {}

(* LedgerExplainsBook, strengthened: the patch that explains the difference
   is in place.                                                             *)
LedgerBehindBook ==
    \A c \in Cells : book[c] # net[c] =>
        \E p \in OpenIntents : c \in CellsOf(patch[p]) /\ AllAfter(patch[p])

AppliedIsRecorded ==
    \A p \in Patches :
        /\ intent[p] = "applied" => records[p] > 0
        /\ issueState[p] = "accepted" => intent[p] = "applied" \/ p \in overtaken

IntentTold ==
    \A p \in Patches \ overtaken :
        /\ Kept(p) /\ intent[p] = "applied" => AfterIn(DurableBook, patch[p])
        /\ Waiting(p) /\ intent[p] \in {"none", "not_applied", "rejected"} =>
               BeforeIn(DurableBook, patch[p])

(* Who was written over while he waited was left waiting by a resumption, or
   met one that was.                                                        *)
CarriedFirst == (\E p \in overtaken : Waiting(p)) => carried # {}

Consistent ==
    /\ WaitingDisjoint /\ OpenIntentHeld /\ OneOpenIntent /\ PositionMeans
    /\ LedgerBehindBook /\ AppliedIsRecorded /\ IntentTold /\ CarriedFirst

IInv == Sound /\ CorruptionHasCause /\ (tampered \/ Consistent)

-----------------------------------------------------------------------------
(* Edits.                                                                   *)

LEMMA EditChangesSomething ==
    ASSUME NEW e \in Edits
    PROVE  \E c \in Cells : c \in CellsOf(e)
<1>1. e.before \in Blocks /\ e.after \in Blocks /\ e.before # e.after
  BY DEF Edits
<1>2. \E c \in Cells : e.before[c] # e.after[c]
  BY <1>1 DEF Blocks
<1> QED  BY <1>2 DEF CellsOf

LEMMA EditedIsBlock ==
    ASSUME NEW e \in Edits, NEW b \in Blocks
    PROVE  /\ Edited(b, e) \in Blocks
           /\ \A c \in CellsOf(e) : Edited(b, e)[c] = e.after[c]
           /\ \A c \in Cells \ CellsOf(e) : Edited(b, e)[c] = b[c]
           /\ AfterIn(Edited(b, e), e)
  BY DEF Edits, Edited, CellsOf, Blocks, AfterIn

LEMMA NotBoth ==
    ASSUME NEW e \in Edits, NEW b, BeforeIn(b, e), AfterIn(b, e)
    PROVE  FALSE
  BY EditChangesSomething DEF BeforeIn, AfterIn, CellsOf

(* A rollback's edits are the rejected patch's, the other way round.        *)
LEMMA InverseEdit ==
    ASSUME NEW e \in Edits
    PROVE  /\ Inverse(e) \in Edits /\ CellsOf(Inverse(e)) = CellsOf(e)
           /\ \A b : AfterIn(b, e) => BeforeIn(b, Inverse(e))
<1>1. Inverse(e) \in Edits
  BY DEF Edits, Inverse
<1>2. CellsOf(Inverse(e)) = CellsOf(e)
  BY DEF Inverse, CellsOf
<1>3. Inverse(e).before = e.after
  BY DEF Inverse
<1> QED  BY <1>1, <1>2, <1>3 DEF BeforeIn, AfterIn

(* Writing a patch leaves a patch that shares no cell with it as it was.    *)
LEMMA WritingSparesOthers ==
    ASSUME NEW e \in Edits, NEW f \in Edits, NEW b \in Blocks, ~Overlap(f, e)
    PROVE  /\ BeforeIn(Edited(b, e), f) <=> BeforeIn(b, f)
           /\ AfterIn(Edited(b, e), f) <=> AfterIn(b, f)
<1>1. \A c \in CellsOf(f) : c \in Cells /\ Edited(b, e)[c] = b[c]
  BY EditedIsBlock DEF Overlap, CellsOf
<1> QED  BY <1>1 DEF BeforeIn, AfterIn

-----------------------------------------------------------------------------
(* Type correctness: of the whole specification, tampering included.        *)

LEMMA SoundInit == Init => Sound
<1> SUFFICES ASSUME Init PROVE Sound
  OBVIOUS
<1>1. book \in Blocks /\ spare \in Blocks /\ net \in Blocks
  BY ApplyAssumption DEF Init
<1>2. /\ patch \in [Patches -> Edits \cup {NoPatch}]
      /\ issueState \in [Patches -> IssueStates]
      /\ intent \in [Patches -> IntentStates]
      /\ records \in [Patches -> 0..2]
  BY DEF Init, IssueStates, IntentStates
<1>3. TypeOK
  BY <1>1, <1>2 DEF Init, TypeOK, Positions
<1>4. PatchInHand /\ IssueInHand
  BY ApplyAssumption DEF Init, PatchInHand, IssueInHand, Holding, Applying, InApplyPatch
<1> QED  BY <1>3, <1>4 DEF Sound

LEMMA SoundStep == Sound /\ [Next]_vars => Sound'
<1> SUFFICES ASSUME Sound, [Next]_vars PROVE Sound'
  OBVIOUS
<1> USE ApplyAssumption DEF Sound, PatchInHand, IssueInHand, Holding, Applying, Positions,
            InApplyPatch, files, outcome, rows, ledger, worker, past
<1>h. ASSUME pc \in Holding
      PROVE  cur \in Patches /\ patch[cur] \in Edits
  BY <1>h DEF TypeOK
<1>o. ASSUME NEW p \in Patches, intent[p] = "open" \/ issueState[p] # "none"
      PROVE  patch[p] \in Edits
  BY <1>o DEF TypeOK
<1>e. \A e \in Edits : e # NoPatch
  BY DEF Edits
<1>1. ASSUME NEW p \in Patches, NEW after \in Blocks, Propose(p, after)
      PROVE  Sound'
  BY <1>1, <1>e DEF Propose, TypeOK, IssueStates
<1>2. ASSUME NEW p \in Patches, NEW after \in Blocks, InsertMechanical(p, after)
      PROVE  Sound'
  BY <1>2, <1>e DEF InsertMechanical, TypeOK
<1>3. ASSUME NEW p \in Patches, NEW s \in {"approved", "patch_rejected"}, JudgeInBatch(p, s)
      PROVE  Sound'
  BY <1>3 DEF JudgeInBatch, TypeOK, IssueStates
<1>4. ASSUME NEW p \in Patches, Accept(p) \/ Reject(p)
      PROVE  Sound'
  BY <1>4 DEF Accept, Reject, Reviewed, TypeOK, IssueStates
<1>5. ASSUME NEW p \in Patches, NEW q \in Patches, RollBack(p, q)
      PROVE  Sound'
  <2>1. patch[p] \in Edits /\ Inverse(patch[p]) \in Edits
    BY <1>5, <1>o, InverseEdit DEF RollBack
  <2> QED  BY <1>5, <2>1, <1>e DEF RollBack, TypeOK, IssueStates
<1>6. ASSUME NEW p \in Patches, ReviewMixed(p) \/ AcceptInPlace(p)
      PROVE  Sound'
  BY <1>6 DEF ReviewMixed, AcceptInPlace, JobFailed, WorkerDown, TypeOK
<1>7. CASE SaveMechanical
  BY <1>7, <1>h DEF SaveMechanical, TypeOK, IssueStates
<1>8. ASSUME NEW p \in Patches, BeginApply(p) PROVE Sound'
  BY <1>8 DEF BeginApply, InFlight, TypeOK, IssueStates
<1>9. CASE ReadPosition
  BY <1>9 DEF ReadPosition, JobFailed, WorkerDown, TypeOK
<1>10. CASE OpenIntent
  BY <1>10, <1>h DEF OpenIntent, TypeOK, IntentStates
<1>11. CASE VerifyEdits
  <2>1. spare' \in Blocks
    BY <1>11, <1>h, EditedIsBlock DEF VerifyEdits, TypeOK
  <2> QED  BY <1>11, <2>1 DEF VerifyEdits, TypeOK
<1>12. CASE SourceRefused \/ SaveRefused
  BY <1>12, <1>h DEF SourceRefused, SaveRefused, WriteError, WorkerDown, TypeOK, IntentStates
<1>13. CASE RefuseEdits
  BY <1>13, <1>h DEF RefuseEdits, WorkerDown, TypeOK, IntentStates
<1>14. CASE SaveRejected
  BY <1>14, <1>h DEF SaveRejected, TypeOK, IssueStates
<1>15. CASE Replace
  BY <1>15 DEF Replace, TypeOK
<1>16. CASE SyncDirectory
  BY <1>16, <1>h DEF SyncDirectory, Lands, Kept, Waiting, InFlight, TypeOK
<1>17. CASE RecordChanges
  <2>1. net' \in Blocks /\ records' \in [Patches -> 0..2]
    BY <1>17, <1>h, EditedIsBlock DEF RecordChanges, Recorded, TypeOK
  <2> QED  BY <1>17, <2>1 DEF RecordChanges, TypeOK
<1>18. CASE SettleApplied
  BY <1>18, <1>h DEF SettleApplied, TypeOK, IntentStates
<1>19. CASE SaveAccepted
  BY <1>19, <1>h DEF SaveAccepted, TypeOK, IssueStates
<1>20. CASE SaveRolledBack
  BY <1>20 DEF SaveRolledBack, TypeOK, IssueStates
<1>21. CASE RecoverSource
  BY <1>21 DEF RecoverSource, JobFailed, WorkerDown, TypeOK
<1>22. CASE SettleRolledForward
  BY <1>22, <1>h DEF SettleRolledForward, TypeOK, IntentStates
<1>23. CASE Recovered
  BY <1>23 DEF Recovered, TypeOK
<1>24. ASSUME NEW p \in Patches, RollForward(p) PROVE Sound'
  <2>1. net' \in Blocks /\ records' \in [Patches -> 0..2]
    BY <1>24, <1>o, EditedIsBlock DEF RollForward, OpenIntents, Recorded, TypeOK
  <2> QED  BY <1>24, <2>1 DEF RollForward, OpenIntents, TypeOK
<1>25. ASSUME NEW p \in Patches, SettleNotApplied(p) PROVE Sound'
  BY <1>25 DEF SettleNotApplied, OpenIntents, TypeOK, IntentStates
<1>26. ASSUME NEW p \in Patches, RecoverMixed(p) PROVE Sound'
  BY <1>26 DEF RecoverMixed, JobFailed, WorkerDown, TypeOK
<1>27. CASE Crash
  <2>1. book' \in Blocks
    BY <1>27 DEF Crash, TypeOK
  <2>2. overtaken' \subseteq overtaken \cup {q \in Patches : Kept(q)}
    BY <1>27 DEF Crash, Lands
  <2> QED  BY <1>27, <2>1, <2>2 DEF Crash, WorkerDown, TypeOK, Kept, Waiting, InFlight
<1>28. CASE Restart \/ Resume
  BY <1>28 DEF Restart, Resume, TypeOK
<1>29. CASE SourceChanges
  BY <1>29 DEF SourceChanges, TypeOK
<1>30. ASSUME NEW b \in Blocks, Tamper(b) PROVE Sound'
  BY <1>30 DEF Tamper, TypeOK
<1>31. CASE UNCHANGED vars
  BY <1>31 DEF vars, TypeOK
<1> QED
  BY <1>1, <1>2, <1>3, <1>4, <1>5, <1>6, <1>7, <1>8, <1>9, <1>10, <1>11,
     <1>12, <1>13, <1>14, <1>15, <1>16, <1>17, <1>18, <1>19, <1>20, <1>21,
     <1>22, <1>23, <1>24, <1>25, <1>26, <1>27, <1>28, <1>29, <1>30, <1>31
  DEF Next, Job, Council, ApplyStep, Recovery, Fault

(* Every reachable state of the protocol has the declared types, whatever is
   done to the workbook from outside.                                       *)
THEOREM TypeCorrect == Spec => []TypeOK
<1>1. Sound => TypeOK  BY DEF Sound
<1> QED  BY SoundInit, SoundStep, <1>1, PTL DEF Spec

-----------------------------------------------------------------------------
(* The untampered protocol.                                                 *)

LEMMA ConsistentInit == Init => CorruptionHasCause /\ Consistent
  BY DEF Init, CorruptionHasCause, Consistent, WaitingDisjoint, OpenIntentHeld,
         OneOpenIntent, PositionMeans, LedgerBehindBook, AppliedIsRecorded,
         IntentTold, CarriedFirst, OpenIntents, Kept, Waiting, InFlight, InApplyPatch,
         Applying

(* If every open intent is still to be written, the ledger is the workbook. *)
LEMMA LedgerIsBook ==
    ASSUME TypeOK, PatchInHand, LedgerBehindBook,
           \A p \in OpenIntents : AllBefore(patch[p])
    PROVE  net = book
<1>1. ASSUME NEW c \in Cells, book[c] # net[c]
      PROVE  FALSE
  <2>1. PICK p \in OpenIntents : AllAfter(patch[p])
    BY <1>1 DEF LedgerBehindBook
  <2>2. patch[p] \in Edits
    BY <2>1 DEF OpenIntents, TypeOK, PatchInHand
  <2> QED  BY <2>1, <2>2, NotBoth DEF AllBefore, AllAfter
<1> QED  BY <1>1 DEF TypeOK, Blocks

(* Recording the changes of the only open intent, whose cells are written,
   closes the gap between ledger and workbook.                              *)
LEMMA RecordingCatchesUp ==
    ASSUME TypeOK, LedgerBehindBook, NEW e \in Edits, AllAfter(e),
           \A p \in OpenIntents : patch[p] = e
    PROVE  Edited(net, e) = book
<1>1. ASSUME NEW c \in Cells
      PROVE  Edited(net, e)[c] = book[c]
  <2>1. CASE c \in CellsOf(e)
    BY <2>1, EditedIsBlock DEF AllAfter, AfterIn, TypeOK
  <2>2. CASE c \notin CellsOf(e)
    <3>1. book[c] = net[c]
      BY <2>2 DEF LedgerBehindBook
    <3> QED  BY <2>2, <3>1, EditedIsBlock DEF TypeOK
  <2> QED  BY <2>1, <2>2
<1> QED  BY <1>1, EditedIsBlock DEF TypeOK, Blocks

(* A waiting patch no other wrote over, with no open intent, is in place or
   not: its position is never a mixture.                                    *)
LEMMA PositionIsClear ==
    ASSUME Sound, Consistent, NEW p \in Patches, Waiting(p), p \notin overtaken,
           pc # "replaced", intent[p] # "open"
    PROVE  /\ intent[p] = "applied" => AllAfter(patch[p])
           /\ intent[p] # "applied" => AllBefore(patch[p])
  BY DEF Sound, TypeOK, IntentStates, Consistent, IntentTold, Kept, DurableBook,
         AllBefore, AllAfter

(* The moment the edits of the patch in hand can no longer be lost: it is in
   place, and whoever shares a cell with it is overtaken.                   *)
LEMMA Landing ==
    ASSUME Sound, Consistent, pc = "replaced", Lands, DurableBook' = book,
           UNCHANGED <<patch, issueState, intent, carried>>
    PROVE  /\ AfterIn(book, patch[cur]) /\ cur \notin overtaken'
           /\ \A p \in OpenIntents : p = cur
           /\ IntentTold' /\ CarriedFirst'
<1> USE DEF Sound, Consistent, PatchInHand, IssueInHand, Holding, Applying, Positions, InApplyPatch
<1>1. /\ cur \in Patches /\ patch[cur] \in Edits /\ intent[cur] = "open"
      /\ book = Edited(spare, patch[cur]) /\ spare \in Blocks /\ DurableBook = spare
  BY DEF PositionMeans, TypeOK, DurableBook
<1>2. AfterIn(book, patch[cur])
  BY <1>1, EditedIsBlock
<1>3. \A p \in OpenIntents : p = cur
  BY <1>1 DEF OneOpenIntent, OpenIntents
<1>4. cur \notin overtaken'
  BY DEF Lands
<1>5. ASSUME NEW p \in Patches, p # cur, Kept(p), p \notin overtaken'
      PROVE  /\ p \notin overtaken
             /\ BeforeIn(book, patch[p]) <=> BeforeIn(spare, patch[p])
             /\ AfterIn(book, patch[p]) <=> AfterIn(spare, patch[p])
  <2>1. p \notin overtaken /\ ~Overlap(patch[p], patch[cur])
    BY <1>5 DEF Lands
  <2>2. patch[p] \in Edits
    BY <1>5 DEF Kept, Waiting, InFlight, TypeOK
  <2> QED  BY <1>1, <2>1, <2>2, WritingSparesOthers
<1>6. IntentTold'
  <2> SUFFICES ASSUME NEW p \in Patches, p \notin overtaken', Kept(p)
               PROVE  /\ intent[p] = "applied" => AfterIn(book, patch[p])
                      /\ Waiting(p) /\ intent[p] \in {"none", "not_applied", "rejected"} =>
                             BeforeIn(book, patch[p])
    BY DEF IntentTold, Kept, Waiting, InFlight
  <2>1. CASE p = cur
    BY <1>1, <2>1
  <2>2. CASE p # cur
    BY <1>1, <1>5, <2>2 DEF IntentTold
  <2> QED  BY <2>1, <2>2
<1>7. CarriedFirst'
  <2> SUFFICES ASSUME NEW q \in Patches, q \in overtaken', Waiting(q)
               PROVE  carried # {}
    BY DEF CarriedFirst, Waiting, InFlight, TypeOK, Lands
  <2>1. CASE q \in overtaken
    BY <2>1 DEF CarriedFirst
  <2>2. CASE q # cur /\ Overlap(patch[q], patch[cur])
    <3>1. CASE caller = "rollback"
      BY <3>1 DEF PositionMeans
    <3>2. CASE caller # "rollback"
      BY <1>1, <2>2, <3>2 DEF WaitingDisjoint, Waiting, InFlight
    <3> QED  BY <3>1, <3>2
  <2> QED  BY <2>1, <2>2 DEF Lands
<1> QED  BY <1>2, <1>3, <1>4, <1>6, <1>7

LEMMA ConsistentStep ==
    Sound /\ Sound' /\ Consistent /\ Job => Consistent'
<1> SUFFICES ASSUME Sound, Sound', Consistent, Job PROVE Consistent'
  OBVIOUS
<1> USE ApplyAssumption DEF Sound, PatchInHand, IssueInHand, Holding, Applying, Positions,
            InApplyPatch, OpenIntents, Waiting, InFlight, files, outcome, rows, ledger,
            worker, past, Consistent
<1>e. ASSUME NEW p \in Patches, Waiting(p) \/ intent[p] = "open" \/ (pc \in Holding /\ p = cur)
      PROVE  patch[p] \in Edits
  BY <1>e DEF TypeOK
<1>1. ASSUME NEW p \in Patches, NEW after \in Blocks, Propose(p, after)
      PROVE  Consistent'
  <2>a. /\ pc = "idle" /\ patch[p] = NoPatch /\ intent[p] = "none" /\ issueState[p] = "none"
        /\ \A q \in Patches \ {p} : patch'[q] = patch[q] /\ issueState'[q] = issueState[q]
        /\ BeforeIn(book, patch'[p]) /\ Disjoint(patch'[p])
    BY <1>1 DEF Propose, TypeOK, BeforeIn
  <2>1. /\ OpenIntentHeld' /\ OneOpenIntent' /\ PositionMeans' /\ LedgerBehindBook'
        /\ AppliedIsRecorded' /\ CarriedFirst'
    BY <1>1 DEF Propose, OpenIntentHeld, DurableBook, OneOpenIntent, PositionMeans,
       AllBefore, AllAfter, LedgerBehindBook, AppliedIsRecorded, CarriedFirst
  <2>2. WaitingDisjoint'
    BY <1>1, <2>a DEF Propose, WaitingDisjoint, Disjoint, Overlap
  <2>3. IntentTold'
    BY <1>1, <2>a DEF Propose, IntentTold, Kept, DurableBook
  <2> QED  BY <2>1, <2>2, <2>3
<1>2. ASSUME NEW p \in Patches, NEW s \in {"approved", "patch_rejected"}, JudgeInBatch(p, s)
      PROVE  Consistent'
  BY <1>2 DEF JudgeInBatch, WaitingDisjoint, AllBefore, Disjoint, Overlap,
     OpenIntentHeld, DurableBook, OneOpenIntent, PositionMeans, AllAfter,
     LedgerBehindBook, AppliedIsRecorded, IntentTold, Kept, CarriedFirst
<1>3. ASSUME NEW p \in Patches, Accept(p)
      PROVE  Consistent'
  BY <1>3 DEF Accept, Reviewed, WaitingDisjoint, AllBefore, Disjoint, Overlap, OpenIntentHeld,
     DurableBook, OneOpenIntent, PositionMeans, AllAfter, LedgerBehindBook, AppliedIsRecorded,
     IntentTold, Kept, CarriedFirst, TypeOK
<1>4. ASSUME NEW p \in Patches, Reject(p)
      PROVE  Consistent'
  BY <1>4 DEF Reject, Reviewed, WaitingDisjoint, AllBefore, Disjoint, Overlap,
     OpenIntentHeld, DurableBook, OneOpenIntent, PositionMeans, AllAfter,
     LedgerBehindBook, AppliedIsRecorded, IntentTold, Kept, CarriedFirst
<1>5. ASSUME NEW p \in Patches, NEW q \in Patches, RollBack(p, q)
      PROVE  Consistent'
  <2>a. p \in overtaken /\ carried # {}
    BY <1>5, <1>e, PositionIsClear, NotBoth DEF RollBack, AllBefore, AllAfter, CarriedFirst
  <2>b. cur' = q /\ AllBefore(patch'[q])
    BY <1>5, <1>e, InverseEdit DEF RollBack, AllBefore, AllAfter, TypeOK
  <2>1. /\ WaitingDisjoint' /\ OpenIntentHeld' /\ OneOpenIntent' /\ LedgerBehindBook'
        /\ AppliedIsRecorded' /\ IntentTold' /\ CarriedFirst'
    BY <1>5 DEF RollBack, WaitingDisjoint, AllBefore, Disjoint, Overlap, OpenIntentHeld,
       DurableBook, OneOpenIntent, LedgerBehindBook, AllAfter, AppliedIsRecorded,
       IntentTold, Kept, CarriedFirst
  <2>2. PositionMeans'
    BY <1>5, <2>a, <2>b DEF RollBack, PositionMeans, AllBefore
  <2> QED  BY <2>1, <2>2
<1>6. ASSUME NEW p \in Patches, ReviewMixed(p) \/ AcceptInPlace(p)
      PROVE  Consistent'
  BY <1>6 DEF ReviewMixed, AcceptInPlace, JobFailed, WorkerDown, WaitingDisjoint, AllBefore, Disjoint,
     Overlap, OpenIntentHeld, DurableBook, OneOpenIntent, PositionMeans, AllAfter,
     LedgerBehindBook, AppliedIsRecorded, IntentTold, Kept, CarriedFirst
<1>7. ASSUME NEW p \in Patches, NEW after \in Blocks, InsertMechanical(p, after)
      PROVE  Consistent'
  <2>a. /\ pc = "idle" /\ patch[p] = NoPatch /\ intent[p] = "none" /\ issueState[p] = "none"
        /\ \A q \in Patches \ {p} : patch'[q] = patch[q] /\ issueState'[q] = issueState[q]
        /\ BeforeIn(book, patch'[p]) /\ Disjoint(patch'[p])
    BY <1>7 DEF InsertMechanical, TypeOK, BeforeIn
  <2>1. /\ OpenIntentHeld' /\ OneOpenIntent' /\ PositionMeans' /\ LedgerBehindBook'
        /\ AppliedIsRecorded' /\ IntentTold' /\ CarriedFirst'
    BY <1>7 DEF InsertMechanical, OpenIntentHeld, DurableBook, OneOpenIntent,
       PositionMeans, AllBefore, AllAfter, LedgerBehindBook, AppliedIsRecorded,
       IntentTold, Kept, CarriedFirst
  <2>2. WaitingDisjoint'
    BY <1>7, <2>a DEF InsertMechanical, WaitingDisjoint, Disjoint, Overlap, AllBefore
  <2> QED  BY <2>1, <2>2
<1>8. CASE SaveMechanical
  <2>1. /\ WaitingDisjoint' /\ OpenIntentHeld' /\ OneOpenIntent' /\ LedgerBehindBook'
        /\ AppliedIsRecorded' /\ CarriedFirst'
    BY <1>8 DEF SaveMechanical, WaitingDisjoint, AllBefore, Disjoint, Overlap,
       OpenIntentHeld, DurableBook, OneOpenIntent, LedgerBehindBook, AllAfter,
       AppliedIsRecorded, CarriedFirst
  <2>2. PositionMeans'
    BY <1>8 DEF SaveMechanical, PositionMeans, AllBefore, WaitingDisjoint
  <2>3. IntentTold'
    BY <1>8 DEF SaveMechanical, IntentTold, Kept, DurableBook, AllBefore, WaitingDisjoint, TypeOK
  <2> QED  BY <2>1, <2>2, <2>3
<1>9. ASSUME NEW p \in Patches, BeginApply(p)
      PROVE  Consistent'
  BY <1>9 DEF BeginApply, WaitingDisjoint, AllBefore, Disjoint, Overlap, OpenIntentHeld,
     DurableBook, OneOpenIntent, PositionMeans, AllAfter, LedgerBehindBook,
     AppliedIsRecorded, IntentTold, Kept, CarriedFirst
<1>10. CASE ReadPosition
  <2>a. AllAfter(patch[cur]) => intent[cur] = "applied" \/ cur \in overtaken
    BY <1>10, <1>e, PositionIsClear, NotBoth
    DEF ReadPosition, OpenIntentHeld, AllBefore, AllAfter
  <2>1. /\ WaitingDisjoint' /\ OpenIntentHeld' /\ OneOpenIntent' /\ LedgerBehindBook'
        /\ AppliedIsRecorded' /\ IntentTold' /\ CarriedFirst'
    BY <1>10 DEF ReadPosition, JobFailed, WorkerDown, WaitingDisjoint, AllBefore,
       Disjoint, Overlap, OpenIntentHeld, DurableBook, OneOpenIntent, LedgerBehindBook,
       AllAfter, AppliedIsRecorded, IntentTold, Kept, CarriedFirst
  <2>2. PositionMeans'
    BY <1>10, <2>a DEF ReadPosition, JobFailed, WorkerDown, PositionMeans, AllBefore
  <2> QED  BY <2>1, <2>2
<1>11. CASE OpenIntent
  <2>a. /\ OpenIntents = {} /\ cur \in Patches /\ BeforeIn(book, patch[cur])
        /\ OpenIntents' = {cur} /\ intent'[cur] = "open"
    BY <1>11 DEF OpenIntent, OpenIntentHeld, PositionMeans, AllBefore, TypeOK
  <2>1. /\ WaitingDisjoint' /\ LedgerBehindBook' /\ AppliedIsRecorded' /\ IntentTold'
        /\ CarriedFirst'
    BY <1>11 DEF OpenIntent, WaitingDisjoint, AllBefore, Disjoint, Overlap,
       LedgerBehindBook, AllAfter, AppliedIsRecorded, IntentTold, Kept, DurableBook,
       CarriedFirst
  <2>2. OpenIntentHeld'
    BY <1>11, <2>a DEF OpenIntent, OpenIntentHeld, DurableBook
  <2>3. OneOpenIntent'
    BY <2>a DEF OneOpenIntent
  <2>4. PositionMeans'
    BY <1>11, <2>a DEF OpenIntent, PositionMeans, AllBefore
  <2> QED  BY <2>1, <2>2, <2>3, <2>4
<1>12. CASE VerifyEdits
  BY <1>12 DEF VerifyEdits, WaitingDisjoint, AllBefore, Disjoint, Overlap,
     OpenIntentHeld, DurableBook, OneOpenIntent, PositionMeans, AllAfter,
     LedgerBehindBook, AppliedIsRecorded, IntentTold, Kept, CarriedFirst
<1>13. CASE SourceRefused
  <2>a. net = book
    <3>1. \A p \in OpenIntents : AllBefore(patch[p])
      BY <1>13 DEF SourceRefused, OpenIntentHeld, PositionMeans
    <3> QED  BY <3>1, LedgerIsBook
  <2>1. /\ WaitingDisjoint' /\ OpenIntentHeld' /\ OneOpenIntent' /\ PositionMeans'
        /\ AppliedIsRecorded' /\ CarriedFirst'
    BY <1>13 DEF SourceRefused, WriteError, WorkerDown, WaitingDisjoint, AllBefore,
       Disjoint, Overlap, OpenIntentHeld, DurableBook, OneOpenIntent, PositionMeans,
       AllAfter, AppliedIsRecorded, CarriedFirst
  <2>2. LedgerBehindBook'
    BY <1>13, <2>a DEF SourceRefused, WriteError, WorkerDown, LedgerBehindBook
  <2>3. IntentTold'
    BY <1>13 DEF SourceRefused, WriteError, WorkerDown, IntentTold, Kept, DurableBook, PositionMeans, AllBefore
  <2> QED  BY <2>1, <2>2, <2>3
<1>14. CASE SaveRefused
  <2>a. net = book
    <3>1. \A p \in OpenIntents : AllBefore(patch[p])
      BY <1>14 DEF SaveRefused, OpenIntentHeld, PositionMeans
    <3> QED  BY <3>1, LedgerIsBook
  <2>1. /\ WaitingDisjoint' /\ OpenIntentHeld' /\ OneOpenIntent' /\ PositionMeans'
        /\ AppliedIsRecorded' /\ CarriedFirst'
    BY <1>14 DEF SaveRefused, WriteError, WorkerDown, WaitingDisjoint, AllBefore,
       Disjoint, Overlap, OpenIntentHeld, DurableBook, OneOpenIntent, PositionMeans,
       AllAfter, AppliedIsRecorded, CarriedFirst
  <2>2. LedgerBehindBook'
    BY <1>14, <2>a DEF SaveRefused, WriteError, WorkerDown, LedgerBehindBook
  <2>3. IntentTold'
    BY <1>14 DEF SaveRefused, WriteError, WorkerDown, IntentTold, Kept, DurableBook, PositionMeans, AllBefore
  <2> QED  BY <2>1, <2>2, <2>3
<1>15. CASE RefuseEdits
  <2>a. FALSE
    BY <1>15 DEF RefuseEdits, PositionMeans
  <2> QED  BY <2>a
<1>16. CASE SaveRejected
  BY <1>16 DEF SaveRejected, WaitingDisjoint, AllBefore, Disjoint, Overlap,
     OpenIntentHeld, DurableBook, OneOpenIntent, PositionMeans, AllAfter,
     LedgerBehindBook, AppliedIsRecorded, IntentTold, Kept, CarriedFirst
<1>17. CASE Replace
  <2>a. /\ cur \in Patches /\ patch[cur] \in Edits /\ intent[cur] = "open"
        /\ book' = Edited(book, patch[cur]) /\ spare' = book /\ AllBefore(patch[cur])
    BY <1>17, <1>e DEF Replace, PositionMeans
  <2>b. /\ AfterIn(book', patch[cur])
        /\ \A c \in Cells \ CellsOf(patch[cur]) : book'[c] = book[c]
    BY <2>a, EditedIsBlock DEF TypeOK
  <2>c. net = book
    <3>1. \A p \in OpenIntents : AllBefore(patch[p])
      BY <2>a DEF OneOpenIntent
    <3> QED  BY <3>1, LedgerIsBook
  <2>1. /\ WaitingDisjoint' /\ OpenIntentHeld' /\ OneOpenIntent' /\ AppliedIsRecorded'
        /\ IntentTold' /\ CarriedFirst'
    BY <1>17 DEF Replace, WaitingDisjoint, AllBefore, Disjoint, Overlap, OpenIntentHeld,
       DurableBook, OneOpenIntent, AppliedIsRecorded, IntentTold, Kept, CarriedFirst
  <2>2. PositionMeans'
    BY <1>17, <2>a, <2>c DEF Replace, PositionMeans, AllBefore
  <2>3. LedgerBehindBook'
    <3>1. ASSUME NEW c \in Cells, book'[c] # net'[c]
          PROVE  c \in CellsOf(patch[cur])
      BY <1>17, <2>b, <2>c, <3>1 DEF Replace
    <3>2. cur \in OpenIntents' /\ AllAfter(patch[cur])' /\ patch' = patch /\ cur' = cur
      BY <1>17, <2>a, <2>b DEF Replace, AllAfter
    <3> QED  BY <3>1, <3>2 DEF LedgerBehindBook
  <2> QED  BY <2>1, <2>2, <2>3
<1>18. CASE SyncDirectory
  <2>a. DurableBook' = book /\ UNCHANGED <<book, patch, issueState, intent, carried, net>> /\ Lands
    BY <1>18 DEF SyncDirectory, DurableBook
  <2>b. cur \in Patches /\ cur \notin overtaken'
    BY <1>18 DEF SyncDirectory, Lands
  <2>1. /\ WaitingDisjoint' /\ OneOpenIntent' /\ LedgerBehindBook' /\ AppliedIsRecorded'
    BY <1>18 DEF SyncDirectory, Lands, WaitingDisjoint, AllBefore, Disjoint, Overlap,
       OneOpenIntent, LedgerBehindBook, AllAfter, AppliedIsRecorded
  <2>2. OpenIntentHeld'
    BY <1>18, <2>a, Landing DEF SyncDirectory, OpenIntentHeld
  <2>3. PositionMeans'
    BY <1>18, <2>a, <2>b, Landing DEF SyncDirectory, PositionMeans, AllAfter
  <2>4. IntentTold'
    BY <1>18, <2>a, Landing DEF SyncDirectory
  <2>5. CarriedFirst'
    BY <1>18, <2>a, Landing DEF SyncDirectory
  <2> QED  BY <2>1, <2>2, <2>3, <2>4, <2>5
<1>19. CASE RecordChanges
  <2>a. /\ cur \in Patches /\ patch[cur] \in Edits /\ intent[cur] = "open"
        /\ AllAfter(patch[cur]) /\ \A p \in OpenIntents : p = cur
    BY <1>19, <1>e DEF RecordChanges, PositionMeans, OneOpenIntent
  <2>b. net' = book /\ records'[cur] > 0
    BY <1>19, <2>a, RecordingCatchesUp DEF RecordChanges, Recorded, TypeOK
  <2>c. \A p \in Patches : records[p] > 0 => records'[p] > 0
    BY <1>19 DEF RecordChanges, Recorded, TypeOK
  <2>1. /\ WaitingDisjoint' /\ OpenIntentHeld' /\ OneOpenIntent' /\ IntentTold'
        /\ CarriedFirst'
    BY <1>19 DEF RecordChanges, Recorded, WaitingDisjoint, AllBefore, Disjoint, Overlap,
       OpenIntentHeld, DurableBook, OneOpenIntent, IntentTold, Kept, CarriedFirst
  <2>2. PositionMeans'
    BY <1>19, <2>b DEF RecordChanges, PositionMeans, AllAfter
  <2>3. LedgerBehindBook'
    BY <1>19, <2>b DEF RecordChanges, LedgerBehindBook
  <2>4. AppliedIsRecorded'
    BY <1>19, <2>c DEF RecordChanges, AppliedIsRecorded
  <2> QED  BY <2>1, <2>2, <2>3, <2>4
<1>20. CASE SettleApplied
  <2>a. /\ cur \in Patches /\ intent[cur] = "open" /\ net = book /\ records[cur] > 0
        /\ AfterIn(book, patch[cur]) /\ \A p \in OpenIntents : p = cur
    BY <1>20 DEF SettleApplied, PositionMeans, OneOpenIntent, AllAfter
  <2>b. OpenIntents' = {} /\ intent' = [intent EXCEPT ![cur] = "applied"]
    BY <1>20, <2>a DEF SettleApplied, TypeOK
  <2>1. /\ WaitingDisjoint' /\ CarriedFirst'
    BY <1>20 DEF SettleApplied, WaitingDisjoint, AllBefore, Disjoint, Overlap,
       CarriedFirst
  <2>2. OpenIntentHeld'
    BY <2>b DEF OpenIntentHeld
  <2>3. OneOpenIntent'
    BY <2>b DEF OneOpenIntent
  <2>4. PositionMeans'
    BY <1>20, <2>a, <2>b DEF SettleApplied, PositionMeans, TypeOK
  <2>5. LedgerBehindBook'
    BY <1>20, <2>a DEF SettleApplied, LedgerBehindBook
  <2>6. AppliedIsRecorded'
    BY <1>20, <2>a, <2>b DEF SettleApplied, AppliedIsRecorded, TypeOK
  <2>7. IntentTold'
    BY <1>20, <2>a, <2>b DEF SettleApplied, IntentTold, Kept, DurableBook, TypeOK
  <2> QED  BY <2>1, <2>2, <2>3, <2>4, <2>5, <2>6, <2>7
<1>21. CASE SaveAccepted
  <2>1. /\ WaitingDisjoint' /\ OpenIntentHeld' /\ OneOpenIntent' /\ PositionMeans'
        /\ LedgerBehindBook' /\ IntentTold' /\ CarriedFirst'
    BY <1>21 DEF SaveAccepted, WaitingDisjoint, AllBefore, Disjoint, Overlap,
       OpenIntentHeld, DurableBook, OneOpenIntent, PositionMeans, AllAfter,
       LedgerBehindBook, IntentTold, Kept, CarriedFirst
  <2>2. AppliedIsRecorded'
    BY <1>21 DEF SaveAccepted, AppliedIsRecorded, PositionMeans, TypeOK
  <2> QED  BY <2>1, <2>2
<1>22. CASE SaveRolledBack
  BY <1>22 DEF SaveRolledBack, WaitingDisjoint, AllBefore, Disjoint, Overlap,
     OpenIntentHeld, DurableBook, OneOpenIntent, PositionMeans, AllAfter,
     LedgerBehindBook, AppliedIsRecorded, IntentTold, Kept, CarriedFirst
<1>23. CASE RecoverSource
  BY <1>23 DEF RecoverSource, JobFailed, WorkerDown, WaitingDisjoint, AllBefore,
     Disjoint, Overlap, OpenIntentHeld, DurableBook, OneOpenIntent, PositionMeans,
     AllAfter, LedgerBehindBook, AppliedIsRecorded, IntentTold, Kept, CarriedFirst
<1>24. CASE SettleRolledForward
  <2>a. /\ cur \in Patches /\ intent[cur] = "open" /\ net = book /\ records[cur] > 0
        /\ AfterIn(book, patch[cur]) /\ \A p \in OpenIntents : p = cur
    BY <1>24 DEF SettleRolledForward, PositionMeans, OneOpenIntent, AllAfter
  <2>b. OpenIntents' = {} /\ intent' = [intent EXCEPT ![cur] = "applied"]
    BY <1>24, <2>a DEF SettleRolledForward, TypeOK
  <2>1. /\ WaitingDisjoint' /\ PositionMeans' /\ CarriedFirst'
    BY <1>24 DEF SettleRolledForward, WaitingDisjoint, AllBefore, Disjoint, Overlap,
       PositionMeans, AllAfter, CarriedFirst
  <2>2. OpenIntentHeld'
    BY <2>b DEF OpenIntentHeld
  <2>3. OneOpenIntent'
    BY <2>b DEF OneOpenIntent
  <2>4. LedgerBehindBook'
    BY <1>24, <2>a DEF SettleRolledForward, LedgerBehindBook
  <2>5. AppliedIsRecorded'
    BY <1>24, <2>a, <2>b DEF SettleRolledForward, AppliedIsRecorded, TypeOK
  <2>6. IntentTold'
    BY <1>24, <2>a, <2>b DEF SettleRolledForward, IntentTold, Kept, DurableBook, TypeOK
  <2> QED  BY <2>1, <2>2, <2>3, <2>4, <2>5, <2>6
<1>25. CASE Recovered
  BY <1>25 DEF Recovered, WaitingDisjoint, AllBefore, Disjoint, Overlap, OpenIntentHeld,
     DurableBook, OneOpenIntent, PositionMeans, AllAfter, LedgerBehindBook,
     AppliedIsRecorded, IntentTold, Kept, CarriedFirst
<1>26. ASSUME NEW p \in Patches, RollForward(p)
      PROVE  Consistent'
  <2>a. /\ patch[p] \in Edits /\ intent[p] = "open" /\ AllAfter(patch[p])
        /\ p \notin overtaken /\ \A q \in OpenIntents : q = p
    BY <1>26, <1>e, NotBoth
    DEF RollForward, OneOpenIntent, OpenIntentHeld, DurableBook, AllAfter
  <2>b. net' = book /\ records'[p] > 0
    BY <1>26, <2>a, RecordingCatchesUp DEF RollForward, Recorded, TypeOK
  <2>c. \A q \in Patches : records[q] > 0 => records'[q] > 0
    BY <1>26 DEF RollForward, Recorded, TypeOK
  <2>1. /\ WaitingDisjoint' /\ OneOpenIntent' /\ IntentTold' /\ CarriedFirst'
    BY <1>26 DEF RollForward, Recorded, WaitingDisjoint, AllBefore, Disjoint, Overlap,
       OneOpenIntent, IntentTold, Kept, DurableBook, CarriedFirst
  <2>2. OpenIntentHeld'
    BY <1>26, <2>a DEF RollForward, OpenIntentHeld, DurableBook
  <2>3. PositionMeans'
    BY <1>26, <2>a, <2>b DEF RollForward, PositionMeans, AllAfter
  <2>4. LedgerBehindBook'
    BY <1>26, <2>b DEF RollForward, LedgerBehindBook
  <2>5. AppliedIsRecorded'
    BY <1>26, <2>c DEF RollForward, AppliedIsRecorded
  <2> QED  BY <2>1, <2>2, <2>3, <2>4, <2>5
<1>27. ASSUME NEW p \in Patches, SettleNotApplied(p)
      PROVE  Consistent'
  <2>a. /\ intent[p] = "open" /\ BeforeIn(book, patch[p]) /\ net = book
    <3>1. \A q \in OpenIntents : AllBefore(patch[q])
      BY <1>27 DEF SettleNotApplied, OneOpenIntent
    <3> QED  BY <1>27, <3>1, LedgerIsBook DEF SettleNotApplied, AllBefore
  <2>1. /\ WaitingDisjoint' /\ OpenIntentHeld' /\ OneOpenIntent' /\ PositionMeans'
        /\ AppliedIsRecorded' /\ CarriedFirst'
    BY <1>27 DEF SettleNotApplied, WaitingDisjoint, AllBefore, Disjoint, Overlap,
       OpenIntentHeld, DurableBook, OneOpenIntent, PositionMeans, AllAfter,
       AppliedIsRecorded, CarriedFirst
  <2>2. LedgerBehindBook'
    BY <1>27, <2>a DEF SettleNotApplied, LedgerBehindBook
  <2>3. IntentTold'
    BY <1>27, <2>a DEF SettleNotApplied, IntentTold, Kept, DurableBook, TypeOK
  <2> QED  BY <2>1, <2>2, <2>3
<1>28. ASSUME NEW p \in Patches, RecoverMixed(p)
      PROVE  Consistent'
  BY <1>28 DEF RecoverMixed, JobFailed, WorkerDown, WaitingDisjoint, AllBefore, Disjoint,
     Overlap, OpenIntentHeld, DurableBook, OneOpenIntent, PositionMeans, AllAfter,
     LedgerBehindBook, AppliedIsRecorded, IntentTold, Kept, CarriedFirst
<1>29. CASE Crash
  <2>a. /\ UNCHANGED <<patch, issueState, intent, carried, net>> /\ pc' = "down"
        /\ DurableBook' = book'
    BY <1>29 DEF Crash, WorkerDown, DurableBook
  <2>b. ASSUME pc = "replaced", book' = book
        PROVE  OpenIntentHeld' /\ LedgerBehindBook' /\ IntentTold' /\ CarriedFirst'
    <3>1. Lands
      BY <1>29, <2>b DEF Crash
    <3> QED  BY <2>a, <2>b, <3>1, Landing DEF OpenIntentHeld, LedgerBehindBook, AllAfter
  <2>c. ASSUME ~(pc = "replaced" /\ book' = book)
        PROVE  OpenIntentHeld' /\ LedgerBehindBook' /\ IntentTold' /\ CarriedFirst'
    <3>1. overtaken' = overtaken /\ DurableBook = book'
      BY <1>29, <2>c DEF Crash, DurableBook
    <3>2. OpenIntentHeld' /\ IntentTold' /\ CarriedFirst'
      BY <2>a, <3>1 DEF OpenIntentHeld, IntentTold, Kept, CarriedFirst
    <3>3. LedgerBehindBook'
      <4>1. CASE pc = "replaced"
        BY <1>29, <2>a, <2>c, <4>1 DEF Crash, LedgerBehindBook, PositionMeans
      <4>2. CASE pc # "replaced"
        BY <1>29, <2>a, <4>2 DEF Crash, LedgerBehindBook, AllAfter
      <4> QED  BY <4>1, <4>2
    <3> QED  BY <3>2, <3>3
  <2>1. /\ WaitingDisjoint' /\ OneOpenIntent' /\ PositionMeans' /\ AppliedIsRecorded'
    BY <1>29 DEF Crash, WorkerDown, Lands, WaitingDisjoint, AllBefore, Disjoint, Overlap,
       OneOpenIntent, PositionMeans, AllAfter, AppliedIsRecorded
  <2>2. OpenIntentHeld' /\ LedgerBehindBook' /\ IntentTold' /\ CarriedFirst'
    BY <2>b, <2>c
  <2> QED  BY <2>1, <2>2
<1>30. CASE Restart
  BY <1>30 DEF Restart, WaitingDisjoint, AllBefore, Disjoint, Overlap, OpenIntentHeld,
     DurableBook, OneOpenIntent, PositionMeans, AllAfter, LedgerBehindBook,
     AppliedIsRecorded, IntentTold, Kept, CarriedFirst
<1>31. CASE Resume
  BY <1>31 DEF Resume, WaitingDisjoint, AllBefore, Disjoint, Overlap, OpenIntentHeld,
     DurableBook, OneOpenIntent, PositionMeans, AllAfter, LedgerBehindBook,
     AppliedIsRecorded, IntentTold, Kept, CarriedFirst
<1>32. CASE SourceChanges
  BY <1>32 DEF SourceChanges, WaitingDisjoint, AllBefore, Disjoint, Overlap,
     OpenIntentHeld, DurableBook, OneOpenIntent, PositionMeans, AllAfter,
     LedgerBehindBook, AppliedIsRecorded, IntentTold, Kept, CarriedFirst
<1> QED
  BY <1>1, <1>2, <1>3, <1>4, <1>5, <1>6, <1>7, <1>8, <1>9, <1>10, <1>11,
     <1>12, <1>13, <1>14, <1>15, <1>16, <1>17, <1>18, <1>19, <1>20, <1>21,
     <1>22, <1>23, <1>24, <1>25, <1>26, <1>27, <1>28, <1>29, <1>30, <1>31,
     <1>32
  DEF Job, Council, ApplyStep, Recovery, Fault

-----------------------------------------------------------------------------
(* The job fails over a patch in no clear position, or over its source; of an
   untampered workbook the former was overtaken.  Nothing happens afterwards. *)
LEMMA CauseStep ==
    ASSUME Sound, CorruptionHasCause, tampered \/ Consistent, [Next]_vars
    PROVE  CorruptionHasCause'
<1> USE DEF outcome, rows, worker, past, Sound, PatchInHand, Waiting, InFlight
<1> DEFINE Cause == tampered \/ ~sourceIntact \/ (carried # {} /\ \E p \in overtaken : Waiting(p))
<1>1. ASSUME job = "failed"
      PROVE  CorruptionHasCause'
  <2>1. pc = "down" /\ Cause
    BY <1>1 DEF CorruptionHasCause
  <2>2. /\ tampered => tampered'
        /\ ~sourceIntact => ~sourceIntact'
        /\ UNCHANGED <<issueState, carried, overtaken>>
    BY <1>1, <2>1 DEF Next, Job, Council, ApplyStep, Recovery, Fault, Propose,
       JudgeInBatch, Accept, AcceptInPlace, Reject, RollBack, ReviewMixed, InsertMechanical, Restart, Resume,
       SaveRefused, WriteError, Crash, SourceChanges, BeginApply, SaveMechanical, ReadPosition,
       OpenIntent, VerifyEdits, SourceRefused, RefuseEdits, SaveRejected, Replace, SyncDirectory,
       RecordChanges, SettleApplied, SaveAccepted, SaveRolledBack, RecoverSource,
       SettleRolledForward, Recovered, RollForward, SettleNotApplied, RecoverMixed, Tamper, vars,
       ledger, files
  <2> QED  BY <2>1, <2>2 DEF CorruptionHasCause
<1>2. ASSUME job # "failed", job' = "failed"
      PROVE  Cause /\ UNCHANGED <<tampered, sourceIntact, issueState, carried, overtaken>>
  <2>1. \/ ReadPosition \/ RecoverSource \/ \E p \in Patches : ReviewMixed(p) \/ RecoverMixed(p)
    BY <1>2 DEF Next, Job, Council, ApplyStep, Recovery, Fault, Propose,
       JudgeInBatch, Accept, AcceptInPlace, Reject, Reviewed, RollBack, InsertMechanical,
       Restart, Resume, SaveRefused, WriteError, Crash, SourceChanges, BeginApply, SaveMechanical,
       OpenIntent, VerifyEdits, SourceRefused, RefuseEdits, SaveRejected, Replace, SyncDirectory,
       RecordChanges, SettleApplied, SaveAccepted, SaveRolledBack,
       SettleRolledForward, Recovered, RollForward, SettleNotApplied, Tamper, vars
  <2>2. CASE ReadPosition
    <3>1. /\ pc = "apply" /\ cur \in Patches /\ ~AllBefore(patch[cur]) /\ ~AllAfter(patch[cur])
          /\ UNCHANGED <<tampered, sourceIntact, issueState, carried, overtaken>>
      BY <1>2, <2>2 DEF ReadPosition, Holding, Positions, InApplyPatch
    <3>2. Waiting(cur)
      BY <3>1 DEF IssueInHand, Applying
    <3>3. Consistent => intent[cur] # "open"
      BY <3>1 DEF Consistent, OpenIntentHeld, OpenIntents, InApplyPatch
    <3>4. Consistent => cur \in overtaken
      BY <3>1, <3>2, <3>3, PositionIsClear
    <3> QED  BY <3>1, <3>2, <3>4 DEF Consistent, CarriedFirst
  <2>3. ASSUME NEW p \in Patches, ReviewMixed(p)
        PROVE  Cause /\ UNCHANGED <<tampered, sourceIntact, issueState, carried, overtaken>>
    <3>1. /\ pc = "idle" /\ Waiting(p) /\ ~AllBefore(patch[p]) /\ ~AllAfter(patch[p])
          /\ UNCHANGED <<tampered, sourceIntact, issueState, carried, overtaken>>
      BY <2>3 DEF ReviewMixed
    <3>2. Consistent => intent[p] # "open"
      BY <3>1 DEF Consistent, OpenIntentHeld, OpenIntents, InApplyPatch
    <3>3. Consistent => p \in overtaken
      BY <3>1, <3>2, PositionIsClear
    <3> QED  BY <3>1, <3>3 DEF Consistent, CarriedFirst
  <2>4. ASSUME NEW p \in Patches, RecoverMixed(p)
        PROVE  Cause /\ UNCHANGED <<tampered, sourceIntact, issueState, carried, overtaken>>
    BY <2>4 DEF RecoverMixed, Consistent, OpenIntentHeld, DurableBook, AllBefore, AllAfter
  <2>5. CASE RecoverSource
    BY <2>5 DEF RecoverSource
  <2> QED  BY <2>1, <2>2, <2>3, <2>4, <2>5
<1>3. CASE job' # "failed"
  BY <1>3 DEF CorruptionHasCause
<1> QED  BY <1>1, <1>2, <1>3 DEF CorruptionHasCause

LEMMA JobKeepsTampered == Job => tampered' = tampered
  BY DEF Job, Council, ApplyStep, Recovery, Fault, outcome,
     Propose, JudgeInBatch, Accept, AcceptInPlace, Reject, Reviewed, RollBack,
     SaveRolledBack,
     ReviewMixed, Resume, InsertMechanical, Restart, SaveRefused, WriteError,
     Crash, SourceChanges, BeginApply, SaveMechanical, ReadPosition, OpenIntent,
     VerifyEdits, SourceRefused, RefuseEdits, SaveRejected, Replace, SyncDirectory,
     RecordChanges, SettleApplied, SaveAccepted, RecoverSource,
     SettleRolledForward, Recovered, RollForward, SettleNotApplied, RecoverMixed

LEMMA InvInit == Init => IInv
  BY SoundInit, ConsistentInit DEF IInv

LEMMA InvStep == IInv /\ [Next]_vars => IInv'
<1> SUFFICES ASSUME IInv, [Next]_vars PROVE IInv'
  OBVIOUS
<1>1. Sound'
  BY SoundStep DEF IInv
<1>2. CorruptionHasCause'
  BY CauseStep DEF IInv
<1>3. (tampered \/ Consistent)'
  <2>1. CASE Job
    <3>1. tampered' = tampered
      BY <2>1, JobKeepsTampered
    <3> QED  BY <2>1, <3>1, <1>1, ConsistentStep DEF IInv
  <2>2. ASSUME NEW b \in Blocks, Tamper(b) PROVE tampered'
    BY <2>2 DEF Tamper
  <2>3. CASE UNCHANGED vars
    BY <2>3 DEF vars, files, outcome, rows, ledger, worker, past, IInv,
       Consistent, WaitingDisjoint, OpenIntentHeld, OneOpenIntent, PositionMeans,
       LedgerBehindBook, AppliedIsRecorded, IntentTold, CarriedFirst, OpenIntents,
       Kept, Waiting, InFlight, AllBefore, AllAfter, Disjoint, DurableBook
  <2> QED  BY <2>1, <2>2, <2>3 DEF Next
<1> QED  BY <1>1, <1>2, <1>3 DEF IInv

(* Whoever crashes, recovers, resumes or edits the file by hand, and wherever:
   the workbook, the intents and the ledger stay consistent with each other
   (workbook/writer.py, persistence.py, orchestrator.py: recovery).         *)
THEOREM Invariance == Spec => []IInv
  BY InvInit, InvStep, PTL DEF Spec

(* Whatever crashes and restarts happen, a cell that differs from the change
   ledger belongs to a patch whose intent is open.                          *)
THEOREM LedgerSafe == Spec => []LedgerExplainsBook
<1>1. IInv => LedgerExplainsBook
  BY DEF IInv, Consistent, LedgerBehindBook, LedgerExplainsBook
<1> QED  BY <1>1, Invariance, PTL

(* A repair is accepted only with its changes in the ledger, unless a patch
   that overtook it had put them in place already.                          *)
THEOREM AcceptedSafe == Spec => []AcceptedIsRecorded
<1>1. IInv => AcceptedIsRecorded
  BY DEF IInv, Consistent, AppliedIsRecorded, AcceptedIsRecorded
<1> QED  BY <1>1, Invariance, PTL

(* The job fails for corruption only after an intervention from outside, or
   over a patch that a resumed job let another one write over: with any
   number of cells and patches, crashes at every step, and rollbacks.       *)
THEOREM CorruptionSafe == Spec => []CorruptionHasCause
<1>1. IInv => CorruptionHasCause
  BY DEF IInv
<1> QED  BY <1>1, Invariance, PTL

(* A settled intent tells the truth about its cells until the issue closes,
   or another patch writes over them.                                       *)
THEOREM IntentSafe == Spec => []SettledIntentIsTrue
<1>1. IInv => SettledIntentIsTrue
  BY DEF IInv, Consistent, IntentTold, Kept, SettledIntentIsTrue
<1> QED  BY <1>1, Invariance, PTL

-----------------------------------------------------------------------------
(* Refinement of AtomicApply.                                               *)

LEMMA AtomicInit == Init => Atomic!Init
  BY DEF Init, Atomic!Init, DurableBook, Done

(* What an abstract step sees of a step that moves no durable cell.         *)
LEMMA SameDone ==
    ASSUME TypeOK, PatchInHand,
           DurableBook' = DurableBook, overtaken' = overtaken,
           \A p \in Patches : intent[p] # "none" \/ intent'[p] # "none" => patch'[p] = patch[p],
           \A p \in Patches :
              \/ intent'[p] = intent[p]
              \/ /\ intent'[p] \in {"not_applied", "rejected", "open"}
                 /\ patch[p] \in Edits /\ BeforeIn(DurableBook, patch[p])
                 /\ intent[p] = "applied" => p \in overtaken
              \/ /\ {intent[p], intent'[p]} = {"open", "applied"}
                 /\ AfterIn(DurableBook, patch[p]) /\ p \notin overtaken
    PROVE  Done' = Done
<1>1. ASSUME NEW p \in Patches PROVE p \in Done' <=> p \in Done
  <2>1. CASE intent'[p] = intent[p]
    BY <2>1 DEF Done
  <2>2. CASE /\ intent'[p] \in {"not_applied", "rejected", "open"}
             /\ patch[p] \in Edits /\ BeforeIn(DurableBook, patch[p])
             /\ intent[p] = "applied" => p \in overtaken
    <3>1. ~AfterIn(DurableBook, patch[p]) /\ patch'[p] = patch[p]
      BY <2>2, NotBoth
    <3> QED  BY <2>2, <3>1 DEF Done
  <2>3. CASE /\ {intent[p], intent'[p]} = {"open", "applied"}
             /\ AfterIn(DurableBook, patch[p]) /\ p \notin overtaken
    <3>1. patch'[p] = patch[p]
      BY <2>3
    <3>2. p \in Done /\ p \in Done'
      BY <2>3, <3>1 DEF Done
    <3> QED  BY <3>2
  <2> QED  BY <2>1, <2>2, <2>3
<1> QED  BY <1>1 DEF Done

(* The moment a patch takes effect: the fsync of the directory, or a crash
   that the rename survives.                                                *)
LEMMA CommitStep ==
    ASSUME IInv, ~tampered, pc = "replaced", book' = book, pc' # "replaced", Lands,
           UNCHANGED <<patch, issueState, intent, carried>>
    PROVE  Atomic!Apply(cur)
<1> DEFINE e == patch[cur]
<1>1. /\ cur \in Patches /\ e \in Edits /\ intent[cur] = "open"
      /\ book = Edited(spare, e) /\ BeforeIn(spare, e)
  BY DEF IInv, Sound, TypeOK, PatchInHand, Holding, Positions, InApplyPatch, Consistent,
         PositionMeans
<1>2. DurableBook = spare /\ DurableBook' = book
  BY DEF DurableBook
<1>3. AfterIn(book, e) /\ cur \notin overtaken' /\ \A p \in OpenIntents : p = cur
  BY <1>2, Landing DEF IInv
<1>4. cur \notin Done /\ cur \in Done'
  BY <1>1, <1>2, <1>3, NotBoth DEF Done
<1>5. ASSUME NEW p \in Patches \ {cur}
      PROVE  /\ p \in Done' => p \in Done
             /\ p \in Done /\ p \notin Done' => CellsOf(patch[p]) \cap CellsOf(e) # {}
  <2>1. intent[p] # "open"
    BY <1>3, <1>5 DEF OpenIntents
  <2>2. /\ p \in overtaken => p \in overtaken'
        /\ p \in overtaken' /\ p \notin overtaken => Overlap(patch[p], e)
    BY <1>5 DEF Lands
  <2> QED  BY <2>1, <2>2 DEF Done, Overlap
<1> DEFINE lost == Done \ Done'
<1>6. lost \in SUBSET {q \in Done : CellsOf(patch[q]) \cap CellsOf(patch[cur]) # {}}
  BY <1>4, <1>5 DEF Done
<1>7. Done' = (Done \ lost) \cup {cur}
  BY <1>4, <1>5 DEF Done
<1>8. DurableBook' = [c \in Cells |-> IF c \in CellsOf(e) THEN e.after[c] ELSE DurableBook[c]]
  BY <1>1, <1>2 DEF Edited
<1>9. e # NoPatch /\ patch' = patch /\ \A c \in CellsOf(e) : DurableBook[c] = e.before[c]
  BY <1>1, <1>2, ApplyAssumption DEF Edits, BeforeIn
<1>10. \A f : Atomic!CellsOf(f) = CellsOf(f)
  BY DEF Atomic!CellsOf, CellsOf
<1> QED
  BY <1>1, <1>4, <1>6, <1>7, <1>8, <1>9, <1>10 DEF Atomic!Apply

LEMMA AtomicStep ==
    IInv /\ ~tampered /\ Job =>
        \/ UNCHANGED <<DurableBook, patch, Done>>
        \/ Atomic!Job
<1> SUFFICES ASSUME IInv, ~tampered, Job
             PROVE  UNCHANGED <<DurableBook, patch, Done>> \/ Atomic!Job
  OBVIOUS
<1> USE DEF files, rows, outcome, ledger, worker, past
<1>i. TypeOK /\ PatchInHand /\ IssueInHand /\ Consistent
  BY DEF IInv, Sound
<1>s. ASSUME DurableBook' = DurableBook, patch' = patch, Done' = Done
      PROVE  UNCHANGED <<DurableBook, patch, Done>>
  BY <1>s
<1>r. ASSUME DurableBook' = DurableBook, UNCHANGED <<patch, intent, overtaken>>
      PROVE  UNCHANGED <<DurableBook, patch, Done>>
  BY <1>r, <1>s, <1>i, SameDone
<1>h. pc \in Holding => cur \in Patches /\ patch[cur] \in Edits
  BY <1>i DEF TypeOK, PatchInHand
<1> HIDE DEF files, rows, outcome, ledger, worker, past
(* A new patch is an abstract proposal; a rollback taken up again is none.  *)
<1>p. ASSUME NEW p \in Patches, NEW e \in Edits, patch[p] = NoPatch, pc = "idle",
             pc' # "replaced", patch' = [patch EXCEPT ![p] = e], BeforeIn(book, e),
             UNCHANGED <<book, spare, intent, overtaken>>
      PROVE  Atomic!Job
  <2>1. DurableBook = book /\ DurableBook' = book
    BY <1>p DEF DurableBook
  <2>2. Done' = Done
    <3>1. intent[p] = "none"
      BY <1>p, <1>i DEF PatchInHand, TypeOK
    <3>2. \A q \in Patches : intent[q] # "none" => patch'[q] = patch[q]
      BY <1>p, <3>1, <1>i DEF TypeOK
    <3> QED  BY <1>p, <2>1, <3>2, <1>i, SameDone
  <2>3. Atomic!CellsOf(e) = CellsOf(e)
    BY DEF Atomic!CellsOf, CellsOf
  <2>4. Atomic!Propose(p, e)
    BY <1>p, <2>1, <2>2, <2>3, EditChangesSomething DEF Atomic!Propose, BeforeIn
  <2> QED  BY <2>4 DEF Atomic!Job, Atomic!Blocks, Blocks, Edits
<1>1. ASSUME NEW p \in Patches, NEW after \in Blocks,
             Propose(p, after) \/ InsertMechanical(p, after)
      PROVE  Atomic!Job
  BY <1>1, <1>p DEF Propose, InsertMechanical, BeforeIn, files, worker, past
<1>11. ASSUME NEW p \in Patches, NEW q \in Patches, RollBack(p, q)
       PROVE  UNCHANGED <<DurableBook, patch, Done>> \/ Atomic!Job
  <2>1. /\ patch[p] \in Edits /\ pc = "idle" /\ pc' # "replaced"
        /\ UNCHANGED <<book, spare, intent, overtaken>>
    BY <1>11, <1>i DEF RollBack, PatchInHand, TypeOK, files, past
  <2>2. Inverse(patch[p]) \in Edits /\ BeforeIn(book, Inverse(patch[p]))
    BY <1>11, <2>1, InverseEdit DEF RollBack, AllAfter
  <2>3. CASE patch[q] = NoPatch
    BY <1>11, <2>1, <2>2, <2>3, <1>p DEF RollBack
  <2>4. CASE patch[q] # NoPatch
    <3>1. patch' = patch
      BY <1>11, <2>4, <1>i DEF RollBack, TypeOK
    <3> QED  BY <2>1, <3>1, <1>r DEF DurableBook
  <2> QED  BY <2>3, <2>4
(* Steps that touch neither the file nor an intent.                         *)
<1>2. CASE \/ SaveMechanical \/ ReadPosition \/ SaveRejected
           \/ RecordChanges \/ SaveAccepted \/ SaveRolledBack
           \/ RecoverSource \/ Recovered \/ Restart \/ Resume \/ SourceChanges
           \/ \E p \in Patches : BeginApply(p) \/ RollForward(p) \/ RecoverMixed(p)
           \/ \E p \in Patches : Accept(p) \/ AcceptInPlace(p) \/ Reject(p) \/ ReviewMixed(p)
           \/ \E p \in Patches, s \in {"approved", "patch_rejected"} : JudgeInBatch(p, s)
  <2>1. UNCHANGED <<patch, intent, overtaken, book, spare>> /\ (pc = "replaced" <=> pc' = "replaced")
    BY <1>2 DEF SaveMechanical, ReadPosition, SaveRejected, RecordChanges,
         SaveAccepted, RecoverSource, Recovered, Restart, SourceChanges,
         BeginApply, RollForward, RecoverMixed, JobFailed, WorkerDown,
         SaveRolledBack, Resume, Accept, AcceptInPlace, Reject, Reviewed, ReviewMixed, JudgeInBatch,
         files, rows, worker, past
  <2> QED  BY <2>1, <1>r DEF DurableBook
<1>3. CASE VerifyEdits
  <2>1. DurableBook' = DurableBook /\ UNCHANGED <<patch, intent, overtaken>>
    BY <1>3 DEF VerifyEdits, DurableBook, rows, past
  <2> QED  BY <2>1, <1>r
<1>4. CASE Replace
  <2>1. DurableBook' = DurableBook /\ UNCHANGED <<patch, intent, overtaken>>
    BY <1>4 DEF Replace, DurableBook, rows, past
  <2> QED  BY <2>1, <1>r
<1>5. CASE SyncDirectory
  <2>1. Atomic!Apply(cur)
    BY <1>5, CommitStep DEF SyncDirectory, rows
  <2> QED  BY <1>5, <2>1, <1>h DEF Atomic!Job, SyncDirectory, Holding, Positions, InApplyPatch
<1>6. CASE Crash
  <2>1. CASE pc = "replaced" /\ book' = book
    <3>1. Atomic!Apply(cur)
      BY <1>6, <2>1, CommitStep DEF Crash, WorkerDown, rows
    <3> QED  BY <2>1, <3>1, <1>h DEF Atomic!Job, Holding, Positions, InApplyPatch
  <2>2. CASE ~(pc = "replaced" /\ book' = book)
    <3>1. DurableBook' = DurableBook /\ UNCHANGED <<patch, intent, overtaken>>
      BY <1>6, <2>2 DEF Crash, WorkerDown, DurableBook, rows
    <3> QED  BY <3>1, <1>r
  <2> QED  BY <1>6, <2>1, <2>2 DEF Crash
(* An intent is opened, given up or settled as applied.                     *)
<1>7. CASE OpenIntent
  <2>1. /\ DurableBook' = book /\ DurableBook = book /\ UNCHANGED <<patch, overtaken>>
        /\ pc = "positioned" /\ intent' = [intent EXCEPT ![cur] = "open"]
    BY <1>7 DEF OpenIntent, DurableBook, files, past
  <2>2. AllBefore(patch[cur]) /\ cur \in Patches /\ patch[cur] \in Edits /\ Kept(cur)
    BY <2>1, <1>i, <1>h DEF Consistent, PositionMeans, Holding, Positions, Kept, Waiting,
       InFlight, IssueInHand, Applying, PatchInHand
  <2>3. intent[cur] = "applied" => cur \in overtaken
    BY <2>1, <2>2, <1>i, NotBoth DEF Consistent, IntentTold, AllBefore
  <2>4. Done' = Done
    BY <2>1, <2>2, <2>3, <1>i, SameDone DEF AllBefore, TypeOK, IntentStates
  <2> QED  BY <2>1, <2>4, <1>s
<1>8. CASE SourceRefused \/ SaveRefused \/ RefuseEdits
  <2>1. /\ DurableBook' = book /\ DurableBook = book /\ UNCHANGED <<patch, overtaken>>
        /\ pc \in {"intent", "saving"} /\ intent' = [intent EXCEPT ![cur] = "rejected"]
    BY <1>8 DEF SourceRefused, SaveRefused, RefuseEdits, WriteError, WorkerDown, DurableBook, files, past
  <2>2. /\ AllBefore(patch[cur]) /\ intent[cur] = "open"
        /\ cur \in Patches /\ patch[cur] \in Edits
    BY <2>1, <1>i, <1>h DEF Consistent, PositionMeans, Holding, Positions, InApplyPatch
  <2>3. Done' = Done
    BY <2>1, <2>2, <1>i, SameDone DEF AllBefore, TypeOK
  <2> QED  BY <2>1, <2>3, <1>s
<1>9. CASE SettleApplied \/ SettleRolledForward
  <2>1. /\ DurableBook' = book /\ DurableBook = book /\ UNCHANGED <<patch, overtaken>>
        /\ pc \in {"recorded", "recovering"} /\ intent' = [intent EXCEPT ![cur] = "applied"]
    BY <1>9 DEF SettleApplied, SettleRolledForward, DurableBook, files, past
  <2>2. /\ AllAfter(patch[cur]) /\ cur \notin overtaken
        /\ intent[cur] = "open" /\ cur \in Patches
    BY <2>1, <1>i, <1>h DEF Consistent, PositionMeans, Holding, Positions, InApplyPatch
  <2>3. Done' = Done
    BY <2>1, <2>2, <1>i, SameDone DEF AllAfter, TypeOK
  <2> QED  BY <2>1, <2>3, <1>s
<1>10. ASSUME NEW p \in Patches, SettleNotApplied(p)
       PROVE  UNCHANGED <<DurableBook, patch, Done>>
  <2>1. /\ DurableBook' = book /\ DurableBook = book /\ UNCHANGED <<patch, overtaken>>
        /\ intent[p] = "open" /\ AllBefore(patch[p])
        /\ intent' = [intent EXCEPT ![p] = "not_applied"]
    BY <1>10 DEF SettleNotApplied, OpenIntents, DurableBook, files, worker, past
  <2>2. patch[p] \in Edits
    BY <2>1, <1>i DEF PatchInHand, TypeOK
  <2>3. Done' = Done
    BY <2>1, <2>2, <1>i, SameDone DEF AllBefore, TypeOK
  <2> QED  BY <2>1, <2>3, <1>s
<1> QED
  BY <1>1, <1>2, <1>3, <1>4, <1>5, <1>6, <1>7, <1>8, <1>9, <1>10, <1>11
  DEF Job, Council, ApplyStep, Recovery, Fault

(* Nothing but a worker's rename, or the power loss that undoes it, touches
   the workbook.                                                            *)
LEMMA WhoWrites ==
    ASSUME IInv, Job, book' # book
    PROVE  Replace \/ (Crash /\ pc = "replaced" /\ book' = spare)
<1> USE DEF files
<1>1. CASE Council
  BY <1>1 DEF Council, Propose, JudgeInBatch, Accept, AcceptInPlace, Reject, Reviewed, RollBack,
              ReviewMixed, InsertMechanical
<1>2. CASE ApplyStep
  <2>1. CASE \/ \E p \in Patches : BeginApply(p)
             \/ SaveMechanical \/ ReadPosition \/ OpenIntent \/ VerifyEdits
    BY <2>1 DEF BeginApply, SaveMechanical, ReadPosition, OpenIntent, VerifyEdits
  <2>2. CASE SourceRefused \/ RefuseEdits \/ SaveRejected
    BY <2>2 DEF SourceRefused, RefuseEdits, SaveRejected, WriteError
  <2>3. CASE \/ SyncDirectory \/ RecordChanges \/ SettleApplied
             \/ SaveAccepted \/ SaveRolledBack
    BY <2>3 DEF SaveRolledBack, SyncDirectory, RecordChanges, Recorded, SettleApplied, SaveAccepted
  <2> QED  BY <1>2, <2>1, <2>2, <2>3 DEF ApplyStep
<1>3. CASE Recovery
  BY <1>3 DEF Recovery, RecoverSource, RollForward, Recorded, SettleRolledForward,
              SettleNotApplied, RecoverMixed, Recovered
<1>4. CASE Restart \/ Resume \/ SaveRefused \/ SourceChanges
  BY <1>4 DEF Restart, Resume, SaveRefused, WriteError, SourceChanges
<1>5. CASE Crash
  BY <1>5 DEF Crash
<1> QED  BY <1>1, <1>2, <1>3, <1>4, <1>5 DEF Job, Fault

(* A byte of the workbook changes only under an intent that was committed
   before and names its cell, from one of that patch's two values to the
   other: the workbook never holds anything no row announces.               *)
THEOREM WritesAreAuthorised == Spec => WritesAuthorised
<1> DEFINE Authorised ==
      ~tampered' => \A c \in Cells : book'[c] # book[c] =>
          \E p \in OpenIntents :
             {book[c], book'[c]} = {patch[p].before[c], patch[p].after[c]}
<1>1. IInv /\ [Next]_vars => [Authorised]_vars
  <2> SUFFICES ASSUME IInv, Job, ~tampered', NEW c \in Cells, book'[c] # book[c]
               PROVE  \E p \in OpenIntents :
                         {book[c], book'[c]} = {patch[p].before[c], patch[p].after[c]}
    BY DEF Next, Tamper
  <2> DEFINE e == patch[cur]
  <2>1. TypeOK /\ PatchInHand /\ Consistent
    BY JobKeepsTampered DEF IInv, Sound
  <2>2. Replace \/ (Crash /\ pc = "replaced" /\ book' = spare)
    BY WhoWrites
  <2>3. /\ cur \in Patches /\ e \in Edits /\ intent[cur] = "open"
    BY <2>1, <2>2 DEF Replace, PatchInHand, Holding, Positions, InApplyPatch, Consistent,
                      PositionMeans, TypeOK
  <2>4. cur \in OpenIntents
    BY <2>3 DEF OpenIntents
  <2>5. CASE Replace
    <3>1. book' = Edited(book, e) /\ AllBefore(e)
      BY <2>1, <2>5 DEF Replace, Consistent, PositionMeans
    <3>2. c \in CellsOf(e) /\ book'[c] = e.after[c]
      BY <3>1, <2>1, <2>3, EditedIsBlock DEF TypeOK
    <3>3. book[c] = e.before[c]
      BY <3>1, <3>2 DEF AllBefore, BeforeIn
    <3> QED  BY <2>4, <3>2, <3>3
  <2>6. CASE Crash /\ pc = "replaced" /\ book' = spare
    <3>1. /\ book = Edited(spare, e)
          /\ \A d \in CellsOf(e) : spare[d] = e.before[d]
      BY <2>1, <2>6 DEF Consistent, PositionMeans, BeforeIn
    <3>2. c \in CellsOf(e) /\ book[c] = e.after[c]
      BY <3>1, <2>1, <2>3, <2>6, EditedIsBlock DEF TypeOK
    <3> QED  BY <2>4, <2>6, <3>1, <3>2
  <2> QED  BY <2>2, <2>5, <2>6
<1> QED  BY <1>1, Invariance, PTL DEF Spec, WritesAuthorised

(* The intent, the file and the commit behave as one atomic application of
   each patch, across every crash and restart.                              *)
THEOREM Refinement == Spec => AppliesAtomically
<1>1. Init => Atomic!Init
  BY AtomicInit
<1>2. IInv /\ [Next]_vars => [Atomic!Next]_(Atomic!vars)
  <2> SUFFICES ASSUME IInv, [Next]_vars PROVE [Atomic!Next]_(Atomic!vars)
    OBVIOUS
  <2>1. ASSUME Job, ~tampered PROVE [Atomic!Next]_(Atomic!vars)
    BY <2>1, AtomicStep, JobKeepsTampered DEF Atomic!Next, Atomic!vars
  <2>2. ASSUME Job, tampered PROVE Atomic!Next
    BY <2>2, JobKeepsTampered DEF Atomic!Next
  <2>3. ASSUME NEW b \in Blocks, Tamper(b) PROVE Atomic!Next
    BY <2>3 DEF Tamper, Atomic!Next
  <2>4. CASE UNCHANGED vars
    BY <2>4 DEF vars, files, outcome, rows, ledger, worker, past, Atomic!vars, DurableBook, Done
  <2> QED  BY <2>1, <2>2, <2>3, <2>4 DEF Next
<1> QED
  BY <1>1, <1>2, Invariance, PTL DEF Spec, AppliesAtomically, Atomic!Spec
=============================================================================
