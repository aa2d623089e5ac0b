------------------------- MODULE IssueRepairProofs -------------------------
(***************************************************************************)
(* The life of one issue is correct for every number of attempts, refunds, *)
(* reopenings, values and sibling edits.  The inductive invariant ties     *)
(* three records of the same thing: the attempts, the patches with the     *)
(* verdicts on them, and what the working copy holds.                      *)
(***************************************************************************)
EXTENDS IssueRepair, SequenceTheorems, FiniteSetTheorems, TLAPS

-----------------------------------------------------------------------------
(* The inductive invariant.                                                 *)

Reviewing == {"review", "judged", "decide", "undone"}
ReviewedOutcomes == {"patch_accepted", "revision_requested", "escalated"}

(* The patch _latest_patch picks, without the CHOOSE.                       *)
IsLatest(i) ==
    /\ i \in DOMAIN patches
    /\ \A j \in DOMAIN patches :
          patches[j].no < patches[i].no \/ (patches[j].no = patches[i].no /\ i <= j)

(* What the worker's position says about the issue and the patch in hand.   *)
PositionMeans ==
    /\ pc \in {"reserved", "calling", "proposed", "linked", "settled"} =>
          state = "awaiting_patch"
    /\ pc \in {"mechanical", "audited", "ruled"} => state = "open"
    /\ pc = "mechanical" => kind = "rule" /\ hand # 0 /\ hand = Len(patches)
    /\ pc = "audited" => blind # "none"
    /\ pc = "ruled" => ruling # "none"
    /\ pc \in Reviewing => state = "awaiting_review" /\ IsLatest(hand)
    /\ pc \in {"apply", "written"} =>
          /\ state = "applying"
          /\ hand # 0 /\ (hand = Len(patches) \/ IsLatest(hand))

(* An issue nobody took up has no attempt and no patch of the Writer.       *)
OpenIsFresh ==
    state = "open" =>
        /\ used = 0 /\ attempts = << >>
        /\ \A i \in DOMAIN patches : patches[i].by = "mechanical"

(* Every attempt was paid for, with a refund or without.                    *)
AttemptsPaid ==
    Len(attempts) + (IF pc = "reserved" THEN 1 ELSE 0) <= used + retries

(* Every refund was earned, the one that is owed included.                  *)
RefundOwed == pc = "refund" \/ (pc = "settled" /\ mode \in {"refund", "reject_free"})
RefundsPaid ==
    retries + (IF RefundOwed THEN 1 ELSE 0) <= Cardinality(Refundable)

(* A call in progress is the one open attempt.                              *)
CallIsOpen ==
    /\ \A n \in DOMAIN attempts : attempts[n] = "open" =>
          n = Last /\ pc \in {"calling", "proposed", "down", "recover"}
    /\ pc \in {"calling", "proposed"} => Last > 0 /\ attempts[Last] = "open"
    /\ pc = "linked" => Last > 0 /\ attempts[Last] = "patch_recorded"

(* Patches are numbered in the order they were inserted; a mechanical one is
   always number 1, the Writer's carries the attempt that made it.          *)
PatchesNumbered ==
    /\ \A i \in DOMAIN patches :
          IF patches[i].by = "mechanical" THEN patches[i].no = 1
          ELSE patches[i].no <= Last /\ (pc = "calling" => patches[i].no < Last)
    /\ \A i, j \in DOMAIN patches : i < j =>
          patches[i].no < patches[j].no \/ (patches[i].no = 1 /\ patches[j].no = 1)
    /\ pc \in {"proposed", "linked"} =>
          Len(patches) > 0 /\ patches[Len(patches)].no = Last

(* A verdict names the first patch that carries its number.                 *)
VerdictsName ==
    /\ \A n \in DOMAIN verdict : verdict[n] # NoVerdict =>
          /\ verdict[n].patch \in DOMAIN patches
          /\ patches[verdict[n].patch].no = n
          /\ \A j \in DOMAIN patches : patches[j].no = n => verdict[n].patch <= j
    /\ pc \in {"judged", "decide", "undone"} => verdict[patches[hand].no] # NoVerdict

(* The latest patch of an issue under review is the latest attempt's; once it
   is decided on, its attempt is settled.                                   *)
ReviewedIsLatest ==
    state \in {"patch_proposed", "awaiting_review"} =>
        /\ patches # << >>
        /\ \A i \in DOMAIN patches : IsLatest(i) =>
              /\ patches[i].no = Last
              /\ attempts[Last] \in ReviewedOutcomes \cup {"patch_recorded"}
              /\ pc \in {"decide", "undone"} => attempts[Last] \in ReviewedOutcomes

(* Whatever was judged is the proposal of an attempt that is not refunded.  *)
JudgedWasRecorded ==
    \A n \in DOMAIN verdict : verdict[n] # NoVerdict =>
        n \in DOMAIN attempts /\ attempts[n] \in ReviewedOutcomes \cup {"patch_recorded"}

(* AppliedIsJudged, for whatever patch is the latest.                       *)
AppliedWasAccepted ==
    state \in NeedsApply =>
        /\ patches # << >>
        /\ \A i \in DOMAIN patches : IsLatest(i) /\ patches[i].by = "writer" =>
              /\ verdict[patches[i].no] = [decision |-> "accept", patch |-> i]
              /\ attempts[patches[i].no] \in ReviewedOutcomes

(* While a patch is in flight, no other carries its number and no sibling was
   written under it, the cells hold what they held before it or what they
   hold after it.                                                           *)
PatchInPlace ==
    state \in InFlight \/ pc \in {"proposed", "linked", "mechanical"} =>
        \/ Tied \/ (carried /\ overtaken)
        \/ /\ patches # << >>
           /\ book \in {patches[Len(patches)].before, patches[Len(patches)].after}

(* Nobody takes up a job that failed.                                       *)
FailedIsDown == job = "failed" => pc = "down"

ClaimHeard == blind = "exact" \/ ruling = "revise" \/ reopens > 0
TakenUpWasHeard ==
    kind = "semantic" =>
        (state \notin TerminalIssueStates \cup {"open"} \/ attempts # << >> => ClaimHeard)

IInv ==
    /\ TypeOK
    /\ PositionMeans /\ OpenIsFresh
    /\ AttemptsPaid /\ RefundsPaid /\ CallIsOpen
    /\ PatchesNumbered /\ VerdictsName
    /\ ReviewedIsLatest /\ JudgedWasRecorded /\ AppliedWasAccepted
    /\ PatchInPlace /\ NeverMixed /\ FailedIsDown
    /\ TakenUpWasHeard

-----------------------------------------------------------------------------
(* Sequences: a row added, a row rewritten.                                 *)

LEMMA RowAdded ==
    ASSUME NEW S, NEW s \in Seq(S), NEW e \in S
    PROVE  /\ Append(s, e) \in Seq(S)
           /\ Len(Append(s, e)) = Len(s) + 1
           /\ DOMAIN Append(s, e) = 1..(Len(s) + 1)
           /\ Append(s, e)[Len(s) + 1] = e
           /\ \A i \in 1..Len(s) : Append(s, e)[i] = s[i]
  OBVIOUS

LEMMA RowRewritten ==
    ASSUME NEW S, NEW s \in Seq(S), NEW n \in DOMAIN s, NEW e \in S
    PROVE  /\ [s EXCEPT ![n] = e] \in Seq(S)
           /\ Len([s EXCEPT ![n] = e]) = Len(s)
           /\ DOMAIN [s EXCEPT ![n] = e] = DOMAIN s
           /\ [s EXCEPT ![n] = e][n] = e
           /\ \A i \in DOMAIN s : i # n => [s EXCEPT ![n] = e][i] = s[i]
<1>1. n \in 1..Len(s)
  BY LenProperties
<1>2. /\ [s EXCEPT ![n] = e] \in Seq(S)
      /\ Len([s EXCEPT ![n] = e]) = Len(s)
  BY <1>1, ExceptSeq
<1> QED  BY <1>1, <1>2, LenProperties

-----------------------------------------------------------------------------
LEMMA PatchTypes ==
    ASSUME TypeOK
    PROVE  /\ Len(patches) \in Nat /\ DOMAIN patches = 1..Len(patches)
           /\ (patches = << >> <=> Len(patches) = 0)
           /\ \A i \in DOMAIN patches :
                 /\ patches[i].no \in Nat \ {0}
                 /\ patches[i].no \in AttemptNumbers \cup {1}
                 /\ patches[i].before \in Values /\ patches[i].after \in Values
                 /\ patches[i].by \in {"writer", "mechanical"}
<1>1. /\ Len(patches) \in Nat /\ DOMAIN patches = 1..Len(patches)
      /\ (patches = << >> <=> Len(patches) = 0)
  BY EmptySeq, LenProperties DEF TypeOK
<1>2. ASSUME NEW i \in DOMAIN patches
      PROVE  patches[i] \in PatchRows
  BY <1>1, <1>2, ElementOfSeq DEF TypeOK
<1>3. AttemptNumbers \cup {1} \subseteq Nat \ {0}
  BY RepairAssumption DEF AttemptNumbers
<1>4. ASSUME NEW r \in PatchRows
      PROVE  /\ r.no \in AttemptNumbers \cup {1}
             /\ r.before \in Values /\ r.after \in Values
             /\ r.by \in {"writer", "mechanical"}
  BY DEF PatchRows
<1>5. ASSUME NEW i \in DOMAIN patches
      PROVE  /\ patches[i].no \in AttemptNumbers \cup {1}
             /\ patches[i].before \in Values /\ patches[i].after \in Values
             /\ patches[i].by \in {"writer", "mechanical"}
  BY <1>2, <1>4
<1>6. \A i \in DOMAIN patches : patches[i].no \in Nat \ {0}
  BY <1>3, <1>5
<1> QED  BY <1>1, <1>5, <1>6

LEMMA AttemptTypes ==
    ASSUME TypeOK
    PROVE  /\ Last \in Nat /\ DOMAIN attempts = 1..Last
           /\ (attempts = << >> <=> Last = 0)
           /\ \A n \in DOMAIN attempts : attempts[n] \in Outcomes
BY EmptySeq, LenProperties, ElementOfSeq DEF TypeOK, Last

(* The patch _latest_patch picks exists, is the only one, and is the last one
   unless two patches carry its number.                                     *)

LEMMA LatestExists ==
    ASSUME TypeOK, PatchesNumbered, patches # << >>
    PROVE  IsLatest(Latest)
<1>1. /\ Len(patches) \in Nat \ {0} /\ DOMAIN patches = 1..Len(patches)
      /\ \A i \in 1..Len(patches) : patches[i].no \in Nat \ {0}
  BY PatchTypes
<1>2. CASE patches[Len(patches)].no = 1
  <2>1. IsLatest(1)
    BY <1>1, <1>2 DEF IsLatest, PatchesNumbered
  <2> QED  BY <2>1 DEF IsLatest, Latest
<1>3. CASE patches[Len(patches)].no # 1
  <2>1. IsLatest(Len(patches))
    BY <1>1, <1>3 DEF IsLatest, PatchesNumbered
  <2> QED  BY <2>1 DEF IsLatest, Latest
<1> QED  BY <1>2, <1>3

LEMMA LatestUnique ==
    ASSUME TypeOK, NEW i, NEW j, IsLatest(i), IsLatest(j)
    PROVE  i = j
<1>1. /\ i \in Nat /\ j \in Nat
      /\ patches[i].no \in Nat /\ patches[j].no \in Nat
  BY PatchTypes DEF IsLatest
<1> QED  BY <1>1 DEF IsLatest

LEMMA LatestIsLast ==
    ASSUME TypeOK, PatchesNumbered, ~Tied, NEW i, IsLatest(i)
    PROVE  i = Len(patches)
<1>1. /\ Len(patches) \in Nat /\ DOMAIN patches = 1..Len(patches)
      /\ \A k \in 1..Len(patches) : patches[k].no \in Nat \ {0}
  BY PatchTypes
<1>2. Len(patches) \in DOMAIN patches /\ i \in DOMAIN patches
  BY <1>1 DEF IsLatest
<1> QED  BY <1>1, <1>2 DEF IsLatest, PatchesNumbered, Tied

-----------------------------------------------------------------------------
(* What the helpers of the actions do.                                      *)

LEMMA Refunded ==
    ASSUME TypeOK, Refund
    PROVE  /\ used' \in 0..MaxAttempts /\ retries' \in 0..RetryBudget
           /\ used' + retries' = used + retries
           /\ retries' <= retries + 1
<1>1. /\ used \in Nat /\ used <= MaxAttempts /\ MaxAttempts \in Nat
      /\ retries \in Nat /\ retries <= RetryBudget /\ RetryBudget \in Nat
  BY RepairAssumption DEF TypeOK
<1>2. CASE retries < RetryBudget /\ used > 0
  <2>1. used' = used - 1 /\ retries' = retries + 1
    BY <1>2 DEF Refund
  <2> QED  BY <1>1, <1>2, <2>1
<1>3. CASE ~(retries < RetryBudget /\ used > 0)
  <2>1. used' = used /\ retries' = retries
    BY <1>3 DEF Refund
  <2> QED  BY <1>1, <2>1
<1> QED  BY <1>2, <1>3

LEMMA SettlesAttempt ==
    ASSUME TypeOK, NEW n \in DOMAIN attempts, NEW o \in Outcomes,
           attempts' = [attempts EXCEPT ![n] = o]
    PROVE  /\ attempts' \in Seq(Outcomes) /\ Len(attempts') = Len(attempts)
           /\ DOMAIN attempts' = DOMAIN attempts
           /\ attempts'[n] = o
           /\ \A i \in DOMAIN attempts : i # n => attempts'[i] = attempts[i]
  BY RowRewritten DEF TypeOK

LEMMA SettlesLast ==
    ASSUME TypeOK, Last > 0, NEW o \in Outcomes, Settle(o)
    PROVE  /\ attempts' \in Seq(Outcomes) /\ Len(attempts') = Len(attempts)
           /\ DOMAIN attempts' = DOMAIN attempts
           /\ attempts'[Last] = o
           /\ \A i \in DOMAIN attempts : i # Last => attempts'[i] = attempts[i]
<1>1. Last \in DOMAIN attempts
  BY AttemptTypes
<1> QED  BY <1>1, SettlesAttempt DEF Settle

LEMMA AttemptInserted ==
    ASSUME TypeOK, InsertAttempt
    PROVE  /\ attempts' \in Seq(Outcomes) /\ Len(attempts') = Last + 1
           /\ DOMAIN attempts' = 1..(Last + 1)
           /\ attempts'[Last + 1] = "open"
           /\ \A i \in DOMAIN attempts : attempts'[i] = attempts[i]
<1>1. attempts \in Seq(Outcomes) /\ "open" \in Outcomes
  BY DEF TypeOK, Outcomes
<1> QED  BY <1>1, RowAdded, AttemptTypes DEF InsertAttempt, Last

LEMMA PatchInserted ==
    ASSUME TypeOK, NEW r \in PatchRows, patches' = Append(patches, r)
    PROVE  /\ patches' \in Seq(PatchRows) /\ Len(patches') = Len(patches) + 1
           /\ DOMAIN patches' = 1..(Len(patches) + 1)
           /\ patches'[Len(patches) + 1] = r
           /\ \A i \in DOMAIN patches : patches'[i] = patches[i]
<1>1. patches \in Seq(PatchRows)
  BY DEF TypeOK
<1> QED  BY <1>1, RowAdded, PatchTypes

(* The Writer's patch carries a number of its own kind.                     *)
LEMMA WriterRow ==
    ASSUME TypeOK, AttemptsPaid, CallIsOpen, NEW v \in Values, InsertPatch(v)
    PROVE  /\ Last \in AttemptNumbers
           /\ [no |-> Last, before |-> book, after |-> v, by |-> "writer"] \in PatchRows
<1>1. Last \in Nat \ {0} /\ Last <= used + retries
  BY AttemptTypes DEF InsertPatch, CallIsOpen, AttemptsPaid, Last, TypeOK
<1>2. Last \in AttemptNumbers
  BY <1>1, RepairAssumption DEF AttemptNumbers, TypeOK
<1> QED  BY <1>2 DEF PatchRows, TypeOK

LEMMA MechanicalRow ==
    ASSUME TypeOK, NEW v \in Values
    PROVE  [no |-> 1, before |-> book, after |-> v, by |-> "mechanical"] \in PatchRows
  BY DEF PatchRows, TypeOK

(* The patch in the hand of a worker that reviews or applies exists.        *)
LEMMA HandHolds ==
    ASSUME TypeOK, PositionMeans, pc \in Reviewing \cup {"apply", "written", "mechanical"}
    PROVE  hand \in DOMAIN patches
  BY PatchTypes DEF TypeOK, PositionMeans, Reviewing, IsLatest

(* A call that ends lost or rejected is one more that may be refunded.      *)
LEMMA RefundableFinite ==
    ASSUME TypeOK
    PROVE  IsFiniteSet(Refundable) /\ Cardinality(Refundable) \in Nat
<1>1. IsFiniteSet(DOMAIN attempts) /\ Refundable \in SUBSET DOMAIN attempts
  BY AttemptTypes, FS_Interval DEF Refundable
<1> QED  BY <1>1, FS_Subset, FS_CardinalityType

LEMMA RefundableGrows ==
    ASSUME TypeOK, NEW n \in DOMAIN attempts, attempts[n] = "open",
           NEW o \in {"interrupted", "patch_rejected"},
           attempts' = [attempts EXCEPT ![n] = o]
    PROVE  Cardinality(Refundable') = Cardinality(Refundable) + 1
<1>1. o \in Outcomes
  BY DEF Outcomes
<1>2. Refundable' = Refundable \cup {n} /\ n \notin Refundable
  BY <1>1, SettlesAttempt DEF Refundable
<1> QED  BY <1>2, RefundableFinite, FS_AddElement

LEMMA RefundableKept ==
    ASSUME TypeOK, NEW n \in DOMAIN attempts, attempts[n] \in {"open", "patch_recorded"},
           NEW o \in Outcomes \ {"interrupted", "patch_rejected"},
           attempts' = [attempts EXCEPT ![n] = o]
    PROVE  Refundable' = Refundable
<1>1. /\ DOMAIN attempts' = DOMAIN attempts /\ attempts'[n] = o
      /\ \A i \in DOMAIN attempts : i # n => attempts'[i] = attempts[i]
  BY SettlesAttempt
<1> QED  BY <1>1 DEF Refundable

-----------------------------------------------------------------------------
(* Type correctness.                                                        *)

(* Every step keeps the types; the guard of the cap bounds `used`, the paid
   attempts bound a patch's number.                                        *)
LEMMA TypeStep == IInv /\ [Next]_vars => TypeOK'
<1> SUFFICES ASSUME IInv, [Next]_vars PROVE TypeOK'
  OBVIOUS
<1> USE DEF IInv, TypeOK, vars, issue, history, world, past, Fresh, worker, Save, Idle,
            WorkerDown, JobFailed, Positions, Writable, Claim, IssueState,
            LiveIssueStates, NeedsWriter, NeedsApply, NeedsReview,
            TerminalIssueStates
<1>1. CASE Exhausted \/ BlockVanished \/ Superseded \/ MarkReady
  BY <1>1, PatchTypes, AttemptTypes, RepairAssumption
     DEF Exhausted, BlockVanished, Superseded, MarkReady
<1>2. CASE (\E c \in Corroborations : AuditBlind(c)) \/ AwaitRuling
          \/ ConcludeAudit \/ ConcludeRuling
          \/ (\E r \in Rulings : Adjudicate(r))
  BY <1>2, PatchTypes, AttemptTypes, RepairAssumption
     DEF AuditBlind, AwaitRuling, ConcludeAudit, ConcludeRuling, Adjudicate
<1>3. CASE Reserve
  <2>1. TypeOK /\ used' \in 0..MaxAttempts
    BY <1>3, RepairAssumption DEF Reserve, CanAttempt
  <2> QED  BY <1>3, <2>1 DEF Reserve
<1>4. CASE InsertAttempt
  <2>1. TypeOK
    OBVIOUS
  <2> QED  BY <1>4, <2>1, AttemptInserted DEF InsertAttempt
<1>5. CASE WriterAnswers
  <2>1. TypeOK /\ Last > 0
    BY <1>5 DEF WriterAnswers, Answer, CallIsOpen
  <2>2. \E o \in Outcomes : Settle(o)
    BY <1>5 DEF WriterAnswers, Answer, Outcomes
  <2>3. attempts' \in Seq(Outcomes)
    BY <2>1, <2>2, SettlesLast
  <2>4. pc' = "settled" /\ mode' \in Owed
    BY <1>5 DEF WriterAnswers, Answer, Owed
  <2>5. UNCHANGED <<hand, patches, verdict, blind, ruling, issue, world>>
    BY <1>5 DEF WriterAnswers, Answer
  <2> QED  BY <2>1, <2>3, <2>4, <2>5
<1>6. CASE SaveAnswer
  <2>1. TypeOK /\ used' \in 0..MaxAttempts /\ retries' \in 0..RetryBudget
    BY <1>6, Refunded DEF SaveAnswer
  <2>2. state' \in IssueState \ {"patch_applied"}
    BY <1>6 DEF SaveAnswer
  <2> QED  BY <1>6, <2>1, <2>2 DEF SaveAnswer
<1>7. ASSUME NEW v \in Values, InsertPatch(v)
      PROVE  TypeOK'
  <2>1. TypeOK /\ AttemptsPaid /\ CallIsOpen
    OBVIOUS
  <2>2. patches' \in Seq(PatchRows) /\ Len(patches') = Len(patches) + 1
    BY <1>7, <2>1, WriterRow, PatchInserted DEF InsertPatch
  <2>3. carried' \in BOOLEAN /\ overtaken' \in BOOLEAN
    BY <1>7 DEF InsertPatch
  <2>4. TypeOK /\ Len(patches) \in Nat /\ hand' \in 0..Len(patches')
    BY <1>7, <2>1, <2>2, PatchTypes DEF InsertPatch
  <2> QED  BY <1>7, <2>2, <2>3, <2>4 DEF InsertPatch
<1>8. ASSUME NEW v \in Values, InsertMechanical(v)
      PROVE  TypeOK'
  <2>1. TypeOK
    OBVIOUS
  <2>2. patches' \in Seq(PatchRows) /\ Len(patches') = Len(patches) + 1
    BY <1>8, <2>1, MechanicalRow, PatchInserted DEF InsertMechanical
  <2>3. carried' \in BOOLEAN /\ overtaken' \in BOOLEAN
    BY <1>8 DEF InsertMechanical
  <2>4. TypeOK /\ Len(patches) \in Nat /\ hand' \in 0..Len(patches')
    BY <1>8, <2>1, <2>2, PatchTypes DEF InsertMechanical
  <2> QED  BY <1>8, <2>2, <2>3, <2>4 DEF InsertMechanical
<1>9. CASE LinkPatch
  <2>1. TypeOK /\ Last > 0 /\ "patch_recorded" \in Outcomes /\ Settle("patch_recorded")
    BY <1>9 DEF LinkPatch, CallIsOpen, Outcomes
  <2> QED  BY <1>9, <2>1, SettlesLast DEF LinkPatch
<1>10. CASE SaveProposed \/ SaveMechanical
  BY <1>10, PatchTypes, AttemptTypes, RepairAssumption
     DEF SaveProposed, SaveMechanical
<1>11. ASSUME NEW m \in {"single", "batch"}, BeginReview(m)
      PROVE  TypeOK'
  <2>1. TypeOK /\ PatchesNumbered /\ patches # << >>
    BY <1>11 DEF BeginReview, ReviewedIsLatest, AppliedWasAccepted
  <2>2. Latest \in 0..Len(patches)
    BY <2>1, LatestExists, PatchTypes DEF IsLatest
  <2> QED  BY <1>11, <2>1, <2>2 DEF BeginReview
<1>12. ASSUME NEW d \in Decisions, Judge(d)
      PROVE  TypeOK'
  <2>1. TypeOK /\ hand \in DOMAIN patches
    BY <1>12, HandHolds DEF Judge, Reviewing
  <2>2. Held.no \in AttemptNumbers \cup {1} /\ hand \in Nat
    BY <2>1, PatchTypes DEF Held
  <2>3. [decision |-> d, patch |-> hand] \in Verdicts
    BY <2>2 DEF Verdicts
  <2>4. verdict' \in [AttemptNumbers \cup {1} -> Verdicts \cup {NoVerdict}]
    BY <1>12, <2>1, <2>2, <2>3 DEF Judge
  <2> QED  BY <1>12, <2>1, <2>4 DEF Judge
<1>13. CASE ReviewVanished \/ ReviewCorrupt \/ Approve \/ ApproveInPlace
          \/ SaveDecision
  BY <1>13, PatchTypes, AttemptTypes, RepairAssumption
     DEF ReviewVanished, ReviewCorrupt, Approve, ApproveInPlace, SaveDecision
<1>14. CASE SettleReviewed
  <2>1. TypeOK
    OBVIOUS
  <2>2. CASE Last > 0 /\ attempts[Last] = "patch_recorded"
    <3>1. \E o \in Outcomes : Settle(o)
      BY <1>14, <2>2 DEF SettleReviewed, Outcomes
    <3> QED  BY <1>14, <2>1, <2>2, <3>1, SettlesLast DEF SettleReviewed
  <2>3. CASE ~(Last > 0 /\ attempts[Last] = "patch_recorded")
    BY <1>14, <2>1, <2>3 DEF SettleReviewed
  <2> QED  BY <2>2, <2>3
<1>15. CASE RollBack
  <2>1. TypeOK /\ hand \in DOMAIN patches
    BY <1>15, HandHolds DEF RollBack, Reviewing
  <2>2. book' \in Values
    BY <1>15, <2>1, PatchTypes DEF RollBack, Held
  <2> QED  BY <1>15, <2>1, <2>2 DEF RollBack
<1>16. CASE BeginApply
  <2>1. TypeOK /\ PatchesNumbered /\ patches # << >>
    BY <1>16 DEF BeginApply, ReviewedIsLatest, AppliedWasAccepted
  <2>2. Latest \in 0..Len(patches)
    BY <2>1, LatestExists, PatchTypes DEF IsLatest
  <2> QED  BY <1>16, <2>1, <2>2 DEF BeginApply
<1>17. CASE Write
  <2>1. TypeOK /\ hand \in DOMAIN patches
    BY <1>17, HandHolds DEF Write
  <2>2. book' \in Values
    BY <1>17, <2>1, PatchTypes DEF Write, Held
  <2> QED  BY <1>17, <2>1, <2>2 DEF Write
<1>18. CASE ApplyCorrupt \/ SaveAccepted \/ Recovered \/ Reopen \/ Restart \/ Crash
  BY <1>18, PatchTypes, AttemptTypes, RepairAssumption
     DEF ApplyCorrupt, SaveAccepted, Recovered, Reopen, Restart, Crash
<1>22. CASE (\E v \in Values : SiblingEdit(v)) \/ Resume
  <2>1. carried' \in BOOLEAN /\ overtaken' \in BOOLEAN
    <3>1. carried \in BOOLEAN /\ overtaken \in BOOLEAN
      OBVIOUS
    <3>2. CASE \E v \in Values : SiblingEdit(v)
      <4>1. overtaken' = (overtaken \/ state \in InFlight) /\ carried' = carried
        BY <3>2, Zenon DEF SiblingEdit, SiblingWrites
      <4> QED  BY <3>1, <4>1, Zenon
    <3>3. CASE Resume
      <4>1. carried' = (state \in InFlight) /\ overtaken' = overtaken
        BY <3>3, Zenon DEF Resume
      <4> HIDE DEF NeedsWriter, NeedsApply, NeedsReview
      <4>2. CASE state \in InFlight
        BY <3>1, <4>1, <4>2
      <4>3. CASE state \notin InFlight
        BY <3>1, <4>1, <4>3
      <4> QED  BY <4>2, <4>3
    <3> QED  BY <1>22, <3>2, <3>3
  <2>2. siblings' \in 0..MaxSiblings /\ book' \in Values
    BY <1>22, RepairAssumption DEF SiblingEdit, SiblingWrites, Resume
  <2> QED  BY <1>22, <2>1, <2>2 DEF SiblingEdit, SiblingWrites, Resume
<1>19. ASSUME NEW n \in DOMAIN attempts, CloseAttempt(n)
      PROVE  TypeOK'
  <2>1. TypeOK /\ "interrupted" \in Outcomes
    BY DEF Outcomes
  <2>2. attempts' \in Seq(Outcomes)
    BY <1>19, <2>1, SettlesAttempt DEF CloseAttempt
  <2> QED  BY <1>19, <2>1, <2>2 DEF CloseAttempt
<1>20. CASE RefundAttempt
  <2>1. TypeOK /\ Refund
    BY <1>20 DEF RefundAttempt
  <2> QED  BY <1>20, <2>1, Refunded DEF RefundAttempt
<1>21. CASE UNCHANGED vars
  BY <1>21, PatchTypes, AttemptTypes, RepairAssumption
<1> QED
  BY <1>1, <1>2, <1>3, <1>4, <1>5, <1>6, <1>7, <1>8, <1>9, <1>10, <1>11,
     <1>12, <1>13, <1>14, <1>15, <1>16, <1>17, <1>18, <1>19, <1>20, <1>21, <1>22
    
       DEF Next, Worker, Unpatched, WriteStep, ReviewStep, ApplyStep, Recovery,
           Others

-----------------------------------------------------------------------------
(* Where the worker stands.                                                 *)

(* Every step leaves the worker where its position says it is.             *)
LEMMA PositionStep == IInv /\ [Next]_vars => PositionMeans'
<1> SUFFICES ASSUME IInv, [Next]_vars PROVE PositionMeans'
  OBVIOUS
<1> USE DEF IInv, PositionMeans, IsLatest, Reviewing, vars, issue, history,
            world, past, Fresh, worker, Save, Idle, WorkerDown, JobFailed, Writable, Claim,
            Answer, Untouched, Corroborations, Rulings
<1>1. CASE Exhausted \/ BlockVanished \/ Superseded \/ MarkReady
  BY <1>1 DEF Exhausted, BlockVanished, Superseded, MarkReady
<1>2. CASE (\E c \in Corroborations : AuditBlind(c)) \/ AwaitRuling
          \/ ConcludeAudit \/ ConcludeRuling
          \/ (\E r \in Rulings : Adjudicate(r))
  BY <1>2 DEF AuditBlind, AwaitRuling, ConcludeAudit, ConcludeRuling, Adjudicate
<1>3. CASE Reserve \/ InsertAttempt \/ WriterAnswers \/ SaveAnswer
          \/ (\E v \in Values : InsertPatch(v)) \/ LinkPatch \/ SaveProposed
          \/ SaveMechanical
  BY <1>3
     DEF Reserve, InsertAttempt, WriterAnswers, SaveAnswer, InsertPatch,
         LinkPatch, SaveProposed, SaveMechanical
<1>4. ASSUME NEW v \in Values, InsertMechanical(v)
      PROVE  PositionMeans'
  <2>1. TypeOK /\ Len(patches') = Len(patches) + 1 /\ Len(patches) \in Nat
    BY <1>4, MechanicalRow, PatchInserted, PatchTypes DEF InsertMechanical
  <2> QED  BY <1>4, <2>1 DEF InsertMechanical
<1>5. ASSUME NEW m \in {"single", "batch"}, BeginReview(m)
      PROVE  PositionMeans'
  <2>1. TypeOK /\ PatchesNumbered /\ patches # << >>
    BY <1>5 DEF BeginReview, ReviewedIsLatest, AppliedWasAccepted
  <2>2. IsLatest(Latest) /\ Latest # 0
    BY <2>1, LatestExists, PatchTypes
  <2> QED  BY <1>5, <2>1, <2>2 DEF BeginReview
<1>6. CASE (\E d \in Decisions : Judge(d)) \/ ReviewVanished \/ ReviewCorrupt
          \/ SettleReviewed \/ Approve \/ ApproveInPlace \/ RollBack
          \/ SaveDecision
  BY <1>6
     DEF Judge, ReviewVanished, ReviewCorrupt, SettleReviewed, Approve,
         ApproveInPlace, RollBack, SaveDecision
<1>7. CASE BeginApply
  <2>1. TypeOK /\ PatchesNumbered /\ patches # << >>
    BY <1>7 DEF BeginApply, ReviewedIsLatest, AppliedWasAccepted
  <2>2. IsLatest(Latest) /\ Latest # 0
    BY <2>1, LatestExists, PatchTypes
  <2> QED  BY <1>7, <2>1, <2>2 DEF BeginApply
<1>8. CASE Write \/ ApplyCorrupt \/ SaveAccepted
          \/ (\E n \in DOMAIN attempts : CloseAttempt(n)) \/ RefundAttempt
          \/ Recovered \/ Reopen \/ (\E v \in Values : SiblingEdit(v))
          \/ Restart \/ Resume \/ Crash
  BY <1>8
     DEF Write, ApplyCorrupt, SaveAccepted, CloseAttempt, RefundAttempt,
         Recovered, Reopen, SiblingEdit, SiblingWrites, Restart, Resume, Crash
<1>9. CASE UNCHANGED vars
  BY <1>9
<1> QED
  BY <1>1, <1>2, <1>3, <1>4, <1>5, <1>6, <1>7, <1>8, <1>9
    
       DEF Next, Worker, Unpatched, WriteStep, ReviewStep, ApplyStep, Recovery,
           Others

-----------------------------------------------------------------------------
(* The accounting of attempts.                                              *)

(* Taking an issue up ends its being open, and nothing reopens it to that. *)
LEMMA FreshStep == IInv /\ [Next]_vars => OpenIsFresh'
<1> SUFFICES ASSUME IInv, [Next]_vars PROVE OpenIsFresh'
  OBVIOUS
<1> USE DEF IInv, OpenIsFresh, PositionMeans, Reviewing, NeedsApply,
            NeedsWriter, NeedsReview, TerminalIssueStates, Writable, Claim,
            Answer, Untouched, Refund, CanAttempt, vars, issue, history,
            world, past, Fresh, worker, Save, Idle, WorkerDown, JobFailed
<1>1. CASE Exhausted \/ BlockVanished \/ Superseded \/ MarkReady
  BY <1>1 DEF Exhausted, BlockVanished, Superseded, MarkReady
<1>2. CASE (\E c \in Corroborations : AuditBlind(c)) \/ AwaitRuling
          \/ ConcludeAudit \/ ConcludeRuling
          \/ (\E r \in Rulings : Adjudicate(r))
  BY <1>2 DEF AuditBlind, AwaitRuling, ConcludeAudit, ConcludeRuling, Adjudicate
<1>3. CASE Reserve \/ InsertAttempt \/ WriterAnswers \/ SaveAnswer
          \/ (\E v \in Values : InsertPatch(v)) \/ LinkPatch \/ SaveProposed
          \/ SaveMechanical
  BY <1>3
     DEF Reserve, InsertAttempt, WriterAnswers, SaveAnswer, InsertPatch,
         LinkPatch, SaveProposed, SaveMechanical
<1>4. ASSUME NEW v \in Values, InsertMechanical(v)
      PROVE  OpenIsFresh'
  <2>1. /\ Len(patches) \in Nat /\ DOMAIN patches = 1..Len(patches)
        /\ DOMAIN patches' = 1..(Len(patches) + 1)
        /\ patches'[Len(patches) + 1].by = "mechanical"
        /\ \A i \in DOMAIN patches : patches'[i] = patches[i]
    BY <1>4, MechanicalRow, PatchInserted, PatchTypes DEF InsertMechanical
  <2> QED  BY <1>4, <2>1 DEF InsertMechanical
<1>5. CASE (\E m \in {"single", "batch"} : BeginReview(m))
          \/ (\E d \in Decisions : Judge(d)) \/ ReviewVanished \/ ReviewCorrupt
          \/ SettleReviewed \/ Approve \/ ApproveInPlace \/ RollBack
          \/ SaveDecision
  BY <1>5
     DEF BeginReview, Judge, ReviewVanished, ReviewCorrupt, SettleReviewed,
         Approve, ApproveInPlace, RollBack, SaveDecision
<1>6. CASE BeginApply \/ Write \/ ApplyCorrupt \/ SaveAccepted \/ RefundAttempt
          \/ Recovered \/ Reopen \/ (\E v \in Values : SiblingEdit(v))
          \/ Restart \/ Resume \/ Crash
  BY <1>6
     DEF BeginApply, Write, ApplyCorrupt, SaveAccepted, RefundAttempt,
         Recovered, Reopen, SiblingEdit, SiblingWrites, Restart, Resume, Crash
<1>7. ASSUME NEW n \in DOMAIN attempts, CloseAttempt(n)
      PROVE  OpenIsFresh'
  <2>1. attempts # << >>
    BY AttemptTypes
  <2> QED  BY <1>7, <2>1 DEF CloseAttempt
<1>8. CASE UNCHANGED vars
  BY <1>8
<1> QED
  BY <1>1, <1>2, <1>3, <1>4, <1>5, <1>6, <1>7, <1>8
    
       DEF Next, Worker, Unpatched, WriteStep, ReviewStep, ApplyStep, Recovery,
           Others

(* A row of repair_attempts follows the attempt it was paid with, and a refund
   moves it from one account to the other.                                 *)
LEMMA PaidStep == IInv /\ [Next]_vars => AttemptsPaid'
<1> SUFFICES ASSUME IInv, [Next]_vars PROVE AttemptsPaid'
  OBVIOUS
<1> USE DEF IInv, AttemptsPaid, Last, Writable, Claim, vars, issue, history,
            world, past, Fresh, worker, Save, Idle, WorkerDown, JobFailed
<1>1. CASE Exhausted \/ BlockVanished \/ Superseded \/ MarkReady
  BY <1>1 DEF Exhausted, BlockVanished, Superseded, MarkReady
<1>2. CASE (\E c \in Corroborations : AuditBlind(c)) \/ AwaitRuling
          \/ ConcludeAudit \/ ConcludeRuling
          \/ (\E r \in Rulings : Adjudicate(r))
  BY <1>2 DEF AuditBlind, AwaitRuling, ConcludeAudit, ConcludeRuling, Adjudicate
<1>3. CASE Reserve
  BY <1>3, AttemptTypes DEF Reserve, TypeOK
<1>4. CASE InsertAttempt
  BY <1>4, AttemptInserted, AttemptTypes DEF InsertAttempt, TypeOK
<1>5. CASE WriterAnswers
  <2>1. Last > 0 /\ \E o \in Outcomes : Settle(o)
    BY <1>5 DEF WriterAnswers, Answer, CallIsOpen, Outcomes
  <2>2. Len(attempts') = Len(attempts)
    BY <2>1, SettlesLast
  <2> QED  BY <1>5, <2>2 DEF WriterAnswers, Answer
<1>6. CASE SaveAnswer
  <2>1. used' + retries' = used + retries
    BY <1>6, Refunded DEF SaveAnswer
  <2> QED  BY <1>6, <2>1 DEF SaveAnswer
<1>7. CASE (\E v \in Values : InsertPatch(v))
          \/ (\E v \in Values : InsertMechanical(v)) \/ SaveProposed
          \/ SaveMechanical
  BY <1>7 DEF InsertPatch, InsertMechanical, SaveProposed, SaveMechanical
<1>8. CASE LinkPatch
  <2>1. Len(attempts') = Len(attempts)
    BY <1>8, SettlesLast DEF LinkPatch, CallIsOpen, Outcomes
  <2> QED  BY <1>8, <2>1 DEF LinkPatch
<1>9. CASE (\E m \in {"single", "batch"} : BeginReview(m))
          \/ (\E d \in Decisions : Judge(d)) \/ ReviewVanished \/ ReviewCorrupt
          \/ Approve \/ ApproveInPlace \/ RollBack \/ SaveDecision
  BY <1>9
     DEF BeginReview, Judge, ReviewVanished, ReviewCorrupt, Approve,
         ApproveInPlace, RollBack, SaveDecision
<1>10. CASE SettleReviewed
  <2>1. Len(attempts') = Len(attempts)
    BY <1>10, SettlesLast DEF SettleReviewed, Outcomes
  <2> QED  BY <1>10, <2>1 DEF SettleReviewed
<1>11. CASE BeginApply \/ Write \/ ApplyCorrupt \/ SaveAccepted \/ Recovered
          \/ Reopen \/ (\E v \in Values : SiblingEdit(v)) \/ Restart \/ Resume
  BY <1>11
     DEF BeginApply, Write, ApplyCorrupt, SaveAccepted, Recovered, Reopen,
         SiblingEdit, SiblingWrites, Restart, Resume
<1>12. ASSUME NEW n \in DOMAIN attempts, CloseAttempt(n)
      PROVE  AttemptsPaid'
  <2>1. Len(attempts') = Len(attempts)
    BY <1>12, SettlesAttempt DEF CloseAttempt, Outcomes
  <2> QED  BY <1>12, <2>1 DEF CloseAttempt
<1>13. CASE RefundAttempt
  <2>1. used' + retries' = used + retries
    BY <1>13, Refunded DEF RefundAttempt
  <2> QED  BY <1>13, <2>1 DEF RefundAttempt
<1>14. CASE Crash
  BY <1>14, AttemptTypes DEF Crash, TypeOK
<1>15. CASE UNCHANGED vars
  BY <1>15
<1> QED
  BY <1>1, <1>2, <1>3, <1>4, <1>5, <1>6, <1>7, <1>8, <1>9, <1>10, <1>11,
     <1>12, <1>13, <1>14, <1>15
    
       DEF Next, Worker, Unpatched, WriteStep, ReviewStep, ApplyStep, Recovery,
           Others

(* A refund is owed exactly between the row being closed and the issue saved. *)
LEMMA RefundsStep == IInv /\ [Next]_vars => RefundsPaid'
<1> SUFFICES ASSUME IInv, [Next]_vars PROVE RefundsPaid'
  OBVIOUS
<1> USE DEF IInv, RefundsPaid, RefundOwed, Writable, Claim, vars, issue,
            history, world, past, Fresh, worker, Save, Idle, WorkerDown, JobFailed
<1>a. retries \in Nat /\ Cardinality(Refundable) \in Nat
  BY RefundableFinite, RepairAssumption DEF TypeOK
<1>b. ASSUME UNCHANGED <<retries, attempts>>,
     RefundOwed' => RefundOwed PROVE RefundsPaid'
  BY <1>a, <1>b DEF Refundable
<1>1. CASE Exhausted \/ BlockVanished \/ Superseded \/ MarkReady
  BY <1>1, <1>b DEF Exhausted, BlockVanished, Superseded, MarkReady
<1>2. CASE (\E c \in Corroborations : AuditBlind(c)) \/ AwaitRuling
          \/ ConcludeAudit \/ ConcludeRuling
          \/ (\E r \in Rulings : Adjudicate(r))
  BY <1>2, <1>b
     DEF AuditBlind, AwaitRuling, ConcludeAudit, ConcludeRuling, Adjudicate
<1>3. CASE Reserve \/ (\E v \in Values : InsertPatch(v))
          \/ (\E v \in Values : InsertMechanical(v)) \/ SaveProposed
          \/ SaveMechanical
  BY <1>3, <1>b
     DEF Reserve, InsertPatch, InsertMechanical, SaveProposed, SaveMechanical
<1>4. CASE InsertAttempt
  <2>1. Refundable' = Refundable
    BY <1>4, AttemptInserted, AttemptTypes DEF Refundable
  <2> QED  BY <1>4, <1>a, <2>1 DEF InsertAttempt
<1>5. CASE WriterAnswers
  <2>1. Last \in DOMAIN attempts /\ attempts[Last] = "open"
    BY <1>5, AttemptTypes DEF WriterAnswers, Answer, CallIsOpen
  <2>2. CASE Answer("escalated", "escalate")
    <3>1. Refundable' = Refundable
      BY <2>1, <2>2, RefundableKept DEF Answer, Settle, Outcomes
    <3> QED  BY <2>2, <3>1, <1>a DEF Answer
  <2>3. ASSUME NEW o \in {"interrupted", "patch_rejected"}, NEW owed \in Owed,
       Answer(o, owed)
        PROVE  RefundsPaid'
    <3>1. Cardinality(Refundable') = Cardinality(Refundable) + 1
      BY <2>1, <2>3, RefundableGrows DEF Answer, Settle
    <3> QED  BY <2>3, <3>1, <1>a DEF Answer
  <2> QED  BY <1>5, <2>2, <2>3 DEF WriterAnswers, Owed
<1>6. CASE SaveAnswer
  <2>1. retries' <= retries + 1 /\ retries' \in Nat
    BY <1>6, <1>a, Refunded, RepairAssumption DEF SaveAnswer
  <2>2. Refundable' = Refundable
    BY <1>6 DEF SaveAnswer, Refundable
  <2> QED  BY <1>6, <1>a, <2>1, <2>2 DEF SaveAnswer
<1>7. CASE LinkPatch
  <2>1. Last \in DOMAIN attempts /\ attempts[Last] = "open"
    BY <1>7, AttemptTypes DEF LinkPatch, CallIsOpen
  <2>2. "patch_recorded" \in Outcomes \ {"interrupted", "patch_rejected"}
    BY DEF Outcomes
  <2>3. Refundable' = Refundable
    BY <1>7, <2>1, <2>2, RefundableKept DEF LinkPatch, Settle
  <2> QED  BY <1>7, <2>3, <1>a DEF LinkPatch
<1>8. CASE (\E m \in {"single", "batch"} : BeginReview(m))
          \/ (\E d \in Decisions : Judge(d)) \/ ReviewVanished \/ ReviewCorrupt
          \/ Approve \/ ApproveInPlace \/ RollBack \/ SaveDecision
  BY <1>8, <1>b
     DEF BeginReview, Judge, ReviewVanished, ReviewCorrupt, Approve,
         ApproveInPlace, RollBack, SaveDecision
<1>9. CASE SettleReviewed
  <2>1. Refundable' = Refundable
    <3>1. CASE Last > 0 /\ attempts[Last] = "patch_recorded"
      <4>1. PICK o \in Outcomes \ {"interrupted", "patch_rejected"} : Settle(o)
        BY <1>9, <3>1 DEF SettleReviewed, Outcomes
      <4>2. Last \in DOMAIN attempts /\ attempts[Last] \in {"open",
           "patch_recorded"}
        BY <3>1, AttemptTypes
      <4> QED  BY <4>1, <4>2, RefundableKept DEF Settle
    <3>2. CASE ~(Last > 0 /\ attempts[Last] = "patch_recorded")
      BY <1>9, <3>2 DEF SettleReviewed, Refundable
    <3> QED  BY <3>1, <3>2
  <2> QED  BY <1>9, <2>1, <1>a DEF SettleReviewed
<1>10. CASE BeginApply \/ Write \/ ApplyCorrupt \/ SaveAccepted \/ Recovered
          \/ Reopen \/ (\E v \in Values : SiblingEdit(v)) \/ Restart \/ Resume \/ Crash
  BY <1>10, <1>b
     DEF BeginApply, Write, ApplyCorrupt, SaveAccepted, Recovered, Reopen,
         SiblingEdit, SiblingWrites, Restart, Resume, Crash
<1>11. ASSUME NEW n \in DOMAIN attempts, CloseAttempt(n)
      PROVE  RefundsPaid'
  <2>1. Cardinality(Refundable') = Cardinality(Refundable) + 1
    BY <1>11, RefundableGrows DEF CloseAttempt, OpenAttempts
  <2> QED  BY <1>11, <2>1, <1>a DEF CloseAttempt
<1>12. CASE RefundAttempt
  <2>1. retries' <= retries + 1 /\ retries' \in Nat
    BY <1>12, Refunded, RepairAssumption DEF RefundAttempt
  <2>2. Refundable' = Refundable
    BY <1>12 DEF RefundAttempt, Refundable
  <2> QED  BY <1>12, <1>a, <2>1, <2>2 DEF RefundAttempt
<1>13. CASE UNCHANGED vars
  BY <1>13, <1>b
<1> QED
  BY <1>1, <1>2, <1>3, <1>4, <1>5, <1>6, <1>7, <1>8, <1>9, <1>10, <1>11,
     <1>12, <1>13
    
       DEF Next, Worker, Unpatched, WriteStep, ReviewStep, ApplyStep, Recovery,
           Others

(* A row is open while its call runs, and recovery closes it before any other. *)
LEMMA CallStep == IInv /\ [Next]_vars => CallIsOpen'
<1> SUFFICES ASSUME IInv, [Next]_vars PROVE CallIsOpen'
  OBVIOUS
<1> USE DEF IInv, CallIsOpen, Last, Writable, Claim, vars, issue, history,
            world, past, Fresh, worker, Save, Idle, WorkerDown, JobFailed
<1>1. CASE Exhausted \/ BlockVanished \/ Superseded \/ MarkReady
  BY <1>1 DEF Exhausted, BlockVanished, Superseded, MarkReady
<1>2. CASE (\E c \in Corroborations : AuditBlind(c)) \/ AwaitRuling
          \/ ConcludeAudit \/ ConcludeRuling
          \/ (\E r \in Rulings : Adjudicate(r))
  BY <1>2 DEF AuditBlind, AwaitRuling, ConcludeAudit, ConcludeRuling, Adjudicate
<1>3. CASE Reserve \/ SaveAnswer \/ (\E v \in Values : InsertPatch(v))
          \/ (\E v \in Values : InsertMechanical(v)) \/ SaveProposed
          \/ SaveMechanical
  BY <1>3
     DEF Reserve, SaveAnswer, InsertPatch, InsertMechanical, SaveProposed,
         SaveMechanical
<1>4. CASE InsertAttempt
  <2>1. /\ Last \in Nat /\ DOMAIN attempts = 1..Last
        /\ DOMAIN attempts' = 1..(Last + 1) /\ Len(attempts') = Last + 1
        /\ attempts'[Last + 1] = "open"
        /\ \A i \in DOMAIN attempts : attempts'[i] = attempts[i]
    BY <1>4, AttemptInserted, AttemptTypes
  <2> QED  BY <1>4, <2>1 DEF InsertAttempt
<1>5. CASE WriterAnswers
  <2>1. Last > 0 /\ \E o \in Outcomes \ {"open"} : Settle(o)
    BY <1>5 DEF WriterAnswers, Answer, Outcomes
  <2>2. PICK o \in Outcomes \ {"open"} : Settle(o)
    BY <2>1
  <2>3. /\ DOMAIN attempts' = DOMAIN attempts /\ attempts'[Last] = o
        /\ \A i \in DOMAIN attempts : i # Last => attempts'[i] = attempts[i]
    BY <2>1, <2>2, SettlesLast
  <2> QED  BY <1>5, <2>2, <2>3 DEF WriterAnswers, Answer
<1>6. CASE LinkPatch
  <2>1. /\ Last > 0 /\ Len(attempts') = Len(attempts)
        /\ DOMAIN attempts' = DOMAIN attempts /\ attempts'[Last] = "patch_recorded"
        /\ \A i \in DOMAIN attempts : i # Last => attempts'[i] = attempts[i]
    BY <1>6, SettlesLast DEF LinkPatch, Outcomes
  <2> QED  BY <1>6, <2>1 DEF LinkPatch
<1>7. CASE (\E m \in {"single", "batch"} : BeginReview(m))
          \/ (\E d \in Decisions : Judge(d)) \/ ReviewVanished \/ ReviewCorrupt
          \/ Approve \/ ApproveInPlace \/ RollBack \/ SaveDecision
  BY <1>7
     DEF BeginReview, Judge, ReviewVanished, ReviewCorrupt, Approve,
         ApproveInPlace, RollBack, SaveDecision
<1>8. CASE SettleReviewed
  <2>1. CASE Last > 0 /\ attempts[Last] = "patch_recorded"
    <3>1. PICK o \in Outcomes \ {"open"} : Settle(o)
      BY <1>8, <2>1 DEF SettleReviewed, Outcomes
    <3>2. /\ DOMAIN attempts' = DOMAIN attempts /\ attempts'[Last] = o
          /\ \A i \in DOMAIN attempts : i # Last => attempts'[i] = attempts[i]
      BY <2>1, <3>1, SettlesLast
    <3> QED  BY <1>8, <3>1, <3>2 DEF SettleReviewed
  <2>2. CASE ~(Last > 0 /\ attempts[Last] = "patch_recorded")
    BY <1>8, <2>2 DEF SettleReviewed
  <2> QED  BY <2>1, <2>2
<1>9. CASE BeginApply \/ Write \/ ApplyCorrupt \/ SaveAccepted \/ RefundAttempt
          \/ Reopen \/ (\E v \in Values : SiblingEdit(v)) \/ Restart \/ Resume \/ Crash
  BY <1>9
     DEF BeginApply, Write, ApplyCorrupt, SaveAccepted, RefundAttempt, Reopen,
         SiblingEdit, SiblingWrites, Restart, Resume, Crash
<1>10. ASSUME NEW n \in DOMAIN attempts, CloseAttempt(n)
      PROVE  CallIsOpen'
  <2>1. /\ n = Last /\ DOMAIN attempts' = DOMAIN attempts
        /\ attempts'[n] = "interrupted"
        /\ \A i \in DOMAIN attempts : i # n => attempts'[i] = attempts[i]
    BY <1>10, SettlesAttempt DEF CloseAttempt, Outcomes, OpenAttempts
  <2> QED  BY <1>10, <2>1 DEF CloseAttempt
<1>11. CASE Recovered
  BY <1>11 DEF Recovered, OpenAttempts
<1>12. CASE UNCHANGED vars
  BY <1>12
<1> QED
  BY <1>1, <1>2, <1>3, <1>4, <1>5, <1>6, <1>7, <1>8, <1>9, <1>10, <1>11,
     <1>12
    
       DEF Next, Worker, Unpatched, WriteStep, ReviewStep, ApplyStep, Recovery,
           Others

-----------------------------------------------------------------------------
(* Patches and the verdicts on them.                                        *)

(* A new patch takes the highest number, or 1 before any attempt.          *)
LEMMA NumberedStep == IInv /\ [Next]_vars => PatchesNumbered'
<1> SUFFICES ASSUME IInv, [Next]_vars PROVE PatchesNumbered'
  OBVIOUS
<1> USE DEF IInv, PatchesNumbered, Last, Writable, Claim, vars, issue,
            history, world, past, Fresh, worker, Save, Idle, WorkerDown, JobFailed
<1>1. CASE Exhausted \/ BlockVanished \/ Superseded \/ MarkReady
  BY <1>1 DEF Exhausted, BlockVanished, Superseded, MarkReady
<1>2. CASE (\E c \in Corroborations : AuditBlind(c)) \/ AwaitRuling
          \/ ConcludeAudit \/ ConcludeRuling
          \/ (\E r \in Rulings : Adjudicate(r))
  BY <1>2 DEF AuditBlind, AwaitRuling, ConcludeAudit, ConcludeRuling, Adjudicate
<1>3. CASE Reserve \/ SaveAnswer \/ SaveProposed \/ SaveMechanical
  BY <1>3 DEF Reserve, SaveAnswer, SaveProposed, SaveMechanical
<1>4. CASE InsertAttempt
  <2>1. /\ Last \in Nat /\ Len(attempts') = Last + 1
        /\ \A i \in DOMAIN patches : patches[i].no \in Nat
    BY <1>4, AttemptInserted, AttemptTypes, PatchTypes
  <2> QED  BY <1>4, <2>1 DEF InsertAttempt
<1>5. CASE WriterAnswers
  <2>1. \E o \in Outcomes : Settle(o)
    BY <1>5 DEF WriterAnswers, Answer, Outcomes
  <2>2. Len(attempts') = Len(attempts)
    BY <1>5, <2>1, SettlesLast DEF WriterAnswers, Answer, CallIsOpen
  <2> QED  BY <1>5, <2>2 DEF WriterAnswers, Answer
<1>6. ASSUME NEW v \in Values, InsertPatch(v)
      PROVE  PatchesNumbered'
  <2>1. /\ Len(patches) \in Nat /\ DOMAIN patches = 1..Len(patches)
        /\ Len(patches') = Len(patches) + 1 /\ DOMAIN patches' = 1..Len(patches')
        /\ patches'[Len(patches')].no = Last /\ patches'[Len(patches')].by = "writer"
        /\ \A i \in DOMAIN patches : patches'[i] = patches[i]
    BY <1>6, WriterRow, PatchInserted, PatchTypes DEF InsertPatch
  <2>2. /\ Last \in Nat /\ Last > 0
        /\ \A i \in DOMAIN patches :
              /\ patches[i].no \in Nat
              /\ patches[i].no < Last \/ (patches[i].no = 1 /\ Last = 1)
    BY <1>6, AttemptTypes, PatchTypes DEF InsertPatch, CallIsOpen
  <2>3. pc' = "proposed" /\ UNCHANGED attempts
    BY <1>6 DEF InsertPatch
  <2> HIDE DEF IInv, Last
  <2>4. \A i \in DOMAIN patches' :
           IF patches'[i].by = "mechanical" THEN patches'[i].no = 1
           ELSE patches'[i].no <= Last
    BY <2>1, <2>2 DEF IInv
  <2>5. \A i, j \in DOMAIN patches' : i < j =>
           patches'[i].no < patches'[j].no \/ (patches'[i].no = 1 /\ patches'[j].no = 1)
    BY <2>1, <2>2 DEF IInv
  <2> QED  BY <2>1, <2>3, <2>4, <2>5 DEF Last
<1>7. ASSUME NEW v \in Values, InsertMechanical(v)
      PROVE  PatchesNumbered'
  <2>1. /\ Len(patches) \in Nat /\ DOMAIN patches = 1..Len(patches)
        /\ Len(patches') = Len(patches) + 1 /\ DOMAIN patches' = 1..Len(patches')
        /\ patches'[Len(patches')].no = 1 /\ patches'[Len(patches')].by = "mechanical"
        /\ \A i \in DOMAIN patches : patches'[i] = patches[i]
    BY <1>7, MechanicalRow, PatchInserted, PatchTypes DEF InsertMechanical
  <2>2. \A i \in DOMAIN patches : patches[i].by = "mechanical" /\ patches[i].no = 1
    BY <1>7 DEF InsertMechanical, Untouched, OpenIsFresh
  <2>3. pc' = "mechanical"
    BY <1>7 DEF InsertMechanical
  <2> QED  BY <2>1, <2>2, <2>3
<1>8. CASE LinkPatch
  <2>1. Len(attempts') = Len(attempts)
    BY <1>8, SettlesLast DEF LinkPatch, CallIsOpen, Outcomes
  <2> QED  BY <1>8, <2>1 DEF LinkPatch
<1>9. CASE (\E m \in {"single", "batch"} : BeginReview(m))
          \/ (\E d \in Decisions : Judge(d)) \/ ReviewVanished \/ ReviewCorrupt
          \/ Approve \/ ApproveInPlace \/ RollBack \/ SaveDecision
  BY <1>9
     DEF BeginReview, Judge, ReviewVanished, ReviewCorrupt, Approve,
         ApproveInPlace, RollBack, SaveDecision
<1>10. CASE SettleReviewed
  <2>1. Len(attempts') = Len(attempts)
    BY <1>10, SettlesLast DEF SettleReviewed, Outcomes
  <2> QED  BY <1>10, <2>1 DEF SettleReviewed
<1>11. CASE BeginApply \/ Write \/ ApplyCorrupt \/ SaveAccepted \/ RefundAttempt
          \/ Recovered \/ Reopen \/ (\E v \in Values : SiblingEdit(v))
          \/ Restart \/ Resume \/ Crash
  BY <1>11
     DEF BeginApply, Write, ApplyCorrupt, SaveAccepted, RefundAttempt,
         Recovered, Reopen, SiblingEdit, SiblingWrites, Restart, Resume, Crash
<1>12. ASSUME NEW n \in DOMAIN attempts, CloseAttempt(n)
      PROVE  PatchesNumbered'
  <2>1. Len(attempts') = Len(attempts)
    BY <1>12, SettlesAttempt DEF CloseAttempt, Outcomes
  <2> QED  BY <1>12, <2>1 DEF CloseAttempt
<1>13. CASE UNCHANGED vars
  BY <1>13
<1> QED
  BY <1>1, <1>2, <1>3, <1>4, <1>5, <1>6, <1>7, <1>8, <1>9, <1>10, <1>11,
     <1>12, <1>13
    
       DEF Next, Worker, Unpatched, WriteStep, ReviewStep, ApplyStep, Recovery,
           Others

(* A verdict is given on the latest patch, which is the first of its number. *)
LEMMA VerdictStep == IInv /\ [Next]_vars => VerdictsName'
<1> SUFFICES ASSUME IInv, [Next]_vars PROVE VerdictsName'
  OBVIOUS
<1> USE DEF IInv, VerdictsName, Writable, Claim, Answer, vars, issue, history,
            world, past, Fresh, worker, Save, Idle, WorkerDown, JobFailed
<1>1. CASE Exhausted \/ BlockVanished \/ Superseded \/ MarkReady
  BY <1>1 DEF Exhausted, BlockVanished, Superseded, MarkReady
<1>2. CASE (\E c \in Corroborations : AuditBlind(c)) \/ AwaitRuling
          \/ ConcludeAudit \/ ConcludeRuling
          \/ (\E r \in Rulings : Adjudicate(r))
  BY <1>2 DEF AuditBlind, AwaitRuling, ConcludeAudit, ConcludeRuling, Adjudicate
<1>3. CASE Reserve \/ InsertAttempt \/ WriterAnswers \/ SaveAnswer \/ LinkPatch
          \/ SaveProposed \/ SaveMechanical
  BY <1>3
     DEF Reserve, InsertAttempt, WriterAnswers, SaveAnswer, LinkPatch,
         SaveProposed, SaveMechanical
<1>4. ASSUME NEW v \in Values, InsertPatch(v)
      PROVE  VerdictsName'
  <2>1. /\ Len(patches) \in Nat /\ DOMAIN patches = 1..Len(patches)
        /\ DOMAIN patches' = 1..(Len(patches) + 1)
        /\ \A i \in DOMAIN patches : patches'[i] = patches[i]
    BY <1>4, WriterRow, PatchInserted, PatchTypes DEF InsertPatch
  <2>2. verdict' = verdict /\ pc' \notin {"judged", "decide", "undone"}
    BY <1>4 DEF InsertPatch
  <2> QED  BY <2>1, <2>2
<1>5. ASSUME NEW v \in Values, InsertMechanical(v)
      PROVE  VerdictsName'
  <2>1. /\ Len(patches) \in Nat /\ DOMAIN patches = 1..Len(patches)
        /\ DOMAIN patches' = 1..(Len(patches) + 1)
        /\ \A i \in DOMAIN patches : patches'[i] = patches[i]
    BY <1>5, MechanicalRow, PatchInserted, PatchTypes DEF InsertMechanical
  <2>2. verdict' = verdict /\ pc' \notin {"judged", "decide", "undone"}
    BY <1>5 DEF InsertMechanical
  <2> QED  BY <2>1, <2>2
<1>6. CASE (\E m \in {"single", "batch"} : BeginReview(m)) \/ ReviewVanished
          \/ ReviewCorrupt \/ SettleReviewed \/ Approve \/ ApproveInPlace
          \/ RollBack \/ SaveDecision
  BY <1>6
     DEF BeginReview, ReviewVanished, ReviewCorrupt, SettleReviewed, Approve,
         ApproveInPlace, RollBack, SaveDecision
<1>7. ASSUME NEW d \in Decisions, Judge(d)
      PROVE  VerdictsName'
  <2>1. hand \in DOMAIN patches /\ IsLatest(hand)
    BY <1>7, HandHolds DEF Judge, PositionMeans, Reviewing
  <2>2. Held.no \in AttemptNumbers \cup {1}
    BY <2>1, PatchTypes DEF Held
  <2>3. verdict \in [AttemptNumbers \cup {1} -> Verdicts \cup {NoVerdict}]
    BY DEF TypeOK
  <2>4. CASE verdict' = [verdict EXCEPT ![Held.no] = [decision |-> d,
       patch |-> hand]]
    <3>1. [decision |-> d, patch |-> hand] # NoVerdict
      BY <2>1 DEF NoVerdict
    <3>2. /\ verdict'[Held.no] = [decision |-> d, patch |-> hand]
          /\ DOMAIN verdict' = DOMAIN verdict
          /\ \A n \in DOMAIN verdict : n # Held.no => verdict'[n] = verdict[n]
      BY <2>2, <2>3, <2>4
    <3>3. \A j \in DOMAIN patches : patches[j].no = Held.no => hand <= j
      BY <2>1, PatchTypes DEF IsLatest, Held
    <3>4. patches' = patches /\ hand' = hand
      BY <1>7 DEF Judge
    <3> QED  BY <2>1, <3>1, <3>2, <3>3, <3>4 DEF Held
  <2>5. CASE verdict[Held.no] # NoVerdict /\ UNCHANGED verdict
    BY <1>7, <2>5 DEF Judge, Held
  <2> QED  BY <1>7, <2>4, <2>5 DEF Judge
<1>8. CASE BeginApply \/ Write \/ ApplyCorrupt \/ SaveAccepted
          \/ (\E n \in DOMAIN attempts : CloseAttempt(n)) \/ RefundAttempt
          \/ Recovered \/ Reopen \/ (\E v \in Values : SiblingEdit(v))
          \/ Restart \/ Resume \/ Crash
  BY <1>8
     DEF BeginApply, Write, ApplyCorrupt, SaveAccepted, CloseAttempt,
         RefundAttempt, Recovered, Reopen, SiblingEdit, SiblingWrites, Restart, Resume, Crash
<1>9. CASE UNCHANGED vars
  BY <1>9
<1> QED
  BY <1>1, <1>2, <1>3, <1>4, <1>5, <1>6, <1>7, <1>8, <1>9
    
       DEF Next, Worker, Unpatched, WriteStep, ReviewStep, ApplyStep, Recovery,
           Others

(* SaveProposed leaves the latest attempt's patch latest; SettleReviewed
   settles that attempt.                                                   *)
LEMMA ReviewedStep == IInv /\ [Next]_vars => ReviewedIsLatest'
<1> SUFFICES ASSUME IInv, [Next]_vars PROVE ReviewedIsLatest'
  OBVIOUS
<1> USE DEF IInv, ReviewedIsLatest, ReviewedOutcomes, PositionMeans,
            Reviewing, Writable, Claim, Answer, NeedsApply, NeedsWriter,
            NeedsReview, TerminalIssueStates, vars, issue, history, world, past,
            Fresh, worker, Save, Idle, WorkerDown, JobFailed
<1>1. CASE Exhausted \/ BlockVanished \/ Superseded \/ MarkReady
  BY <1>1 DEF Exhausted, BlockVanished, Superseded, MarkReady, IsLatest, Last
<1>2. CASE (\E c \in Corroborations : AuditBlind(c)) \/ AwaitRuling
          \/ ConcludeAudit \/ ConcludeRuling
          \/ (\E r \in Rulings : Adjudicate(r))
  BY <1>2
     DEF AuditBlind, AwaitRuling, ConcludeAudit, ConcludeRuling, Adjudicate,
         IsLatest, Last
<1>3. CASE Reserve \/ InsertAttempt \/ WriterAnswers \/ SaveAnswer
          \/ (\E v \in Values : InsertPatch(v))
          \/ (\E v \in Values : InsertMechanical(v)) \/ LinkPatch
          \/ SaveMechanical
  BY <1>3
     DEF Reserve, InsertAttempt, WriterAnswers, SaveAnswer, InsertPatch,
         InsertMechanical, LinkPatch, SaveMechanical, IsLatest, Last
<1>4. CASE SaveProposed
  <2>1. /\ patches # << >> /\ Len(patches) \in DOMAIN patches
        /\ patches[Len(patches)].no = Last /\ attempts[Last] = "patch_recorded"
    BY <1>4, PatchTypes DEF SaveProposed, PatchesNumbered, CallIsOpen
  <2>2. ASSUME NEW i \in DOMAIN patches, IsLatest(i)
        PROVE  patches[i].no = Last
    <3>1. patches[i].no <= Last /\ patches[i].no >= patches[Len(patches)].no
      BY <2>1, <2>2, PatchTypes DEF IsLatest, PatchesNumbered
    <3> QED  BY <2>1, <3>1, AttemptTypes, PatchTypes
  <2>3. UNCHANGED <<patches, attempts>> /\ pc' = "idle"
    BY <1>4 DEF SaveProposed
  <2> QED  BY <2>1, <2>2, <2>3 DEF IsLatest, Last
<1>5. CASE (\E m \in {"single", "batch"} : BeginReview(m))
          \/ (\E d \in Decisions : Judge(d)) \/ ReviewVanished \/ ReviewCorrupt
          \/ Approve \/ ApproveInPlace \/ RollBack \/ SaveDecision
  BY <1>5
     DEF BeginReview, Judge, ReviewVanished, ReviewCorrupt, Approve,
         ApproveInPlace, RollBack, SaveDecision, IsLatest, Last
<1>6. CASE SettleReviewed
  <2>1. ASSUME NEW i \in DOMAIN patches, IsLatest(i)
        PROVE  patches[i].no = Last /\ attempts'[Last] \in ReviewedOutcomes
    <3>1. Last > 0 /\ patches[i].no = Last
      BY <1>6, <2>1, PatchTypes DEF SettleReviewed
    <3>2. CASE attempts[Last] = "patch_recorded"
      <4>1. PICK o \in ReviewedOutcomes : Settle(o)
        BY <1>6, <3>1, <3>2 DEF SettleReviewed
      <4>2. o \in Outcomes
        BY DEF Outcomes
      <4> QED  BY <3>1, <4>1, <4>2, SettlesLast
    <3>3. CASE attempts[Last] # "patch_recorded"
      BY <1>6, <2>1, <3>1, <3>3 DEF SettleReviewed
    <3> QED  BY <3>2, <3>3
  <2>2. Len(attempts') = Len(attempts)
    BY <1>6, SettlesLast DEF SettleReviewed, Outcomes
  <2>3. patches # << >> /\ UNCHANGED patches
    BY <1>6 DEF SettleReviewed
  <2> QED  BY <2>1, <2>2, <2>3 DEF IsLatest, Last
<1>7. CASE BeginApply \/ Write \/ ApplyCorrupt \/ SaveAccepted \/ RefundAttempt
          \/ Recovered \/ Reopen \/ (\E v \in Values : SiblingEdit(v))
          \/ Restart \/ Resume \/ Crash
  BY <1>7
     DEF BeginApply, Write, ApplyCorrupt, SaveAccepted, RefundAttempt,
         Recovered, Reopen, SiblingEdit, SiblingWrites, Restart, Resume, Crash, IsLatest, Last
<1>8. ASSUME NEW n \in DOMAIN attempts, CloseAttempt(n)
      PROVE  ReviewedIsLatest'
  <2>1. /\ n = Last /\ attempts[n] = "open"
        /\ UNCHANGED <<patches, state>> /\ pc' = "refund"
    BY <1>8 DEF CloseAttempt, OpenAttempts, CallIsOpen
  <2> QED  BY <2>1 DEF IsLatest
<1>9. CASE UNCHANGED vars
  BY <1>9 DEF IsLatest, Last
<1> QED
  BY <1>1, <1>2, <1>3, <1>4, <1>5, <1>6, <1>7, <1>8, <1>9
    
       DEF Next, Worker, Unpatched, WriteStep, ReviewStep, ApplyStep, Recovery,
           Others

(* Judge finds a recorded proposal, and a recorded attempt never goes back to
   one that may be refunded.                                               *)
LEMMA JudgedStep == IInv /\ [Next]_vars => JudgedWasRecorded'
<1> SUFFICES ASSUME IInv, [Next]_vars PROVE JudgedWasRecorded'
  OBVIOUS
<1> USE DEF IInv, JudgedWasRecorded, ReviewedOutcomes, Last, Writable, Claim,
            vars, issue, history, world, past, Fresh, worker, Save, Idle, WorkerDown,
            JobFailed
<1>1. CASE Exhausted \/ BlockVanished \/ Superseded \/ MarkReady
  BY <1>1 DEF Exhausted, BlockVanished, Superseded, MarkReady
<1>2. CASE (\E c \in Corroborations : AuditBlind(c)) \/ AwaitRuling
          \/ ConcludeAudit \/ ConcludeRuling
          \/ (\E r \in Rulings : Adjudicate(r))
  BY <1>2 DEF AuditBlind, AwaitRuling, ConcludeAudit, ConcludeRuling, Adjudicate
<1>3. CASE Reserve \/ SaveAnswer \/ (\E v \in Values : InsertPatch(v))
          \/ (\E v \in Values : InsertMechanical(v)) \/ SaveProposed
          \/ SaveMechanical
  BY <1>3
     DEF Reserve, SaveAnswer, InsertPatch, InsertMechanical, SaveProposed,
         SaveMechanical
<1>4. CASE InsertAttempt
  <2>1. /\ DOMAIN attempts \subseteq DOMAIN attempts'
        /\ \A i \in DOMAIN attempts : attempts'[i] = attempts[i]
    BY <1>4, AttemptInserted, AttemptTypes
  <2> QED  BY <1>4, <2>1 DEF InsertAttempt
<1>5. CASE WriterAnswers
  <2>1. Last > 0 /\ attempts[Last] = "open" /\ \E o \in Outcomes : Settle(o)
    BY <1>5 DEF WriterAnswers, Answer, CallIsOpen, Outcomes
  <2>2. /\ DOMAIN attempts' = DOMAIN attempts
        /\ \A i \in DOMAIN attempts : i # Last => attempts'[i] = attempts[i]
    BY <2>1, SettlesLast
  <2> QED  BY <1>5, <2>1, <2>2 DEF WriterAnswers, Answer
<1>6. CASE LinkPatch
  <2>1. /\ DOMAIN attempts' = DOMAIN attempts /\ attempts'[Last] = "patch_recorded"
        /\ \A i \in DOMAIN attempts : i # Last => attempts'[i] = attempts[i]
    BY <1>6, SettlesLast DEF LinkPatch, CallIsOpen, Outcomes
  <2> QED  BY <1>6, <2>1 DEF LinkPatch
<1>7. CASE (\E m \in {"single", "batch"} : BeginReview(m)) \/ ReviewVanished
          \/ ReviewCorrupt \/ Approve \/ ApproveInPlace \/ RollBack
          \/ SaveDecision
  BY <1>7
     DEF BeginReview, ReviewVanished, ReviewCorrupt, Approve, ApproveInPlace,
         RollBack, SaveDecision
<1>8. ASSUME NEW d \in Decisions, Judge(d)
      PROVE  JudgedWasRecorded'
  <2>1. hand \in DOMAIN patches /\ IsLatest(hand)
    BY <1>8, HandHolds DEF Judge, PositionMeans, Reviewing
  <2>2. /\ Held.no = Last
        /\ attempts[Last] \in ReviewedOutcomes \cup {"patch_recorded"}
    BY <1>8, <2>1 DEF Judge, PositionMeans, Reviewing, ReviewedIsLatest, Held
  <2>3. Last \in DOMAIN attempts
    BY <2>1, <2>2, PatchTypes, AttemptTypes DEF Held
  <2>4. /\ DOMAIN verdict' = DOMAIN verdict /\ UNCHANGED attempts
        /\ \A n \in DOMAIN verdict : n # Last => verdict'[n] = verdict[n]
    BY <1>8, <2>2 DEF Judge
  <2> QED  BY <2>2, <2>3, <2>4
<1>9. CASE SettleReviewed
  <2>1. CASE Last > 0 /\ attempts[Last] = "patch_recorded"
    <3>1. PICK o \in ReviewedOutcomes : Settle(o)
      BY <1>9, <2>1 DEF SettleReviewed
    <3>2. o \in Outcomes
      BY DEF Outcomes
    <3>3. /\ DOMAIN attempts' = DOMAIN attempts /\ attempts'[Last] = o
          /\ \A i \in DOMAIN attempts : i # Last => attempts'[i] = attempts[i]
      BY <2>1, <3>1, <3>2, SettlesLast
    <3> QED  BY <1>9, <3>3 DEF SettleReviewed
  <2>2. CASE ~(Last > 0 /\ attempts[Last] = "patch_recorded")
    BY <1>9, <2>2 DEF SettleReviewed
  <2> QED  BY <2>1, <2>2
<1>10. CASE BeginApply \/ Write \/ ApplyCorrupt \/ SaveAccepted \/ RefundAttempt
          \/ Recovered \/ Reopen \/ (\E v \in Values : SiblingEdit(v))
          \/ Restart \/ Resume \/ Crash
  BY <1>10
     DEF BeginApply, Write, ApplyCorrupt, SaveAccepted, RefundAttempt,
         Recovered, Reopen, SiblingEdit, SiblingWrites, Restart, Resume, Crash
<1>11. ASSUME NEW n \in DOMAIN attempts, CloseAttempt(n)
      PROVE  JudgedWasRecorded'
  <2>1. /\ attempts[n] = "open" /\ DOMAIN attempts' = DOMAIN attempts
        /\ \A i \in DOMAIN attempts : i # n => attempts'[i] = attempts[i]
    BY <1>11, SettlesAttempt DEF CloseAttempt, OpenAttempts, Outcomes
  <2> QED  BY <1>11, <2>1 DEF CloseAttempt
<1>12. CASE UNCHANGED vars
  BY <1>12
<1> QED
  BY <1>1, <1>2, <1>3, <1>4, <1>5, <1>6, <1>7, <1>8, <1>9, <1>10, <1>11,
     <1>12
    
       DEF Next, Worker, Unpatched, WriteStep, ReviewStep, ApplyStep, Recovery,
           Others

(* Approve passes on the verdict of the review.                            *)
LEMMA AppliedStep == IInv /\ [Next]_vars => AppliedWasAccepted'
<1> SUFFICES ASSUME IInv, [Next]_vars PROVE AppliedWasAccepted'
  OBVIOUS
<1> USE DEF IInv, AppliedWasAccepted, ReviewedOutcomes, PositionMeans,
            Reviewing, Writable, Claim, Answer, NeedsApply, NeedsWriter,
            NeedsReview, TerminalIssueStates, vars, issue, history, world, past,
            Fresh, worker, Save, Idle, WorkerDown, JobFailed
<1>1. CASE Exhausted \/ BlockVanished \/ Superseded \/ MarkReady
  BY <1>1 DEF Exhausted, BlockVanished, Superseded, MarkReady, IsLatest
<1>2. CASE (\E c \in Corroborations : AuditBlind(c)) \/ AwaitRuling
          \/ ConcludeAudit \/ ConcludeRuling
          \/ (\E r \in Rulings : Adjudicate(r))
  BY <1>2
     DEF AuditBlind, AwaitRuling, ConcludeAudit, ConcludeRuling, Adjudicate,
         IsLatest
<1>3. CASE Reserve \/ InsertAttempt \/ WriterAnswers \/ SaveAnswer
          \/ (\E v \in Values : InsertPatch(v))
          \/ (\E v \in Values : InsertMechanical(v)) \/ LinkPatch
          \/ SaveProposed
  BY <1>3
     DEF Reserve, InsertAttempt, WriterAnswers, SaveAnswer, InsertPatch,
         InsertMechanical, LinkPatch, SaveProposed, IsLatest
<1>4. CASE SaveMechanical
  <2>1. patches # << >> /\ \A i \in DOMAIN patches : patches[i].by = "mechanical"
    BY <1>4, PatchTypes DEF SaveMechanical, OpenIsFresh, TypeOK
  <2> QED  BY <1>4, <2>1 DEF SaveMechanical
<1>5. CASE (\E m \in {"single", "batch"} : BeginReview(m))
          \/ (\E d \in Decisions : Judge(d)) \/ ReviewVanished \/ ReviewCorrupt
          \/ SettleReviewed \/ ApproveInPlace \/ RollBack \/ SaveDecision
  BY <1>5
     DEF BeginReview, Judge, ReviewVanished, ReviewCorrupt, SettleReviewed,
         ApproveInPlace, RollBack, SaveDecision, IsLatest
<1>6. CASE Approve
  <2>1. /\ hand \in DOMAIN patches /\ IsLatest(hand) /\ patches # << >>
    BY <1>6, HandHolds, PatchTypes DEF Approve
  <2>2. /\ verdict[Held.no] \in Verdicts
        /\ verdict[Held.no].decision = "accept" /\ verdict[Held.no].patch = hand
    <3>1. /\ Held.no \in AttemptNumbers \cup {1} /\ verdict[Held.no] # NoVerdict
          /\ verdict[Held.no].decision = "accept"
      BY <1>6, <2>1, PatchTypes DEF Approve, Decision, Held, VerdictsName
    <3>2. /\ verdict[Held.no] \in Verdicts /\ Held.no \in DOMAIN verdict
      BY <3>1 DEF TypeOK
    <3>3. /\ verdict[Held.no].patch \in DOMAIN patches
          /\ patches[verdict[Held.no].patch].no = Held.no
          /\ verdict[Held.no].patch <= hand
      BY <2>1, <3>1, <3>2 DEF VerdictsName, Held
    <3>4. hand <= verdict[Held.no].patch
      BY <2>1, <3>3, PatchTypes DEF IsLatest, Held
    <3>5. hand \in Nat /\ verdict[Held.no].patch \in Nat
      BY <2>1, <3>3, PatchTypes
    <3> QED  BY <3>1, <3>2, <3>3, <3>4, <3>5
  <2>3. verdict[Held.no] = [decision |-> "accept", patch |-> hand]
    BY <2>2 DEF Verdicts
  <2>4. Held.by = "writer" => Held.no = Last /\ attempts[Last] \in ReviewedOutcomes
    BY <1>6, <2>1 DEF Approve, Held, ReviewedIsLatest
  <2>5. ASSUME NEW i \in DOMAIN patches, IsLatest(i), patches[i].by = "writer"
        PROVE  /\ verdict[patches[i].no] = [decision |-> "accept", patch |-> i]
               /\ attempts[patches[i].no] \in ReviewedOutcomes
    <3>1. i = hand
      BY <2>1, <2>5, LatestUnique
    <3> QED  BY <2>3, <2>4, <2>5, <3>1 DEF Held
  <2>6. UNCHANGED <<patches, verdict, attempts>>
    BY <1>6 DEF Approve
  <2> QED  BY <2>1, <2>5, <2>6 DEF IsLatest
<1>7. CASE BeginApply \/ Write \/ ApplyCorrupt \/ SaveAccepted \/ RefundAttempt
          \/ Recovered \/ Reopen \/ (\E v \in Values : SiblingEdit(v))
          \/ Restart \/ Resume \/ Crash
  BY <1>7
     DEF BeginApply, Write, ApplyCorrupt, SaveAccepted, RefundAttempt,
         Recovered, Reopen, SiblingEdit, SiblingWrites, Restart, Resume, Crash, IsLatest
<1>8. ASSUME NEW n \in DOMAIN attempts, CloseAttempt(n)
      PROVE  AppliedWasAccepted'
  <2>1. /\ attempts[n] = "open" /\ UNCHANGED <<patches, state, verdict>>
        /\ \A i \in DOMAIN attempts : i # n => attempts'[i] = attempts[i]
        /\ DOMAIN attempts' = DOMAIN attempts
        /\ attempts' = [attempts EXCEPT ![n] = "interrupted"]
    BY <1>8, SettlesAttempt DEF CloseAttempt, OpenAttempts, Outcomes
  <2>2. \A k : attempts[k] \in ReviewedOutcomes => attempts'[k] \in ReviewedOutcomes
    BY <2>1
  <2> QED  BY <2>1, <2>2 DEF IsLatest
<1>9. CASE UNCHANGED vars
  BY <1>9 DEF IsLatest
<1> QED
  BY <1>1, <1>2, <1>3, <1>4, <1>5, <1>6, <1>7, <1>8, <1>9
    
       DEF Next, Worker, Unpatched, WriteStep, ReviewStep, ApplyStep, Recovery,
           Others

-----------------------------------------------------------------------------
(* What the working copy holds.                                             *)

(* Only the worker moves the cells while a patch is in flight, to one of the
   patch's two sides.                                                      *)
LEMMA InPlaceStep == IInv /\ [Next]_vars => PatchInPlace'
<1> SUFFICES ASSUME IInv, [Next]_vars PROVE PatchInPlace'
  OBVIOUS
<1> USE DEF IInv, PatchInPlace, InFlight, Tied, PositionMeans, Reviewing,
            Writable, Claim, Answer, CanAttempt, NeedsApply, NeedsWriter,
            NeedsReview, TerminalIssueStates, vars, issue, history, world, past,
            Fresh, worker, Save, Idle, WorkerDown, JobFailed
<1>1. CASE Exhausted \/ BlockVanished \/ Superseded \/ MarkReady
  BY <1>1 DEF Exhausted, BlockVanished, Superseded, MarkReady
<1>2. CASE (\E c \in Corroborations : AuditBlind(c)) \/ AwaitRuling
          \/ ConcludeAudit \/ ConcludeRuling
          \/ (\E r \in Rulings : Adjudicate(r))
  BY <1>2 DEF AuditBlind, AwaitRuling, ConcludeAudit, ConcludeRuling, Adjudicate
<1>3. CASE Reserve \/ InsertAttempt \/ WriterAnswers \/ SaveAnswer \/ LinkPatch
          \/ SaveProposed \/ SaveMechanical
  BY <1>3
     DEF Reserve, InsertAttempt, WriterAnswers, SaveAnswer, LinkPatch,
         SaveProposed, SaveMechanical
<1>4. ASSUME NEW v \in Values, InsertPatch(v)
      PROVE  PatchInPlace'
  <2>1. /\ Len(patches') = Len(patches) + 1 /\ Len(patches) \in Nat
        /\ patches'[Len(patches')].before = book
    BY <1>4, WriterRow, PatchInserted, PatchTypes DEF InsertPatch
  <2>2. patches' # << >> /\ book' = book
    BY <1>4, <2>1 DEF InsertPatch, TypeOK
  <2> QED  BY <2>1, <2>2
<1>5. ASSUME NEW v \in Values, InsertMechanical(v)
      PROVE  PatchInPlace'
  <2>1. /\ Len(patches') = Len(patches) + 1 /\ Len(patches) \in Nat
        /\ patches'[Len(patches')].before = book
    BY <1>5, MechanicalRow, PatchInserted, PatchTypes DEF InsertMechanical
  <2>2. patches' # << >> /\ book' = book
    BY <1>5, <2>1 DEF InsertMechanical, TypeOK
  <2> QED  BY <2>1, <2>2
<1>6. CASE (\E m \in {"single", "batch"} : BeginReview(m))
          \/ (\E d \in Decisions : Judge(d)) \/ ReviewVanished \/ ReviewCorrupt
          \/ SettleReviewed \/ Approve \/ ApproveInPlace \/ SaveDecision
  BY <1>6
     DEF BeginReview, Judge, ReviewVanished, ReviewCorrupt, SettleReviewed,
         Approve, ApproveInPlace, SaveDecision
<1>7. CASE RollBack
  <2>1. Tied \/ hand = Len(patches)
    BY <1>7, LatestIsLast DEF RollBack
  <2>2. patches # << >> /\ book' = patches[hand].before /\ UNCHANGED patches
    BY <1>7 DEF RollBack, Held, ReviewedIsLatest
  <2> QED  BY <2>1, <2>2
<1>8. CASE BeginApply \/ ApplyCorrupt \/ SaveAccepted
          \/ (\E n \in DOMAIN attempts : CloseAttempt(n)) \/ RefundAttempt
          \/ Recovered \/ Reopen \/ Restart \/ Crash
  BY <1>8
     DEF BeginApply, ApplyCorrupt, SaveAccepted, CloseAttempt, RefundAttempt,
         Recovered, Reopen, Restart, Crash
<1>11. CASE \E v \in Values : SiblingEdit(v)
  <2>1. UNCHANGED <<state, patches, carried, pc>> /\ pc = "idle"
    BY <1>11 DEF SiblingEdit, SiblingWrites
  <2>2. state \in InFlight => carried /\ overtaken'
    BY <1>11 DEF SiblingEdit, SiblingWrites
  <2> QED  BY <2>1, <2>2
<1>12. CASE Resume
  <2>1. UNCHANGED <<state, patches, book, overtaken>> /\ pc' = "recover"
    BY <1>12 DEF Resume
  <2>2. state \in InFlight => carried'
    BY <1>12 DEF Resume
  <2> QED  BY <2>1, <2>2
<1>9. CASE Write
  <2>1. Tied \/ hand = Len(patches)
    BY <1>9, LatestIsLast DEF Write
  <2>2. patches # << >> /\ book' = patches[hand].after /\ UNCHANGED patches
    BY <1>9 DEF Write, Held, AppliedWasAccepted
  <2> QED  BY <2>1, <2>2
<1>10. CASE UNCHANGED vars
  BY <1>10
<1> QED
  BY <1>1, <1>2, <1>3, <1>4, <1>5, <1>6, <1>7, <1>8, <1>9, <1>10, <1>11,
     <1>12
    
       DEF Next, Worker, Unpatched, WriteStep, ReviewStep, ApplyStep, Recovery,
           Others

(* A job that failed stays where it is.                                    *)
LEMMA DownStep == IInv /\ [Next]_vars => FailedIsDown'
<1> SUFFICES ASSUME IInv, [Next]_vars PROVE FailedIsDown'
  OBVIOUS
<1> USE DEF IInv, FailedIsDown, Writable, Claim, Answer, vars, issue, history,
            world, past, Fresh, worker, Save, Idle, WorkerDown, JobFailed
<1>1. CASE Unpatched
  BY <1>1 DEF Unpatched, Exhausted, BlockVanished, Superseded, MarkReady, AuditBlind,
              AwaitRuling, ConcludeAudit, ConcludeRuling, Adjudicate
<1>2. CASE WriteStep
  BY <1>2 DEF WriteStep, Reserve, InsertAttempt, WriterAnswers, SaveAnswer, InsertPatch,
              InsertMechanical, LinkPatch, SaveProposed, SaveMechanical
<1>3. CASE ReviewStep
  BY <1>3 DEF ReviewStep, BeginReview, Judge, ReviewVanished, ReviewCorrupt,
              SettleReviewed, Approve, ApproveInPlace, RollBack, SaveDecision
<1>4. CASE ApplyStep
  BY <1>4 DEF ApplyStep, BeginApply, Write, ApplyCorrupt, SaveAccepted
<1>5. CASE Recovery \/ Others \/ Restart \/ Resume \/ Crash
  BY <1>5 DEF Recovery, CloseAttempt, RefundAttempt, Recovered, Others, Reopen,
              SiblingEdit, SiblingWrites, Restart, Resume, Crash
<1>6. CASE UNCHANGED vars
  BY <1>6
<1> QED  BY <1>1, <1>2, <1>3, <1>4, <1>5, <1>6 DEF Next, Worker

(* Neither review nor apply finds a mixture.                               *)
LEMMA MixedStep == IInv /\ [Next]_vars => NeverMixed'
<1> SUFFICES ASSUME IInv, [Next]_vars PROVE NeverMixed'
  OBVIOUS
<1> USE DEF IInv, NeverMixed, FailedIsDown, Tied, PositionMeans, Reviewing, Writable, Claim,
            Answer, vars, issue, history, world, past, Fresh, worker, Save, Idle,
            WorkerDown, JobFailed
<1>1. CASE Exhausted \/ BlockVanished \/ Superseded \/ MarkReady
  BY <1>1 DEF Exhausted, BlockVanished, Superseded, MarkReady
<1>2. CASE (\E c \in Corroborations : AuditBlind(c)) \/ AwaitRuling
          \/ ConcludeAudit \/ ConcludeRuling
          \/ (\E r \in Rulings : Adjudicate(r))
  BY <1>2 DEF AuditBlind, AwaitRuling, ConcludeAudit, ConcludeRuling, Adjudicate
<1>3. CASE Reserve \/ InsertAttempt \/ WriterAnswers \/ SaveAnswer \/ LinkPatch
          \/ SaveProposed \/ SaveMechanical
  BY <1>3
     DEF Reserve, InsertAttempt, WriterAnswers, SaveAnswer, LinkPatch,
         SaveProposed, SaveMechanical
<1>4. ASSUME NEW v \in Values, InsertPatch(v)
      PROVE  NeverMixed'
  <2>1. /\ DOMAIN patches \subseteq DOMAIN patches' /\ job' = job
        /\ \A i \in DOMAIN patches : patches'[i] = patches[i]
    BY <1>4, WriterRow, PatchInserted, PatchTypes DEF InsertPatch, world
  <2> QED  BY <1>4, <2>1 DEF InsertPatch
<1>5. ASSUME NEW v \in Values, InsertMechanical(v)
      PROVE  NeverMixed'
  <2>1. /\ DOMAIN patches \subseteq DOMAIN patches' /\ job' = job
        /\ \A i \in DOMAIN patches : patches'[i] = patches[i]
    BY <1>5, MechanicalRow, PatchInserted, PatchTypes
       DEF InsertMechanical, world
  <2> QED  BY <1>5, <2>1 DEF InsertMechanical
<1>6. CASE (\E m \in {"single", "batch"} : BeginReview(m))
          \/ (\E d \in Decisions : Judge(d)) \/ ReviewVanished
          \/ SettleReviewed \/ Approve \/ ApproveInPlace \/ RollBack
          \/ SaveDecision
  BY <1>6
     DEF BeginReview, Judge, ReviewVanished, SettleReviewed, Approve,
         ApproveInPlace, RollBack, SaveDecision
<1>7. CASE ReviewCorrupt
  <2>1. SUFFICES ASSUME ~Tied, ~(carried /\ overtaken) PROVE FALSE
    BY <1>7 DEF ReviewCorrupt
  <2>2. hand = Len(patches)
    BY <1>7, <2>1, LatestIsLast DEF ReviewCorrupt
  <2>3. book \in {patches[hand].before, patches[hand].after}
    BY <1>7, <2>1, <2>2
       DEF ReviewCorrupt, PatchInPlace, InFlight, NeedsReview, NeedsApply
  <2> QED  BY <1>7, <2>3 DEF ReviewCorrupt, Mixed, Before, After, Held
<1>8. CASE BeginApply \/ Write \/ SaveAccepted
          \/ (\E n \in DOMAIN attempts : CloseAttempt(n)) \/ RefundAttempt
          \/ Recovered \/ Reopen \/ (\E v \in Values : SiblingEdit(v))
          \/ Restart \/ Resume \/ Crash
  BY <1>8
     DEF BeginApply, Write, SaveAccepted, CloseAttempt, RefundAttempt,
         Recovered, Reopen, SiblingEdit, SiblingWrites, Restart, Resume, Crash
<1>9. CASE ApplyCorrupt
  <2>1. SUFFICES ASSUME ~Tied, ~(carried /\ overtaken) PROVE FALSE
    BY <1>9 DEF ApplyCorrupt
  <2>2. hand = Len(patches)
    BY <1>9, <2>1, LatestIsLast DEF ApplyCorrupt
  <2>3. book \in {patches[hand].before, patches[hand].after}
    BY <1>9, <2>1, <2>2
       DEF ApplyCorrupt, PatchInPlace, InFlight, NeedsReview, NeedsApply
  <2> QED  BY <1>9, <2>3 DEF ApplyCorrupt, Mixed, Before, After, Held
<1>10. CASE UNCHANGED vars
  BY <1>10
<1> QED
  BY <1>1, <1>2, <1>3, <1>4, <1>5, <1>6, <1>7, <1>8, <1>9, <1>10
    
       DEF Next, Worker, Unpatched, WriteStep, ReviewStep, ApplyStep, Recovery,
           Others

-----------------------------------------------------------------------------
(* Claims.                                                                  *)

(* Every way out of OPEN towards the Writer goes by an audit, a ruling or a
   rediscovery.                                                            *)
LEMMA HeardStep == IInv /\ [Next]_vars => TakenUpWasHeard'
<1> SUFFICES ASSUME IInv, [Next]_vars PROVE TakenUpWasHeard'
  OBVIOUS
<1> USE DEF IInv, TakenUpWasHeard, ClaimHeard, PositionMeans, OpenIsFresh,
            Reviewing, NeedsApply, NeedsWriter, NeedsReview,
            TerminalIssueStates, Writable, Claim, Untouched, vars, issue,
            history, world, past, Fresh, worker, Save, Idle, WorkerDown, JobFailed
<1>1. CASE Exhausted \/ BlockVanished \/ Superseded \/ MarkReady
  BY <1>1 DEF Exhausted, BlockVanished, Superseded, MarkReady
<1>2. CASE (\E c \in Corroborations : AuditBlind(c)) \/ AwaitRuling
          \/ ConcludeAudit \/ ConcludeRuling
          \/ (\E r \in Rulings : Adjudicate(r))
  BY <1>2 DEF AuditBlind, AwaitRuling, ConcludeAudit, ConcludeRuling, Adjudicate
<1>3. CASE Reserve \/ InsertAttempt \/ SaveAnswer
          \/ (\E v \in Values : InsertPatch(v))
          \/ (\E v \in Values : InsertMechanical(v)) \/ LinkPatch
          \/ SaveProposed \/ SaveMechanical
  BY <1>3
     DEF Reserve, InsertAttempt, SaveAnswer, InsertPatch, InsertMechanical,
         LinkPatch, SaveProposed, SaveMechanical
<1>4. CASE WriterAnswers
  BY <1>4 DEF WriterAnswers, Answer
<1>5. CASE (\E m \in {"single", "batch"} : BeginReview(m))
          \/ (\E d \in Decisions : Judge(d)) \/ ReviewVanished \/ ReviewCorrupt
          \/ Approve \/ ApproveInPlace \/ RollBack \/ SaveDecision
  BY <1>5
     DEF BeginReview, Judge, ReviewVanished, ReviewCorrupt, Approve,
         ApproveInPlace, RollBack, SaveDecision
<1>6. CASE SettleReviewed
  BY <1>6 DEF SettleReviewed, Settle
<1>7. CASE BeginApply \/ Write \/ ApplyCorrupt \/ SaveAccepted \/ RefundAttempt
          \/ Recovered \/ (\E v \in Values : SiblingEdit(v)) \/ Restart \/ Resume
          \/ Resume \/ Crash
  BY <1>7
     DEF BeginApply, Write, ApplyCorrupt, SaveAccepted, RefundAttempt,
         Recovered, SiblingEdit, SiblingWrites, Restart, Resume, Crash
<1>8. ASSUME NEW n \in DOMAIN attempts, CloseAttempt(n)
      PROVE  TakenUpWasHeard'
  <2>1. attempts # << >>
    BY AttemptTypes
  <2> QED  BY <1>8, <2>1 DEF CloseAttempt
<1>9. CASE Reopen
  BY <1>9 DEF Reopen, TypeOK
<1>10. CASE UNCHANGED vars
  BY <1>10
<1> QED
  BY <1>1, <1>2, <1>3, <1>4, <1>5, <1>6, <1>7, <1>8, <1>9, <1>10
    
       DEF Next, Worker, Unpatched, WriteStep, ReviewStep, ApplyStep, Recovery,
           Others

-----------------------------------------------------------------------------
(* The invariant is inductive.                                              *)

(* The initial states satisfy it.                                          *)
LEMMA InitInv == Init => IInv
<1> SUFFICES ASSUME Init PROVE IInv
  OBVIOUS
<1>1. attempts = << >> /\ patches = << >> /\ Len(attempts) = 0 /\ Len(patches) = 0
  BY EmptySeq DEF Init
<1>2. DOMAIN attempts = {} /\ DOMAIN patches = {}
  BY <1>1
<1>0. carried \in BOOLEAN /\ overtaken \in BOOLEAN
  BY DEF Init
<1>3. TypeOK
  BY <1>0, <1>1, RepairAssumption, EmptySeq
     DEF Init, TypeOK, IssueState, LiveIssueStates, NeedsWriter, Positions
<1>4. Cardinality(Refundable) = 0
  BY <1>2, FS_EmptySet DEF Refundable
<1>5. AttemptsPaid /\ RefundsPaid /\ CallIsOpen /\ NeverMixed /\ FailedIsDown
  BY <1>1, <1>2, <1>4
     DEF Init, AttemptsPaid, RefundsPaid, RefundOwed, CallIsOpen, NeverMixed,
         FailedIsDown
<1>6. PositionMeans /\ OpenIsFresh /\ TakenUpWasHeard
  BY <1>1, <1>2 DEF Init, PositionMeans, OpenIsFresh, TakenUpWasHeard, Reviewing
<1>7. PatchesNumbered /\ VerdictsName
  BY <1>1, <1>2 DEF Init, PatchesNumbered, VerdictsName
<1>9. JudgedWasRecorded
  BY <1>1 DEF Init, JudgedWasRecorded
<1>8. ReviewedIsLatest /\ AppliedWasAccepted /\ PatchInPlace
  BY DEF Init, ReviewedIsLatest, AppliedWasAccepted, PatchInPlace, InFlight,
         NeedsReview, NeedsApply
<1> QED  BY <1>3, <1>5, <1>6, <1>7, <1>8, <1>9 DEF IInv

(* Every step keeps it.                                                    *)
LEMMA StepInv == IInv /\ [Next]_vars => IInv'
  BY TypeStep, PositionStep, FreshStep, PaidStep, RefundsStep, CallStep,
       NumberedStep,
     VerdictStep, ReviewedStep, JudgedStep, AppliedStep, InPlaceStep,
     MixedStep, DownStep, HeardStep
     DEF IInv

(* The inductive invariant holds in every reachable state.                   *)
THEOREM Invariance == Spec => []IInv
  BY InitInv, StepInv, PTL DEF Spec

-----------------------------------------------------------------------------
(* What the invariant says of the code.                                     *)

(* TypeOK, of the whole specification.                                      *)
THEOREM TypeCorrect == Spec => []TypeOK
<1>1. IInv => TypeOK
  BY DEF IInv
<1> QED  BY <1>1, Invariance, PTL

(* CallsBounded (state_machine.IssueMachine): however often calls are lost,
   refunded and crashed through, one issue costs at most the attempts and the
   refunds it is allowed.                                                   *)
THEOREM WriterCallsBounded == Spec => []CallsBounded
<1>1. IInv => CallsBounded
  <2> SUFFICES ASSUME IInv PROVE CallsBounded
    OBVIOUS
  <2>1. Len(attempts) <= used + retries /\ Len(attempts) \in Nat
    BY AttemptTypes DEF IInv, AttemptsPaid, Last, TypeOK
  <2> QED  BY <2>1, RepairAssumption DEF IInv, TypeOK, CallsBounded
<1> QED  BY <1>1, Invariance, PTL

(* RefundsEarned (orchestrator.recover_attempts and IssueMachine.refund): a
   lost call is refunded once, whichever commit a crash falls between.      *)
THEOREM OneRefundPerCall == Spec => []RefundsEarned
<1>1. IInv => RefundsEarned
  BY RefundableFinite DEF IInv, RefundsPaid, RefundsEarned, TypeOK
<1> QED  BY <1>1, Invariance, PTL

(* OpenAttemptIsACall (orchestrator.recover_attempts): what recovery closes
   is the call of a dead worker.                                            *)
THEOREM RecoveryClosesCalls == Spec => []OpenAttemptIsACall
<1>1. IInv => OpenAttemptIsACall
  BY DEF IInv, CallIsOpen, OpenAttemptIsACall, OpenAttempts
<1> QED  BY <1>1, Invariance, PTL

(* AppliedIsJudged (council._apply after council._review): no patch of the
   Writer is written that a verdict on that very patch did not accept.      *)
THEOREM OnlyJudgedIsApplied == Spec => []AppliedIsJudged
<1>1. IInv => AppliedIsJudged
  <2> SUFFICES ASSUME IInv, state \in NeedsApply PROVE AppliedIsJudged
    BY DEF AppliedIsJudged
  <2>1. IsLatest(Latest)
    BY LatestExists DEF IInv, AppliedWasAccepted
  <2> QED  BY <2>1
       DEF IInv, AppliedWasAccepted, AppliedIsJudged, IsLatest, ReviewedOutcomes
<1> QED  BY <1>1, Invariance, PTL

(* ClaimIsCorroborated (council._review_unpatched_issue): a model's claim
   alone never reaches the Writer.                                          *)
THEOREM OnlyHeardClaims == Spec => []ClaimIsCorroborated
<1>1. IInv => ClaimIsCorroborated
  BY DEF IInv, TakenUpWasHeard, ClaimHeard, ClaimIsCorroborated
<1> QED  BY <1>1, Invariance, PTL

(* NeverMixed (council._patch_position): the workbook is found neither before
   nor after a patch only when two patches carry one number, or a resumed
   job let a sibling be written under the one it left behind.               *)
THEOREM MixedOnlyWhenTied == Spec => []NeverMixed
<1>1. IInv => NeverMixed
  BY DEF IInv
<1> QED  BY <1>1, Invariance, PTL
(* ReviewerNotSilenced (council._write): an issue none of whose attempts counts
   any more was never judged, since only attempts without a verdict are
   refunded; so a silent rule never closes one a reviewer spoke on.         *)
LEMMA RefundedIsUnjudged ==
    ASSUME IInv, used = 0
    PROVE  Judged = {}
<1>1. /\ Last <= Cardinality(Refundable) /\ Last \in Nat
      /\ Cardinality(Refundable) \in Nat /\ DOMAIN attempts = 1..Last
  BY RefundableFinite, AttemptTypes, RepairAssumption
     DEF IInv, AttemptsPaid, RefundsPaid, Last, TypeOK
<1>2. /\ IsFiniteSet(DOMAIN attempts) /\ Cardinality(DOMAIN attempts) = Last
      /\ Refundable \in SUBSET DOMAIN attempts
  <2>1. IsFiniteSet(1..Last) /\ Cardinality(1..Last) = Last
    BY <1>1, FS_Interval
  <2> QED  BY <1>1, <2>1 DEF Refundable
<1>3. Refundable = DOMAIN attempts
  BY <1>1, <1>2, FS_Subset
<1> QED  BY <1>3
     DEF IInv, JudgedWasRecorded, Judged, Refundable, ReviewedOutcomes

(* Once a reviewer asked for a revision of its repair, an issue is never closed
   because its rule fell silent, whatever refunds came in between
   (council.py: _repair).                                                   *)
THEOREM SilenceNeedsNoVerdict == Spec => ReviewerNotSilenced
<1>1. IInv /\ [Next]_vars =>
          [state' = "superseded" /\ state \in NeedsWriter => Judged = {}]_vars
  <2> SUFFICES ASSUME IInv, [Next]_vars, state' = "superseded",
       state \in NeedsWriter
               PROVE  Judged = {}
    OBVIOUS
  <2>1. SUFFICES used = 0
    BY RefundedIsUnjudged
  <2> USE DEF IInv, NeedsWriter, OpenIsFresh, PositionMeans, Reviewing, Save,
              Idle, WorkerDown, JobFailed, Writable, Claim, Answer, Untouched,
              vars, issue, history, world, past, Fresh, worker
  <2>2. CASE Unpatched
    BY <2>2
       DEF Unpatched, Exhausted, BlockVanished, Superseded, MarkReady,
           AuditBlind,
           AwaitRuling, ConcludeAudit, ConcludeRuling, Adjudicate
  <2>3. CASE WriteStep
    BY <2>3 DEF WriteStep, Reserve, InsertAttempt, WriterAnswers, SaveAnswer,
           InsertPatch, InsertMechanical, LinkPatch, SaveProposed, SaveMechanical
  <2>4. CASE ReviewStep
    BY <2>4 DEF ReviewStep, BeginReview, Judge, ReviewVanished, ReviewCorrupt,
           SettleReviewed, Approve, ApproveInPlace, RollBack, SaveDecision
  <2>5. CASE ApplyStep
    BY <2>5 DEF ApplyStep, BeginApply, Write, ApplyCorrupt, SaveAccepted
  <2>6. CASE Recovery \/ Others \/ Restart \/ Resume \/ Crash
    BY <2>6
       DEF Recovery, CloseAttempt, RefundAttempt, Recovered, Others, Reopen,
           SiblingEdit, SiblingWrites, Restart, Resume, Crash
  <2>7. CASE UNCHANGED vars
    BY <2>7
  <2> QED  BY <2>2, <2>3, <2>4, <2>5, <2>6, <2>7 DEF Next, Worker
<1> QED  BY <1>1, Invariance, PTL DEF Spec, ReviewerNotSilenced
=============================================================================
