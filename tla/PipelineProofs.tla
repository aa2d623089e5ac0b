--------------------------- MODULE PipelineProofs ---------------------------
(***************************************************************************)
(* What the phases guarantee for every workbook, every set of findings and *)
(* every budget: what a success covers, that no defect is laundered, that  *)
(* a contested repair is not a success, and that an uninterrupted run      *)
(* leaves no issue behind.                                                 *)
(***************************************************************************)
EXTENDS Pipeline, TLAPS

-----------------------------------------------------------------------------
(* The inductive invariant.                                                 *)

(* Where the worker is in its step.                                         *)
HandMeans ==
    /\ pc = "found" => state \in {"ingesting", "auditing", "independent_review",
                                  "final_semantic", "final_validation"}
    /\ pc = "found" /\ state \in {"auditing", "independent_review"} =>
          hand \in Blocks \ done[Scanned]
    /\ pc = "found" /\ state = "final_semantic" => hand \in Blocks
    /\ pc = "applied" =>
          hand \in Blocks /\ state \in {"repairing_known", "independent_review",
                                        "final_semantic", "repairing_validation"}
    /\ pc = "outputs" => state = "finalizing"

SweptFirst ==
    state \in {"final_semantic", "final_validation", "repairing_validation", "finalizing"}
        => done["swept"] = Blocks

(* A block nobody repaired holds what was submitted.                        *)
Mended(b) == \E f \in edited : BlockOf[f] = b
UneditedIsSubmitted == \A b \in Blocks : content[b] = Submitted \/ Mended(b)

(* A swept block that nobody repaired was accounted for, or the job knows.  *)
SweptMeans ==
    \A b \in done["swept"] :
        never \/ b \in contradicted \/ Submitted \in checked[b] \/ Mended(b)

(* A marker stands for the content of its block, but for the moment between a
   repair and ClearMarker, and for what a crash made of it.                 *)
MarkerMeans ==
    \A b \in done["final_semantic"] :
        content[b] \in checked[b] \/ b \in stale \/ (pc = "applied" /\ hand = b)

(* What a validation round finds is on record when it ends.                 *)
FindingsTracked ==
    intact /\ (state \in {"finalizing", "needs_human_attention"}
                 \/ (state = "final_validation" /\ pc = "found")) =>
        \A f \in Firing : \/ issue[f] \in Live \cup Unresolved
                          \/ state = "final_validation" /\ f \in todo

(* An issue with a repair in the workbook is never closed as if it had none. *)
EditedMeans ==
    \A f \in edited : SourceOf[f] = "rule"
                        \/ issue[f] \in {"accepted", "needs_human_review"} \cup (Live \ {"open"})

Unbroken == crashes + resumes = 0
TodoMeans ==
    /\ pc = "found" /\ state \in {"ingesting", "auditing"} =>
          \A f \in todo : SourceOf[f] # "sweep"
    /\ pc = "found" /\ state = "independent_review" => \A f \in todo : SourceOf[f] = "sweep"
(* Who owns the live issues of a run that nothing interrupted.              *)
RolesByPhase ==
    Unbroken =>
        /\ state \in {"created", "ingesting", "auditing", "repairing_known"} =>
              \A f \in Issues : issue[f] \in Live => role[f] = "known"
        /\ state = "independent_review" =>
              \A f \in Issues : issue[f] \in Live => role[f] = "independent"
(* Outside the repair phases one issue of a block is in flight.             *)
OneInFlight ==
    Unbroken /\ state \in {"independent_review", "final_semantic"} =>
        \A f, g \in Issues :
            BlockOf[f] = BlockOf[g] /\ issue[f] \in InFlight /\ issue[g] \in InFlight => f = g
(* A validation round starts without live issues, and counts those it makes. *)
RoundCounts ==
    Unbroken /\ state = "final_validation" =>
        (pc = "found" /\ again) \/ \A f \in Issues : issue[f] \notin Live

IInv ==
    /\ TypeOK /\ HandMeans /\ SweptFirst
    /\ UneditedIsSubmitted /\ SweptMeans /\ MarkerMeans /\ SuccessIsChecked
    /\ FindingsTracked /\ NothingLaundered /\ EditedMeans /\ RepairsStand
    /\ TodoMeans /\ RolesByPhase /\ OneInFlight /\ RoundCounts /\ NothingLeftBehind

-----------------------------------------------------------------------------
(* What the actions have in common.                                         *)
Closed == {"refuted", "superseded", "unconfirmed"}
Outcomes == Closed \cup {"awaiting", "proposed", "revising", "needs_human_review"}
RepairStates == {"repairing_known", "independent_review", "final_semantic",
                 "repairing_validation"}

LEMMA OfferedWhere ==
    ASSUME NEW f \in Issues, Offered(f)
    PROVE  pc = "idle" /\ state \in RepairStates /\ issue[f] \in Live
  BY DEF Offered, In, RepairStates

(* A step of a repair moves one issue, or applies its patch.                *)
LEMMA RepairShape ==
    ASSUME NEW f \in Issues, Repair(f)
    PROVE  \/ \E s \in Outcomes :
                 /\ Advanced(f, s)
                 /\ s \in Closed => SourceOf[f] = "rule" \/ issue[f] = "open"
           \/ \E c \in Contents : Repaired(f, c)
  <1>1. CASE TakeUp(f)
    BY <1>1 DEF TakeUp, Outcomes, Closed
  <1>2. CASE Propose(f)
    BY <1>2 DEF Propose, Outcomes, Closed
  <1>3. CASE Reject(f)
    BY <1>3 DEF Reject, Failed, Outcomes, Closed
  <1>4. CASE Revise(f)
    BY <1>4 DEF Revise, Failed, Outcomes, Closed
  <1>5. CASE Escalate(f)
    BY <1>5 DEF Escalate, Outcomes, Closed
  <1>6. CASE \E s \in {"refuted", "superseded", "unconfirmed"} : Close(f, s)
    BY <1>6 DEF Close, Outcomes, Closed
  <1>7. CASE \E c \in Contents : Apply(f, c) \/ ApplyMechanical(f, c)
    BY <1>7 DEF Apply, ApplyMechanical
  <1> QED
    BY <1>1, <1>2, <1>3, <1>4, <1>5, <1>6, <1>7 DEF Repair

(* The steps, by what they do: the job moves, a worker starts on a block, comes to
   its end, records a finding or marks a block.                                *)
Moves ==
    \/ Accepted \/ Requeue \/ AuditComplete \/ Drained \/ IntegrityFailed \/ Resume \/ Damage
    \/ \E final \in BOOLEAN : CallLost(final) \/ Stopped(final)
Starts ==
    \/ Ingest \/ Validate
    \/ \E b \in Blocks : Scan(b) \/ Verify(b) \/ RejectVerification(b)
Ends == Ingested \/ Validated \/ Finalize
Marks ==
    \/ ClearMarker
    \/ \E short, contradiction \in BOOLEAN : MarkScanned(short, contradiction)
    \/ \E withheld \in BOOLEAN : MarkVerified(withheld)
Recording == \E f \in Issues : OpenIssue(f) \/ Rediscover(f)

(* The step fuse is one of the reasons a job is stopped.                    *)
LEMMA FusedStops == Fused => Stopped(FALSE)
  BY DEF Fused, Stopped

LEMMA StepKinds ==
    ASSUME [Next]_vars
    PROVE  \/ Moves \/ Starts \/ Ends \/ Marks \/ Recording
           \/ \E f \in Issues : Repair(f)
           \/ Reconcile \/ Crash \/ UNCHANGED vars
  BY FusedStops DEF Next, Work, Moves, Starts, Ends, Marks, Recording

LEMMA InitInv == Init => IInv
  <1> SUFFICES ASSUME Init PROVE IInv
    OBVIOUS
  <1> USE PipelineAssumption DEF Init
  <1>1. TypeOK
    <2>1. shorts \in [{"audited", "swept"} -> [Blocks -> 0..Rescans]]
      <3>1. [b \in Blocks |-> 0] \in [Blocks -> 0..Rescans]
        OBVIOUS
      <3> QED
        BY <3>1
    <2>2. /\ used \in [Issues -> 0..MaxAttempts]
          /\ issue \in [Issues -> {"none"} \cup Live \cup Resolved \cup Unresolved]
      OBVIOUS
    <2>3. done \in [Phases -> SUBSET Blocks]
      BY DEF Phases
    <2>4. /\ content \in [Blocks -> Contents] /\ checked \in [Blocks -> SUBSET Contents]
          /\ verifications \in [Blocks -> 0..SemanticRounds]
          /\ role \in [Issues -> {"known", "independent"}]
          /\ crashes \in 0..MaxCrashes /\ resumes \in 0..MaxResumes
          /\ wasted \in 0..StepBudget
      OBVIOUS
    <2>5. state \in JobStates
      BY DEF JobStates
    <2> QED
      BY <2>1, <2>2, <2>3, <2>4, <2>5 DEF TypeOK
  <1>2. HandMeans /\ SweptFirst /\ UneditedIsSubmitted /\ SweptMeans /\ MarkerMeans
          /\ SuccessIsChecked
    BY DEF HandMeans, SweptFirst, UneditedIsSubmitted, SweptMeans, MarkerMeans,
           SuccessIsChecked, Phases
  <1>3. FindingsTracked /\ NothingLaundered /\ EditedMeans /\ RepairsStand
    BY DEF FindingsTracked, NothingLaundered, EditedMeans, RepairsStand
  <1>4. TodoMeans /\ RolesByPhase /\ OneInFlight /\ RoundCounts /\ NothingLeftBehind
    BY DEF TodoMeans, RolesByPhase, OneInFlight, RoundCounts, NothingLeftBehind, Live
  <1> QED
    BY <1>1, <1>2, <1>3, <1>4 DEF IInv
-----------------------------------------------------------------------------
(* The types.                                                               *)
LEMMA TypeStep ==
    ASSUME IInv, [Next]_vars
    PROVE  TypeOK'
  <1> USE PipelineAssumption
  <1>t. TypeOK /\ HandMeans
    BY DEF IInv
  <1>1. CASE Moves
    <2>1. /\ state' \in JobStates /\ fatal' \in BOOLEAN /\ rounds' \in Nat /\ failures' \in Nat
          /\ wasted' \in 0..StepBudget
          /\ intact' \in BOOLEAN /\ crashes' \in 0..MaxCrashes /\ resumes' \in 0..MaxResumes
      <3>1. CASE Resume
        BY <3>1, <1>t DEF Resume, Advance, book, TypeOK, JobStates
      <3>2. CASE Damage
        BY <3>2, <1>t DEF Damage, job, faults, TypeOK
      <3>3. CASE \E final \in BOOLEAN : CallLost(final) \/ Stopped(final)
        <4> PICK final \in BOOLEAN : CallLost(final) \/ Stopped(final)
          BY <3>3
        <4>1. fatal' = fatal \/ fatal' = FALSE \/ fatal' = final
          BY DEF CallLost, Stopped, Fail
        <4>2. /\ state' = state \/ state' = "failed"
              /\ rounds' = rounds /\ (failures' = failures \/ failures' = failures + 1)
              /\ wasted' = wasted
              /\ UNCHANGED <<intact, crashes, resumes>>
          BY DEF CallLost, Stopped, Fail, book, faults
        <4>3. fatal' \in BOOLEAN
          <5>1. fatal \in BOOLEAN
            BY <1>t DEF TypeOK
          <5> QED
            BY <4>1, <5>1, Zenon
        <4>4. intact' \in BOOLEAN
          BY <4>2, <1>t, Zenon DEF TypeOK
        <4> QED
          BY <4>2, <4>3, <4>4, <1>t DEF TypeOK, JobStates, Ended
      <3>4. CASE Accepted \/ Requeue \/ AuditComplete \/ Drained \/ IntegrityFailed
        BY <3>4, <1>t DEF Accepted, Requeue, Scanning, Affordable, AuditComplete, Drained,
               IntegrityFailed, In, Advance, book, faults, TypeOK, JobStates
      <3> QED
        BY <1>1, <3>1, <3>2, <3>3, <3>4 DEF Moves
    <2>2. UNCHANGED <<content, ledger, marks, worker, history>>
      BY <1>1 DEF Moves, Accepted, Requeue, Scanning, AuditComplete, Drained, IntegrityFailed,
                  Resume, Damage, CallLost, Stopped, book
    <2> QED
      BY <2>1, <2>2, <1>t DEF TypeOK, ledger, marks, worker, history
  <1>2. CASE Starts
    <2>1. /\ pc' \in {"idle", "found"} /\ todo' \subseteq Issues
          /\ hand' \in Blocks \cup {NoBlock} /\ again' \in BOOLEAN /\ known' \subseteq Blocks
      <3>1. ASSUME NEW found \in SUBSET Issues, NEW b \in Blocks \cup {NoBlock},
                   Record(found, b)
            PROVE  /\ pc' = "found" /\ todo' \subseteq Issues
                   /\ hand' \in Blocks \cup {NoBlock} /\ again' \in BOOLEAN
                   /\ known' \subseteq Blocks
        BY <3>1 DEF Record, KnownBlocks
      <3>2. Firing \in SUBSET Issues /\ \A p, b : FoundBy(p, b) \subseteq Issues
        BY DEF Firing, FoundBy
      <3>3. CASE Ingest \/ Validate
        BY <3>3, <3>1, <3>2 DEF Ingest, Validate
      <3>4. ASSUME NEW b \in Blocks, Scan(b) \/ Verify(b)
            PROVE  \E found \in SUBSET Issues : Record(found, b)
        BY <3>4, <3>2 DEF Scan, Scanning, Verify
      <3>5. ASSUME NEW b \in Blocks, RejectVerification(b)
            PROVE  UNCHANGED worker
        BY <3>5 DEF RejectVerification
      <3> QED
        <4>1. CASE Ingest \/ Validate
          BY <4>1, <3>3
        <4>2. CASE \E b \in Blocks : Scan(b) \/ Verify(b)
          BY <4>2, <3>1, <3>4
        <4>3. CASE \E b \in Blocks : RejectVerification(b)
          BY <4>3, <3>5, <1>t DEF RejectVerification, In, worker, TypeOK
        <4> QED
          BY <1>2, <4>1, <4>2, <4>3 DEF Starts
    <2>2. verifications' \in [Blocks -> 0..SemanticRounds]
      BY <1>2, <1>t DEF Starts, Ingest, Scan, Scanning, Verify, Validate, RejectVerification,
                        Counted, Pending, marks, TypeOK
    <2>3. /\ UNCHANGED <<state, fatal, failures, wasted, book, ledger, history, faults>>
          /\ UNCHANGED <<done, shorts, never, contradicted>>
          /\ rounds' \in Nat
      BY <1>2, <1>t DEF Starts, Ingest, Scan, Scanning, Verify, Validate, RejectVerification,
                        marks, job, TypeOK
    <2> QED
      BY <2>1, <2>2, <2>3, <1>t DEF TypeOK, book, ledger, history, faults
  <1>3. CASE Ends
    BY <1>3, <1>t DEF Ends, Ingested, Validated, Finalize, Recorded, Rest, Advance, TypeOK,
           JobStates, Ended, job, book, ledger, marks, worker, history, faults
  <1>4. CASE Marks
    <2>1. CASE ClearMarker
      BY <2>1, <1>t DEF ClearMarker, Rest, TypeOK, Phases, job, book, ledger, marks, worker,
             history, faults
    <2>2. ASSUME NEW short \in BOOLEAN, NEW contradiction \in BOOLEAN,
                 MarkScanned(short, contradiction)
          PROVE  TypeOK'
      <3>1. hand \in Blocks /\ Scanned \in {"audited", "swept"}
        BY <2>2, <1>t DEF MarkScanned, Recorded, HandMeans, Scanned
      <3>2. shorts' \in [{"audited", "swept"} -> [Blocks -> 0..Rescans]]
        <4>1. CASE short /\ shorts[Scanned][hand] < Rescans
          <5> DEFINE row == [shorts[Scanned] EXCEPT ![hand] = @ + 1]
          <5>1. shorts' = [shorts EXCEPT ![Scanned] = row]
            BY <2>2, <4>1 DEF MarkScanned
          <5>2. shorts[Scanned] \in [Blocks -> 0..Rescans]
            BY <1>t, <3>1 DEF TypeOK
          <5>3. row \in [Blocks -> 0..Rescans]
            BY <5>2, <3>1, <4>1
          <5> HIDE DEF row
          <5> QED
            BY <5>1, <5>3, <1>t DEF TypeOK
        <4>2. CASE ~(short /\ shorts[Scanned][hand] < Rescans)
          BY <2>2, <4>2, <1>t DEF MarkScanned, TypeOK
        <4> QED
          BY <4>1, <4>2
      <3>3. /\ done' \in [Phases -> SUBSET Blocks] /\ never' \in BOOLEAN
            /\ contradicted' \subseteq Blocks
        BY <2>2, <3>1, <1>t DEF MarkScanned, TypeOK, Phases
      <3>4. checked' \in [Blocks -> SUBSET Contents]
        BY <2>2, <3>1, <1>t DEF MarkScanned, TypeOK
      <3> QED
        BY <2>2, <3>2, <3>3, <3>4, <1>t DEF MarkScanned, Rest, TypeOK, job, book, ledger, faults
    <2>3. ASSUME NEW withheld \in BOOLEAN, MarkVerified(withheld)
          PROVE  TypeOK'
      <3>1. hand \in Blocks
        BY <2>3, <1>t DEF MarkVerified, Recorded, HandMeans
      <3> QED
        <4>1. done' \in [Phases -> SUBSET Blocks]
          BY <2>3, <3>1, <1>t DEF MarkVerified, TypeOK, Phases
        <4>2. checked' \in [Blocks -> SUBSET Contents]
          BY <2>3, <3>1, <1>t DEF MarkVerified, TypeOK
        <4> QED
          BY <2>3, <4>1, <4>2, <1>t DEF MarkVerified, Rest, TypeOK, job, book, ledger, faults
    <2> QED
      BY <1>4, <2>1, <2>2, <2>3 DEF Marks
  <1>5. CASE Recording
    <2> PICK f \in Issues : OpenIssue(f) \/ Rediscover(f)
      BY <1>5 DEF Recording
    <2>1. /\ issue' \in [Issues -> {"none"} \cup Live \cup Resolved \cup Unresolved]
          /\ role' \in [Issues -> {"known", "independent"}]
      BY <1>t DEF OpenIssue, Rediscover, FoundNew, FoundTracked, Reopen, SetIssue, Found, TypeOK,
             Live, Resolved, Unresolved
    <2>2. moved' \subseteq {g \in Issues : issue'[g] = "proposed"}
      <3>1. moved' = moved /\ \A g \in Issues : issue[g] = "proposed" => issue'[g] = "proposed"
        BY <1>t DEF OpenIssue, Rediscover, FoundNew, FoundTracked, Reopen, SetIssue, Found,
                    TypeOK, Live, Resolved
      <3> QED
        BY <3>1, <1>t DEF TypeOK
    <2>3. /\ pc' \in {"idle", "found", "applied", "outputs"} /\ todo' \subseteq Issues
          /\ again' \in BOOLEAN /\ UNCHANGED <<hand, known>>
      BY <1>t DEF OpenIssue, Rediscover, FoundNew, FoundTracked, Reopen, Found, TypeOK
    <2>4. UNCHANGED <<job, book, used, edited, marks, history, faults>>
      BY DEF OpenIssue, Rediscover, FoundNew, FoundTracked, Reopen, Found
    <2> QED
      BY <2>1, <2>2, <2>3, <2>4, <1>t DEF TypeOK, job, book, marks, history, faults
  <1>6. CASE \E f \in Issues : Repair(f)
    <2> PICK f \in Issues : Repair(f)
      BY <1>6
    <2>1. used' \in [Issues -> 0..MaxAttempts]
      <3>1. used' = used \/ Spend(f)
        BY DEF Repair, TakeUp, Propose, Reject, Revise, Escalate, Close, Apply, ApplyMechanical,
               Repaired
      <3>2. CASE Spend(f)
        BY <3>2, <1>t DEF Spend, TypeOK
      <3> QED
        BY <3>1, <3>2, <1>t DEF TypeOK
    <2>2. ASSUME NEW s \in Outcomes, Advanced(f, s)
          PROVE  TypeOK'
      <3>1. issue' \in [Issues -> {"none"} \cup Live \cup Resolved \cup Unresolved]
        BY <2>2, <1>t DEF Advanced, SetIssue, TypeOK, Outcomes, Closed, Live, Resolved, Unresolved
      <3>2. moved' \subseteq {g \in Issues : issue'[g] = "proposed"}
        BY <2>2, <1>t DEF Advanced, SetIssue, TypeOK
      <3> QED
        BY <2>1, <2>2, <3>1, <3>2, <1>t
           DEF Advanced, TypeOK, job, book, marks, worker, history, faults
    <2>3. ASSUME NEW c \in Contents, Repaired(f, c)
          PROVE  TypeOK'
      <3>1. issue' \in [Issues -> {"none"} \cup Live \cup Resolved \cup Unresolved]
        BY <2>3, <1>t DEF Repaired, SetIssue, TypeOK, Resolved
      <3>2. moved' \subseteq {g \in Issues : issue'[g] = "proposed"}
        BY <2>3, <1>t DEF Repaired, SetIssue, TypeOK
      <3>3. content' \in [Blocks -> Contents] /\ hand' \in Blocks
        BY <2>3, <1>t DEF Repaired, TypeOK
      <3> QED
        BY <2>1, <2>3, <3>1, <3>2, <3>3, <1>t
           DEF Repaired, TypeOK, job, marks, history, faults
    <2> QED
      BY <2>2, <2>3, RepairShape
  <1>7. CASE Reconcile
    <2>1. PICK claims \in SUBSET {f \in Issues : Withdrawable(f) /\ SourceOf[f] # "rule"} :
             issue' = [f \in Issues |->
                         IF Withdrawable(f) /\ (SourceOf[f] = "rule" \/ f \in claims)
                         THEN "superseded" ELSE issue[f]]
      BY <1>7 DEF Reconcile
    <2>2. issue' \in [Issues -> {"none"} \cup Live \cup Resolved \cup Unresolved]
      BY <2>1, <1>t DEF TypeOK, Resolved
    <2>3. moved' \subseteq {g \in Issues : issue'[g] = "proposed"}
      BY <2>1, <1>7, <1>t DEF Reconcile, TypeOK, Withdrawable, Unresolved
    <2> QED
      BY <2>2, <2>3, <1>7, <1>t DEF Reconcile, TypeOK, job, book, marks, history, faults
  <1>8. CASE Crash
    <2>1. stale' \subseteq Blocks /\ crashes' \in 0..MaxCrashes
      BY <1>8, <1>t DEF Crash, TypeOK, Phases
    <2> QED
      BY <2>1, <1>8, <1>t DEF Crash, Rest, TypeOK, job, book, ledger, marks
  <1>9. CASE UNCHANGED vars
    BY <1>9, <1>t DEF vars, job, book, ledger, marks, worker, history, faults, TypeOK
  <1> QED
    BY <1>1, <1>2, <1>3, <1>4, <1>5, <1>6, <1>7, <1>8, <1>9, StepKinds
-----------------------------------------------------------------------------
(* The worker, and what it marks.                                           *)

(* A step that moves the job finds the worker at rest and leaves it so.     *)
LEMMA MovesAtRest ==
    ASSUME IInv, Moves
    PROVE  /\ pc = "idle"
           /\ UNCHANGED <<content, ledger, marks, worker, history>>
  <1>1. pc = "idle"
    <2>1. CASE Resume
      BY <2>1 DEF Resume, IInv, TypeOK, HandMeans
    <2> QED
      BY <2>1 DEF Moves, Accepted, Requeue, Scanning, AuditComplete, Drained, IntegrityFailed,
                  Damage, CallLost, Stopped, In
  <1>2. UNCHANGED <<content, ledger, marks, worker, history>>
    BY DEF Moves, Accepted, Requeue, Scanning, AuditComplete, Drained, IntegrityFailed, Resume,
           Damage, CallLost, Stopped, book
  <1> QED
    BY <1>1, <1>2

(* What recording a finding leaves alone.                                   *)
LEMMA RecordingFrame ==
    ASSUME Recording
    PROVE  /\ pc = "found"
           /\ UNCHANGED <<job, book, used, edited, moved, marks, pc, hand, known, history, faults>>
  BY DEF Recording, OpenIssue, Rediscover, FoundNew, FoundTracked, Reopen, Found

(* What a repair leaves alone.                                              *)
LEMMA RepairFrame ==
    ASSUME NEW f \in Issues, Repair(f)
    PROVE  /\ pc = "idle" /\ state \in RepairStates
           /\ UNCHANGED <<job, intact, role, marks, todo, again, known, history, faults>>
  BY RepairShape, OfferedWhere DEF Advanced, Repaired, book, worker

(* What the end of a step leaves alone.                                     *)
LEMMA EndsFrame ==
    ASSUME Ends \/ Marks
    PROVE  /\ pc' = "idle" /\ UNCHANGED <<book, ledger, faults, fatal, rounds, failures>>
           /\ Ends => UNCHANGED <<marks, history>>
           /\ Marks => UNCHANGED state
  BY DEF Ends, Marks, Ingested, Validated, Finalize, ClearMarker, MarkScanned, MarkVerified, Rest,
         Advance, job

LEMMA HandStep ==
    ASSUME IInv, [Next]_vars
    PROVE  HandMeans'
  <1>t. TypeOK /\ HandMeans
    BY DEF IInv
  <1>1. CASE pc' = "idle"
    BY <1>1 DEF HandMeans
  <1>2. CASE Moves
    BY <1>1, <1>2, MovesAtRest DEF worker
  <1>3. CASE Starts
    <2>1. CASE Ingest \/ Validate
      BY <2>1 DEF Ingest, Validate, In, Record, HandMeans, job
    <2>2. ASSUME NEW b \in Blocks, Scan(b)
          PROVE  HandMeans'
      BY <2>2 DEF Scan, Scanning, In, Record, HandMeans, job, marks, Scanned
    <2>3. ASSUME NEW b \in Blocks, Verify(b)
          PROVE  HandMeans'
      BY <2>3 DEF Verify, In, Record, HandMeans, job
    <2>4. ASSUME NEW b \in Blocks, RejectVerification(b)
          PROVE  HandMeans'
      BY <1>1, <2>4 DEF RejectVerification, In, worker
    <2> QED
      BY <1>3, <2>1, <2>2, <2>3, <2>4 DEF Starts
  <1>4. CASE Ends \/ Marks
    BY <1>1, <1>4, EndsFrame
  <1>5. CASE Recording
    BY <1>5, <1>t, RecordingFrame DEF HandMeans, job, marks, Scanned
  <1>6. CASE \E f \in Issues : Repair(f)
    <2> PICK f \in Issues : Repair(f)
      BY <1>6
    <2>1. CASE \E s \in Outcomes : Advanced(f, s)
      BY <1>1, <2>1, RepairFrame DEF Advanced, worker
    <2>2. CASE \E c \in Contents : Repaired(f, c)
      <3>1. pc' = "applied" /\ hand' = BlockOf[f] /\ state' = state
        BY <2>2 DEF Repaired, job
      <3>2. BlockOf[f] \in Blocks
        BY PipelineAssumption
      <3> QED
        BY <3>1, <3>2, RepairFrame DEF HandMeans, RepairStates
    <2> QED
      BY <2>1, <2>2, RepairShape
  <1>7. CASE Reconcile
    BY <1>7 DEF Reconcile, In, HandMeans, job
  <1>8. CASE Crash
    BY <1>1, <1>8 DEF Crash, Rest
  <1>9. CASE UNCHANGED vars
    BY <1>9, <1>t DEF vars, job, marks, worker, HandMeans, Scanned
  <1> QED
    BY <1>2, <1>3, <1>4, <1>5, <1>6, <1>7, <1>8, <1>9, StepKinds
LEMMA SweptFirstStep ==
    ASSUME IInv, [Next]_vars
    PROVE  SweptFirst'
  <1>t. TypeOK /\ HandMeans /\ SweptFirst /\ TypeOK'
    BY TypeStep DEF IInv
  <1>1. CASE Moves
    BY <1>1, <1>t, MovesAtRest DEF Moves, Accepted, Requeue, Scanning, AuditComplete, Drained,
                                   IntegrityFailed, Resume, Damage, CallLost, Stopped, Fail,
                                   Advance, In, SweptFirst, marks, job
  <1>2. CASE Starts
    BY <1>2, <1>t DEF Starts, Ingest, Validate, Scan, Scanning, Verify, RejectVerification,
                      SweptFirst, marks, job
  <1>3. CASE Ends
    BY <1>3, <1>t DEF Ends, Ingested, Validated, Finalize, Recorded, Advance, SweptFirst, marks
  <1>4. CASE Marks
    <2>1. CASE ClearMarker
      BY <2>1, <1>t DEF ClearMarker, SweptFirst, job, TypeOK, Phases
    <2>2. CASE \E short, contradiction \in BOOLEAN : MarkScanned(short, contradiction)
      BY <2>2, <1>t DEF MarkScanned, SweptFirst, job
    <2>3. CASE \E withheld \in BOOLEAN : MarkVerified(withheld)
      BY <2>3, <1>t DEF MarkVerified, SweptFirst, job, TypeOK, Phases
    <2> QED
      BY <1>4, <2>1, <2>2, <2>3 DEF Marks
  <1>5. CASE Recording
    BY <1>5, <1>t, RecordingFrame DEF SweptFirst, job, marks
  <1>6. CASE \E f \in Issues : Repair(f)
    BY <1>6, <1>t, RepairFrame DEF SweptFirst, job, marks
  <1>7. CASE Reconcile \/ Crash \/ UNCHANGED vars
    BY <1>7, <1>t DEF Reconcile, Crash, vars, SweptFirst, job, marks
  <1> QED
    BY <1>1, <1>2, <1>3, <1>4, <1>5, <1>6, <1>7, StepKinds

(* Only a repair touches the working copy.                                  *)
LEMMA OnlyRepairsEdit ==
    ASSUME IInv, [Next]_vars
    PROVE  \/ UNCHANGED <<content, edited>>
           \/ \E f \in Issues, c \in Contents : Repaired(f, c)
  <1>1. CASE \E f \in Issues : Repair(f)
    BY <1>1, RepairShape DEF Advanced, book
  <1>2. CASE Moves
    BY <1>2, MovesAtRest DEF ledger
  <1>3. CASE Starts \/ Reconcile \/ Crash \/ UNCHANGED vars
    BY <1>3 DEF Starts, Ingest, Validate, Scan, Scanning, Verify, RejectVerification, Reconcile,
                Crash, vars, book, ledger
  <1>4. CASE Ends \/ Marks
    BY <1>4, EndsFrame DEF book, ledger
  <1>5. CASE Recording
    BY <1>5, RecordingFrame DEF book
  <1> QED
    BY <1>1, <1>2, <1>3, <1>4, <1>5, StepKinds

LEMMA UneditedStep ==
    ASSUME IInv, [Next]_vars
    PROVE  UneditedIsSubmitted' /\ \A b \in Blocks : Mended(b) => Mended(b)'
  <1>1. CASE UNCHANGED <<content, edited>>
    BY <1>1 DEF IInv, UneditedIsSubmitted, Mended
  <1>2. ASSUME NEW f \in Issues, NEW c \in Contents, Repaired(f, c)
        PROVE  UneditedIsSubmitted' /\ \A b \in Blocks : Mended(b) => Mended(b)'
    BY <1>2 DEF Repaired, IInv, TypeOK, UneditedIsSubmitted, Mended
  <1> QED
    BY <1>1, <1>2, OnlyRepairsEdit

LEMMA SweptMeansStep ==
    ASSUME IInv, [Next]_vars
    PROVE  SweptMeans'
  <1>t. TypeOK /\ HandMeans /\ SweptMeans /\ UneditedIsSubmitted
    BY DEF IInv
  <1>m. \A b \in Blocks : Mended(b) => Mended(b)'
    BY UneditedStep
  <1>b. done["swept"] \subseteq Blocks
    BY <1>t DEF TypeOK, Phases
  <1>1. CASE UNCHANGED <<done, never, contradicted, checked>>
    BY <1>1, <1>t, <1>m, <1>b DEF SweptMeans
  <1>2. CASE Moves
    BY <1>1, <1>2, MovesAtRest DEF marks, history
  <1>3. CASE Starts
    BY <1>1, <1>3 DEF Starts, Ingest, Validate, Scan, Scanning, Verify, RejectVerification,
                      marks, history
  <1>4. CASE Ends
    BY <1>1, <1>4, EndsFrame DEF marks, history
  <1>5. CASE Recording \/ \E f \in Issues : Repair(f)
    BY <1>1, <1>5, RecordingFrame, RepairFrame DEF marks, history
  <1>6. CASE Reconcile \/ Crash \/ UNCHANGED vars
    BY <1>1, <1>6 DEF Reconcile, Crash, vars, marks, history
  <1>7. CASE Marks
    <2>1. CASE ClearMarker
      BY <2>1, <1>t, <1>m, <1>b DEF ClearMarker, SweptMeans, TypeOK, Phases
    <2>2. CASE \E withheld \in BOOLEAN : MarkVerified(withheld)
      <3>1. /\ done'["swept"] = done["swept"] /\ UNCHANGED <<never, contradicted>>
            /\ \A b \in Blocks : checked[b] \subseteq checked'[b]
        BY <2>2, <1>t DEF MarkVerified, TypeOK, Phases
      <3> QED
        BY <3>1, <1>t, <1>m, <1>b DEF SweptMeans
    <2>3. ASSUME NEW short \in BOOLEAN, NEW contradiction \in BOOLEAN,
                 MarkScanned(short, contradiction)
          PROVE  SweptMeans'
      <3>1. hand \in Blocks \ done[Scanned]
        BY <2>3, <1>t DEF MarkScanned, Recorded, HandMeans
      <3>2. \A b \in Blocks : checked[b] \subseteq checked'[b]
        BY <2>3, <1>t DEF MarkScanned, TypeOK
      <3>3. CASE state = "auditing"
        <4>1. done'["swept"] = done["swept"] /\ contradicted' = contradicted /\ (never => never')
          BY <2>3, <3>3, <1>t DEF MarkScanned, Scanned, TypeOK, Phases
        <4> QED
          BY <4>1, <3>2, <1>t, <1>m, <1>b DEF SweptMeans
      <3>4. CASE state = "independent_review"
        <4>1. /\ hand \notin done["swept"]
              /\ done'["swept"] \subseteq done["swept"] \cup {hand}
              /\ contradicted \ {hand} \subseteq contradicted'
              /\ never => never'
          BY <2>3, <3>1, <3>4, <1>t DEF MarkScanned, Scanned, TypeOK, Phases
        <4>2. ASSUME hand \in done'["swept"]
              PROVE  never' \/ hand \in contradicted' \/ content[hand] \in checked'[hand]
          <5>1. CASE short
            BY <5>1, <4>1, <4>2, <2>3, <3>4 DEF MarkScanned, Scanned
          <5>2. CASE contradiction
            BY <5>2, <2>3 DEF MarkScanned
          <5>3. CASE ~short /\ ~contradiction
            BY <5>3, <2>3, <3>1, <3>4, <1>t DEF MarkScanned, TypeOK
          <5> QED
            BY <5>1, <5>2, <5>3
        <4>3. content[hand] = Submitted \/ Mended(hand)
          BY <3>1, <1>t DEF UneditedIsSubmitted
        <4> QED
          BY <4>1, <4>2, <4>3, <3>1, <3>2, <1>t, <1>m, <1>b DEF SweptMeans
      <3> QED
        BY <2>3, <3>3, <3>4 DEF MarkScanned
    <2> QED
      BY <1>7, <2>1, <2>2, <2>3 DEF Marks
  <1> QED
    BY <1>2, <1>3, <1>4, <1>5, <1>6, <1>7, StepKinds
LEMMA MarkerStep ==
    ASSUME IInv, [Next]_vars
    PROVE  MarkerMeans'
  <1>t. TypeOK /\ HandMeans /\ MarkerMeans
    BY DEF IInv
  <1>b. done["final_semantic"] \subseteq Blocks
    BY <1>t DEF TypeOK, Phases
  <1>1. CASE pc # "applied" /\ UNCHANGED <<content, done, checked, stale>>
    BY <1>1, <1>t DEF MarkerMeans
  <1>2. CASE Moves
    BY <1>1, <1>2, MovesAtRest DEF marks, history
  <1>3. CASE Starts
    BY <1>1, <1>3 DEF Starts, Ingest, Validate, Scan, Scanning, Verify, RejectVerification, In,
                      book, marks, history
  <1>4. CASE Ends
    BY <1>1, <1>4, EndsFrame DEF Ends, Ingested, Validated, Finalize, Recorded, book, marks,
                                 history
  <1>5. CASE Marks
    <2>1. CASE ClearMarker
      <3>1. /\ done'["final_semantic"] = done["final_semantic"] \ {hand}
            /\ stale' = stale \ {hand} /\ UNCHANGED <<content, checked>>
        BY <2>1, <1>t DEF ClearMarker, book, TypeOK, Phases
      <3> QED
        BY <3>1, <1>t DEF MarkerMeans
    <2>2. ASSUME NEW short \in BOOLEAN, NEW contradiction \in BOOLEAN,
                 MarkScanned(short, contradiction)
          PROVE  MarkerMeans'
      <3>1. /\ done'["final_semantic"] = done["final_semantic"]
            /\ \A b \in Blocks : checked[b] \subseteq checked'[b]
            /\ pc # "applied" /\ UNCHANGED <<content, stale>>
        BY <2>2, <1>t DEF MarkScanned, Recorded, Scanned, book, TypeOK, Phases
      <3> QED
        BY <3>1, <1>t, <1>b DEF MarkerMeans
    <2>3. ASSUME NEW withheld \in BOOLEAN, MarkVerified(withheld)
          PROVE  MarkerMeans'
      <3>1. hand \in Blocks /\ pc # "applied" /\ UNCHANGED <<content, stale>>
        BY <2>3, <1>t DEF MarkVerified, Recorded, HandMeans, book
      <3>2. CASE withheld
        BY <2>3, <3>1, <3>2, <1>1 DEF MarkVerified
      <3>3. CASE ~withheld
        <4>1. /\ done'["final_semantic"] = done["final_semantic"] \cup {hand}
              /\ \A b \in Blocks : checked[b] \subseteq checked'[b]
              /\ content[hand] \in checked'[hand]
          BY <2>3, <3>1, <3>3, <1>t DEF MarkVerified, TypeOK, Phases
        <4> QED
          BY <3>1, <4>1, <1>t, <1>b DEF MarkerMeans
      <3> QED
        BY <3>2, <3>3
    <2> QED
      BY <1>5, <2>1, <2>2, <2>3 DEF Marks
  <1>6. CASE Recording
    BY <1>1, <1>6, RecordingFrame DEF book, marks, history
  <1>7. CASE \E f \in Issues : Repair(f)
    <2> PICK f \in Issues : Repair(f)
      BY <1>7
    <2>1. CASE \E s \in Outcomes : Advanced(f, s)
      BY <1>1, <2>1, RepairFrame DEF Advanced, book, marks, history
    <2>2. ASSUME NEW c \in Contents, Repaired(f, c)
          PROVE  MarkerMeans'
      <3>1. /\ pc = "idle" /\ pc' = "applied" /\ hand' = BlockOf[f]
            /\ UNCHANGED <<done, checked, stale>>
            /\ \A b \in Blocks : b # BlockOf[f] => content'[b] = content[b]
        BY <2>2, <1>t, RepairFrame DEF Repaired, marks, history, TypeOK
      <3> QED
        BY <3>1, <1>t, <1>b DEF MarkerMeans
    <2> QED
      BY <2>1, <2>2, RepairShape
  <1>8. CASE Reconcile
    BY <1>1, <1>8 DEF Reconcile, In, book, marks, history
  <1>9. CASE Crash
    BY <1>9, <1>t DEF Crash, Rest, book, marks, MarkerMeans
  <1>10. CASE UNCHANGED vars
    BY <1>10, <1>t DEF vars, book, marks, worker, history, MarkerMeans
  <1> QED
    BY <1>2, <1>3, <1>4, <1>5, <1>6, <1>7, <1>8, <1>9, <1>10, StepKinds

(* A job that is finished stays as it is.                                   *)
LEMMA EndedStays ==
    ASSUME IInv, [Next]_vars, state' \in {"succeeded", "needs_human_attention"}
    PROVE  Finalize \/ UNCHANGED vars
  <1>t. TypeOK /\ HandMeans
    BY DEF IInv
  <1>1. CASE Moves
    BY <1>1 DEF Moves, Accepted, Requeue, Scanning, AuditComplete, Drained, IntegrityFailed,
                Resume, Damage, CallLost, Stopped, Fail, Advance, In, Ended, job
  <1>2. CASE Starts \/ Reconcile
    BY <1>2 DEF Starts, Ingest, Validate, Scan, Scanning, Verify, RejectVerification, Reconcile,
                In, job
  <1>3. CASE Ends
    BY <1>3 DEF Ends, Ingested, Validated, Advance
  <1>4. CASE Marks \/ Recording \/ Crash
    <2>1. pc # "idle" /\ state' = state
      BY <1>4, EndsFrame, RecordingFrame
         DEF Marks, ClearMarker, MarkScanned, MarkVerified, Recorded, Crash, job
    <2> QED
      BY <2>1, <1>t DEF HandMeans, TypeOK
  <1>5. CASE \E f \in Issues : Repair(f)
    BY <1>5, RepairFrame DEF RepairStates, job
  <1> QED
    BY <1>1, <1>2, <1>3, <1>4, <1>5, StepKinds

(* A success covers every block: with a marker where it was changed, and with
   the sweep where it was not.                                              *)
LEMMA SuccessStep ==
    ASSUME IInv, [Next]_vars
    PROVE  SuccessIsChecked'
  <1> SUFFICES ASSUME state' = "succeeded", NEW b \in Blocks
               PROVE  content'[b] \in checked'[b] \/ b \in stale' \/ Restored(b)'
    BY DEF SuccessIsChecked
  <1>t. TypeOK /\ SweptFirst /\ SweptMeans /\ MarkerMeans /\ SuccessIsChecked
    BY DEF IInv
  <1>1. CASE UNCHANGED vars
    BY <1>1, <1>t DEF vars, job, book, ledger, history, SuccessIsChecked, Restored
  <1>2. CASE Finalize
    <2>1. /\ ~never /\ Unverified = {} /\ Contradictions = {}
          /\ state = "finalizing" /\ pc = "outputs"
          /\ UNCHANGED <<content, edited, checked, stale>>
      BY <1>2 DEF Finalize, Advance, book, ledger, history
    <2>2. CASE b \in Changed
      BY <2>1, <2>2, <1>t DEF Unverified, MarkerMeans
    <2>3. CASE b \notin Changed
      BY <2>1, <2>3, <1>t
         DEF Changed, Contradictions, SweptFirst, SweptMeans, Mended, Restored
    <2> QED
      BY <2>2, <2>3
  <1> QED
    BY <1>1, <1>2, EndedStays
-----------------------------------------------------------------------------
(* The issues, as the job ends.                                             *)

LEMMA FiringAreRules == ASSUME TypeOK PROVE Firing \subseteq {f \in Issues : SourceOf[f] = "rule"}
  BY PipelineAssumption DEF Firing, TypeOK

LEMMA FindingsStep ==
    ASSUME IInv, [Next]_vars
    PROVE  FindingsTracked'
  <1>t. TypeOK /\ HandMeans /\ FindingsTracked
    BY DEF IInv
  <1> DEFINE Due == \/ state \in {"finalizing", "needs_human_attention"}
                    \/ state = "final_validation" /\ pc = "found"
  <1>1. CASE ~(intact' /\ Due')
    BY <1>1 DEF FindingsTracked
  <1>2. CASE Moves
    BY <1>1, <1>2, MovesAtRest, <1>t
       DEF Moves, Accepted, Requeue, Scanning, AuditComplete, Drained, IntegrityFailed, Resume,
           Damage, CallLost, Stopped, Fail, Advance, In, worker, book, job, Ended,
           FindingsTracked, Firing, ledger
  <1>3. CASE Starts
    <2>1. CASE Validate
      BY <2>1, <1>t DEF Validate, In, Record, FindingsTracked, Firing, book, ledger
    <2> QED
      BY <1>1, <1>3, <2>1 DEF Starts, Ingest, Scan, Scanning, Verify, RejectVerification, In, job
  <1>4. CASE Ends
    BY <1>1, <1>4, <1>t, EndsFrame
       DEF Ends, Ingested, Validated, Finalize, Recorded, Advance, FindingsTracked, Firing, book,
           ledger
  <1>5. CASE Marks
    BY <1>1, <1>5, <1>t, EndsFrame
       DEF Marks, ClearMarker, MarkScanned, MarkVerified, Recorded, HandMeans
  <1>6. CASE Recording
    <2> PICK f \in Issues : OpenIssue(f) \/ Rediscover(f)
      BY <1>6 DEF Recording
    <2>1. UNCHANGED <<state, pc, content, intact>>
      BY <1>6, RecordingFrame DEF job, book
    <2>2. CASE OpenIssue(f)
      BY <1>1, <2>1, <2>2 DEF OpenIssue
    <2>3. CASE Rediscover(f)
      <3>1. /\ todo' = todo \ {f} /\ issue'[f] \in Live \cup Unresolved
            /\ \A g \in Issues : g # f => issue'[g] = issue[g]
        BY <2>3, <1>t DEF Rediscover, FoundNew, FoundTracked, Reopen, Found, SetIssue, TypeOK,
                          Live, Unresolved
      <3>2. Firing' = Firing /\ Firing \subseteq Issues
        BY <2>1 DEF Firing
      <3> QED
        BY <2>1, <3>1, <3>2, <1>t DEF FindingsTracked
    <2> QED
      BY <2>2, <2>3
  <1>7. CASE \E f \in Issues : Repair(f)
    BY <1>1, <1>7, RepairFrame DEF RepairStates, job
  <1>8. CASE Reconcile
    <2>1. \A f \in Firing : issue'[f] = issue[f]
      BY <1>8, <1>t, FiringAreRules DEF Reconcile, Withdrawable
    <2>2. Firing' = Firing /\ UNCHANGED <<state, intact>> /\ state = "finalizing"
      BY <1>8 DEF Reconcile, In, Firing, job, book
    <2> QED
      BY <2>1, <2>2, <1>t DEF FindingsTracked
  <1>9. CASE Crash \/ UNCHANGED vars
    BY <1>1, <1>9, <1>t DEF Crash, Rest, vars, job, book, ledger, worker, FindingsTracked, Firing
  <1> QED
    BY <1>2, <1>3, <1>4, <1>5, <1>6, <1>7, <1>8, <1>9, StepKinds

LEMMA LaunderingStep ==
    ASSUME IInv, [Next]_vars
    PROVE  NothingLaundered'
  <1> SUFFICES ASSUME state' = "needs_human_attention", intact'
               PROVE  \A f \in Firing' : issue'[f] \in Live \cup Unresolved
    BY DEF NothingLaundered
  <1>1. CASE UNCHANGED vars
    BY <1>1 DEF vars, job, book, ledger, IInv, NothingLaundered, Firing
  <1>2. CASE Finalize
    BY <1>2 DEF Finalize, IInv, FindingsTracked, Firing, book, ledger
  <1> QED
    BY <1>1, <1>2, EndedStays

LEMMA EditedStep ==
    ASSUME IInv, [Next]_vars
    PROVE  EditedMeans'
  <1>t. TypeOK /\ EditedMeans
    BY DEF IInv
  <1>1. CASE UNCHANGED <<issue, edited>>
    BY <1>1, <1>t DEF EditedMeans
  <1>2. CASE Moves
    BY <1>1, <1>2, MovesAtRest DEF ledger
  <1>3. CASE Starts \/ Crash \/ UNCHANGED vars
    BY <1>1, <1>3 DEF Starts, Ingest, Validate, Scan, Scanning, Verify, RejectVerification,
                      Crash, vars, ledger
  <1>4. CASE Ends \/ Marks
    BY <1>1, <1>4, EndsFrame DEF ledger
  <1>5. CASE Recording
    <2> PICK f \in Issues : OpenIssue(f) \/ Rediscover(f)
      BY <1>5 DEF Recording
    <2>1. /\ edited' = edited
          /\ \A g \in Issues : g # f => issue'[g] = issue[g]
          /\ \/ issue'[f] = issue[f] \/ issue[f] = "none"
             \/ issue'[f] \in {"revising", "needs_human_review"}
      BY <1>t DEF OpenIssue, Rediscover, FoundNew, FoundTracked, Reopen, Found, SetIssue, TypeOK
    <2> QED
      BY <2>1, <1>t DEF EditedMeans, Live, TypeOK
  <1>6. CASE \E f \in Issues : Repair(f)
    <2> PICK f \in Issues : Repair(f)
      BY <1>6
    <2>1. ASSUME NEW s \in Outcomes, Advanced(f, s),
                 s \in Closed => SourceOf[f] = "rule" \/ issue[f] = "open"
          PROVE  EditedMeans'
      <3>1. edited' = edited /\ issue' = [issue EXCEPT ![f] = s]
        BY <2>1 DEF Advanced, SetIssue
      <3> QED
        BY <2>1, <3>1, <1>t DEF EditedMeans, Outcomes, Closed, Live, TypeOK
    <2>2. ASSUME NEW c \in Contents, Repaired(f, c)
          PROVE  EditedMeans'
      BY <2>2, <1>t DEF Repaired, SetIssue, EditedMeans, TypeOK
    <2> QED
      BY <2>1, <2>2, RepairShape
  <1>7. CASE Reconcile
    <2>1. edited' = edited /\ \A f \in edited : issue'[f] = issue[f]
      BY <1>7, <1>t DEF Reconcile, Withdrawable, TypeOK
    <2> QED
      BY <2>1, <1>t DEF EditedMeans
  <1> QED
    BY <1>2, <1>3, <1>4, <1>5, <1>6, <1>7, StepKinds

LEMMA RepairsStep ==
    ASSUME IInv, [Next]_vars
    PROVE  RepairsStand'
  <1> SUFFICES ASSUME state' = "succeeded", NEW f \in edited'
               PROVE  SourceOf[f] = "rule" \/ issue'[f] = "accepted"
    BY DEF RepairsStand
  <1>t. TypeOK /\ EditedMeans /\ RepairsStand
    BY DEF IInv
  <1>1. CASE UNCHANGED vars
    BY <1>1, <1>t DEF vars, job, ledger, RepairsStand
  <1>2. CASE Finalize
    <2>1. AllResolved /\ f \in edited /\ f \in Issues /\ issue' = issue
      BY <1>2, <1>t DEF Finalize, Advance, ledger, TypeOK
    <2> QED
      BY <2>1, <1>t DEF AllResolved, EditedMeans, Resolved, Live
  <1> QED
    BY <1>1, <1>2, EndedStays
-----------------------------------------------------------------------------
(* Nothing is left behind.                                                  *)

LEMMA UnbrokenStays ==
    ASSUME IInv, [Next]_vars, Unbroken'
    PROVE  Unbroken /\ ~Crash /\ ~Resume
  <1>t. TypeOK /\ crashes \in Nat /\ resumes \in Nat
    BY DEF IInv, TypeOK
  <1>1. /\ crashes' = crashes \/ crashes' = crashes + 1
        /\ resumes' = resumes \/ resumes' = resumes + 1
        /\ Crash => crashes' = crashes + 1
        /\ Resume => resumes' = resumes + 1
    <2>1. CASE Moves
      BY <2>1, MovesAtRest DEF Moves, Accepted, Requeue, Scanning, AuditComplete, Drained,
                               IntegrityFailed, Resume, Damage, CallLost, Stopped, Crash, faults
    <2>2. CASE Starts \/ Reconcile
      BY <2>2 DEF Starts, Ingest, Validate, Scan, Scanning, Verify, RejectVerification,
                  Reconcile, In, Crash, Resume, faults
    <2>3. CASE Ends \/ Marks \/ Recording
      BY <2>3, EndsFrame, RecordingFrame DEF Crash, Resume, faults
    <2>4. CASE \E f \in Issues : Repair(f)
      BY <2>4, RepairFrame DEF Crash, Resume, faults
    <2>5. CASE Crash
      BY <2>5 DEF Crash, Resume, job
    <2>6. CASE UNCHANGED vars
      BY <2>6, <1>t DEF Crash, Resume, vars, faults
    <2> QED
      BY <2>1, <2>2, <2>3, <2>4, <2>5, <2>6, StepKinds
  <1> QED
    BY <1>1, <1>t DEF Unbroken

LEMMA TodoStep ==
    ASSUME IInv, [Next]_vars
    PROVE  TodoMeans'
  <1>t. TypeOK /\ HandMeans /\ TodoMeans
    BY DEF IInv
  <1>1. CASE pc' # "found"
    BY <1>1 DEF TodoMeans
  <1>2. CASE Moves
    BY <1>1, <1>2, MovesAtRest DEF worker
  <1>3. CASE Starts
    <2>1. CASE Ingest
      BY <2>1, <1>t, FiringAreRules DEF Ingest, In, Record, TodoMeans, job
    <2>2. CASE \E b \in Blocks : Scan(b)
      BY <2>2 DEF Scan, Scanning, In, Record, FoundBy, TodoMeans, job
    <2>3. CASE Validate \/ \E b \in Blocks : Verify(b)
      BY <2>3 DEF Validate, Verify, In, TodoMeans, job
    <2>4. CASE \E b \in Blocks : RejectVerification(b)
      BY <1>1, <2>4 DEF RejectVerification, In, worker
    <2> QED
      BY <1>3, <2>1, <2>2, <2>3, <2>4 DEF Starts
  <1>4. CASE Ends \/ Marks
    BY <1>1, <1>4, EndsFrame
  <1>5. CASE Recording
    <2>1. todo' \subseteq todo /\ UNCHANGED <<state, pc>>
      BY <1>5, RecordingFrame
         DEF Recording, OpenIssue, Rediscover, FoundNew, FoundTracked, Reopen, Found, job
    <2> QED
      BY <2>1, <1>t DEF TodoMeans
  <1>6. CASE \E f \in Issues : Repair(f)
    BY <1>1, <1>6, RepairFrame, RepairShape DEF Advanced, Repaired, worker
  <1>7. CASE Reconcile \/ Crash
    BY <1>1, <1>7 DEF Reconcile, Crash, Rest
  <1>8. CASE UNCHANGED vars
    BY <1>8, <1>t DEF vars, job, worker, TodoMeans
  <1> QED
    BY <1>2, <1>3, <1>4, <1>5, <1>6, <1>7, <1>8, StepKinds

(* A repair phase that offers its issues in groups ends without a live one. *)
LEMMA GroupsDrain ==
    ASSUME NEW S \in SUBSET Issues,
           \A f \in Issues : issue[f] \in Live => f \in S /\ ~Grouped(f, S)
    PROVE  \A f \in Issues : issue[f] \notin Live
  <1> SUFFICES ASSUME NEW f \in Issues, issue[f] \in Live
               PROVE  FALSE
    OBVIOUS
  <1>1. PICK g \in Issues \ {f} : BlockOf[g] = BlockOf[f] /\ issue[g] \in InFlight
    BY DEF Grouped, Free
  <1>2. issue[g] \in Live /\ g \in S
    BY <1>1 DEF Live, InFlight
  <1> QED
    BY <1>1, <1>2 DEF Grouped

(* The other phases do so because one issue of a block is in flight.        *)
LEMMA FreeDrains ==
    ASSUME \A f \in Issues : issue[f] \in Live => ~Free(f),
           \A f, g \in Issues :
              BlockOf[f] = BlockOf[g] /\ issue[f] \in InFlight /\ issue[g] \in InFlight => f = g
    PROVE  \A f \in Issues : issue[f] \notin Live
  <1> SUFFICES ASSUME NEW f \in Issues, issue[f] \in Live
               PROVE  FALSE
    OBVIOUS
  <1>1. PICK g \in Issues \ {f} : BlockOf[g] = BlockOf[f] /\ issue[g] \in InFlight
    BY DEF Free
  <1>2. PICK h \in Issues \ {g} : BlockOf[h] = BlockOf[g] /\ issue[h] \in InFlight
    BY <1>1 DEF Free, Live, InFlight
  <1> QED
    BY <1>1, <1>2

LEMMA DrainedEmpty ==
    ASSUME IInv, Drained, Unbroken, state # "independent_review"
    PROVE  \A f \in Issues : issue[f] \notin Live
  <1>t. TypeOK /\ RolesByPhase /\ OneInFlight
    BY DEF IInv
  <1>1. CASE In("repairing_known")
    <2>1. \A f \in Issues : issue[f] \in Live => f \in Roled("known") /\ ~Grouped(f, Roled("known"))
      BY <1>1, <1>t DEF Drained, Offered, In, RolesByPhase, Roled
    <2> QED
      BY <2>1, GroupsDrain DEF Roled
  <1>2. CASE In("repairing_validation")
    <2>1. \A f \in Issues : issue[f] \in Live => f \in Issues /\ ~Grouped(f, Issues)
      BY <1>2 DEF Drained, Offered
    <2> QED
      BY <2>1, GroupsDrain
  <1>3. CASE In("final_semantic") /\ Pending = {}
    BY <1>3, <1>t, FreeDrains DEF Drained, Offered, OneInFlight, In
  <1> QED
    BY <1>1, <1>2, <1>3 DEF Drained, In

LEMMA RolesStep ==
    ASSUME IInv, [Next]_vars
    PROVE  RolesByPhase'
  <1> DEFINE Early == {"created", "ingesting", "auditing", "repairing_known"}
             Mine == IF state = "independent_review" THEN "independent" ELSE "known"
  <1> SUFFICES ASSUME Unbroken', state' \in Early \cup {"independent_review"},
                      NEW f \in Issues, issue'[f] \in Live
               PROVE  role'[f] = Mine'
    BY DEF RolesByPhase
  <1>t. TypeOK /\ TodoMeans /\ Unbroken /\ ~Crash /\ ~Resume
    BY UnbrokenStays DEF IInv
  <1>1. ASSUME state \in Early \cup {"independent_review"}, issue[f] \in Live
        PROVE  role[f] = Mine
    BY <1>1, <1>t DEF IInv, RolesByPhase
  <1>2. CASE Moves
    <2>1. UNCHANGED <<issue, role>>
      BY <1>2, MovesAtRest DEF ledger
    <2>2. CASE Drained
      <3>1. state = "repairing_known"
        BY <2>2 DEF Drained, In, Advance
      <3> QED
        BY <2>1, <2>2, <3>1, <1>t, DrainedEmpty
    <2>3. CASE ~Drained
      <3>1. Mine' = Mine /\ state \in Early \cup {"independent_review"}
        BY <1>2, <2>3, <1>t DEF Moves, Accepted, Requeue, Scanning, AuditComplete,
                                IntegrityFailed, Damage, CallLost, Stopped, Fail, Advance, In,
                                job
      <3> QED
        BY <2>1, <3>1, <1>1
    <2> QED
      BY <2>2, <2>3
  <1>3. CASE Starts \/ UNCHANGED vars
    BY <1>1, <1>3 DEF Starts, Ingest, Validate, Scan, Scanning, Verify, RejectVerification,
                      vars, job, ledger
  <1>4. CASE Ends \/ Marks
    BY <1>1, <1>4, EndsFrame DEF Ends, Ingested, Validated, Finalize, Recorded, Advance, ledger
  <1>5. CASE Recording
    <2>1. UNCHANGED state /\ pc = "found"
      BY <1>5, RecordingFrame DEF job
    <2> PICK g \in Issues : OpenIssue(g) \/ Rediscover(g)
      BY <1>5 DEF Recording
    <2>2. OpenIssue(g)
      BY <2>1 DEF Rediscover, FoundNew, FoundTracked, Reopen, Found
    <2>3. CASE f = g /\ issue[g] = "none"
      BY <2>1, <2>2, <2>3, <1>t DEF OpenIssue, TodoMeans, TypeOK
    <2>4. CASE ~(f = g /\ issue[g] = "none")
      BY <2>1, <2>2, <2>4, <1>1, <1>t DEF OpenIssue, TypeOK
    <2> QED
      BY <2>3, <2>4
  <1>6. CASE \E g \in Issues : Repair(g)
    <2> PICK g \in Issues : Repair(g)
      BY <1>6
    <2>1. issue[g] \in Live
      BY RepairShape, OfferedWhere DEF Advanced, Repaired
    <2>2. UNCHANGED <<state, role>>
      BY RepairFrame DEF job
    <2>3. \A h \in Issues : h # g => issue'[h] = issue[h]
      BY RepairShape, <1>t DEF Advanced, Repaired, SetIssue, TypeOK
    <2> QED
      BY <1>1, <2>1, <2>2, <2>3
  <1>7. CASE Reconcile
    BY <1>7 DEF Reconcile, In, job
  <1> QED
    BY <1>2, <1>3, <1>4, <1>5, <1>6, <1>7, <1>t, StepKinds

LEMMA InFlightStep ==
    ASSUME IInv, [Next]_vars
    PROVE  OneInFlight'
  <1> SUFFICES ASSUME Unbroken', state' \in {"independent_review", "final_semantic"},
                      NEW f \in Issues, NEW g \in Issues, BlockOf[f] = BlockOf[g],
                      issue'[f] \in InFlight, issue'[g] \in InFlight
               PROVE  f = g
    BY DEF OneInFlight
  <1>t. TypeOK /\ Unbroken /\ ~Crash /\ ~Resume
    BY UnbrokenStays DEF IInv
  <1>1. ASSUME state \in {"independent_review", "final_semantic"},
               issue[f] \in InFlight, issue[g] \in InFlight
        PROVE  f = g
    BY <1>1, <1>t DEF IInv, OneInFlight
  <1>2. CASE Moves
    <2>1. issue' = issue
      BY <1>2, MovesAtRest DEF ledger
    <2>2. CASE state \in {"independent_review", "final_semantic"}
      BY <1>1, <2>1, <2>2
    <2>3. CASE Drained /\ state \notin {"independent_review", "final_semantic"}
      BY <2>1, <2>3, <1>t, DrainedEmpty DEF Live, InFlight
    <2> QED
      BY <1>2, <2>2, <2>3, <1>t DEF Moves, Accepted, Requeue, Scanning, AuditComplete,
                                    IntegrityFailed, Damage, CallLost, Stopped, Fail, Advance,
                                    In, job
  <1>3. CASE Starts \/ UNCHANGED vars
    BY <1>1, <1>3 DEF Starts, Ingest, Validate, Scan, Scanning, Verify, RejectVerification,
                      vars, job, ledger
  <1>4. CASE Ends \/ Marks
    BY <1>1, <1>4, EndsFrame DEF Ends, Ingested, Validated, Finalize, Recorded, Advance, ledger
  <1>5. CASE Recording
    <2>1. UNCHANGED state
      BY <1>5, RecordingFrame DEF job
    <2>2. \A h \in Issues : issue'[h] \in InFlight => issue[h] \in InFlight
      BY <1>5, <1>t DEF Recording, OpenIssue, Rediscover, FoundNew, FoundTracked, Reopen, Found,
             SetIssue, InFlight, TypeOK
    <2> QED
      BY <1>1, <2>1, <2>2
  <1>6. CASE \E h \in Issues : Repair(h)
    <2> PICK h \in Issues : Repair(h)
      BY <1>6
    <2>1. UNCHANGED state /\ \A k \in Issues : k # h => issue'[k] = issue[k]
      BY RepairFrame, RepairShape, <1>t DEF Advanced, Repaired, SetIssue, TypeOK, job
    <2>2. Free(h)
      BY RepairShape, <2>1 DEF Advanced, Repaired, Offered, In
    <2> QED
      BY <1>1, <2>1, <2>2 DEF Free
  <1>7. CASE Reconcile
    BY <1>7 DEF Reconcile, In, job
  <1> QED
    BY <1>2, <1>3, <1>4, <1>5, <1>6, <1>7, <1>t, StepKinds

LEMMA RoundStep ==
    ASSUME IInv, [Next]_vars
    PROVE  RoundCounts'
  <1> SUFFICES ASSUME Unbroken', state' = "final_validation"
               PROVE  (pc' = "found" /\ again') \/ \A f \in Issues : issue'[f] \notin Live
    BY DEF RoundCounts
  <1>t. TypeOK /\ HandMeans /\ Unbroken /\ ~Crash /\ ~Resume
    BY UnbrokenStays DEF IInv
  <1>1. ASSUME state = "final_validation"
        PROVE  (pc = "found" /\ again) \/ \A f \in Issues : issue[f] \notin Live
    BY <1>1, <1>t DEF IInv, RoundCounts
  <1>2. CASE Moves
    <2>1. UNCHANGED <<issue, worker>>
      BY <1>2, MovesAtRest DEF ledger
    <2>2. CASE Drained
      <3>1. state = "final_semantic"
        BY <2>2 DEF Drained, Advance, In
      <3> QED
        BY <2>1, <2>2, <3>1, <1>t, DrainedEmpty
    <2>3. CASE ~Drained
      <3>1. state = "final_validation"
        BY <1>2, <2>3, <1>t DEF Moves, Accepted, Requeue, Scanning, AuditComplete,
                                IntegrityFailed, Damage, CallLost, Stopped, Fail, Advance, In,
                                job
      <3> QED
        BY <1>1, <2>1, <3>1 DEF worker
    <2> QED
      BY <2>2, <2>3
  <1>3. CASE Starts
    BY <1>1, <1>3 DEF Starts, Ingest, Validate, Scan, Scanning, Verify, RejectVerification, In,
                      ledger, job
  <1>4. CASE Ends \/ Marks
    BY <1>4, <1>t, EndsFrame
       DEF Ends, Ingested, Validated, Finalize, Recorded, Advance, Marks, ClearMarker,
           MarkScanned, MarkVerified, HandMeans
  <1>5. CASE Recording
    <2>1. UNCHANGED <<state, pc>> /\ pc = "found"
      BY <1>5, RecordingFrame DEF job
    <2> PICK f \in Issues : OpenIssue(f) \/ Rediscover(f)
      BY <1>5 DEF Recording
    <2>2. Rediscover(f)
      BY <2>1 DEF OpenIssue
    <2>3. /\ again => again'
          /\ again' \/ \A g \in Issues : issue'[g] \in Live => issue[g] \in Live
      BY <2>2, <1>t DEF Rediscover, FoundNew, FoundTracked, Reopen, Found, SetIssue, TypeOK, Live
    <2> QED
      BY <1>1, <2>1, <2>3
  <1>6. CASE \E f \in Issues : Repair(f)
    BY <1>6, RepairFrame DEF RepairStates, job
  <1>7. CASE Reconcile
    BY <1>7 DEF Reconcile, In, job
  <1>8. CASE UNCHANGED vars
    BY <1>1, <1>8 DEF vars, job, ledger, worker
  <1> QED
    BY <1>2, <1>3, <1>4, <1>5, <1>6, <1>7, <1>8, <1>t, StepKinds

LEMMA LeftBehindStep ==
    ASSUME IInv, [Next]_vars
    PROVE  NothingLeftBehind'
  <1> SUFFICES ASSUME Unbroken', state' \in {"finalizing", "needs_human_attention"},
                      \E f \in Issues : issue'[f] \in Live
               PROVE  rounds' >= MaxRounds
    BY DEF NothingLeftBehind, Unbroken
  <1>t. TypeOK /\ HandMeans /\ RoundCounts /\ Unbroken /\ ~Crash /\ ~Resume
    BY UnbrokenStays DEF IInv
  <1>1. ASSUME state \in {"finalizing", "needs_human_attention"},
               \E f \in Issues : issue[f] \in Live
        PROVE  rounds >= MaxRounds
    BY <1>1, <1>t DEF IInv, NothingLeftBehind, Unbroken
  <1>2. CASE Finalize \/ UNCHANGED vars
    BY <1>1, <1>2 DEF Finalize, Advance, vars, job, ledger
  <1>3. CASE state' = "finalizing"
    <2>1. CASE Moves
      <3>1. issue' = issue /\ pc = "idle"
        BY <2>1, MovesAtRest DEF ledger
      <3>2. CASE IntegrityFailed
        BY <3>1, <3>2, <1>t DEF IntegrityFailed, In, RoundCounts
      <3>3. CASE ~IntegrityFailed
        <4>1. UNCHANGED <<state, rounds>>
          BY <1>3, <2>1, <3>3, <1>t DEF Moves, Accepted, Requeue, Scanning, AuditComplete,
                                        Drained, Damage, CallLost, Stopped, Fail, Advance, In,
                                        job
        <4> QED
          BY <1>1, <1>3, <3>1, <4>1
      <3> QED
        BY <3>2, <3>3
    <2>2. CASE Validated
      <3>1. state = "final_validation" /\ pc = "found" /\ rounds' = rounds /\ issue' = issue
        BY <2>2 DEF Validated, Recorded, Advance, ledger
      <3>2. again
        BY <3>1, <1>t DEF RoundCounts
      <3>3. ~(rounds < MaxRounds)
        BY <1>3, <2>2, <3>2 DEF Validated, Advance
      <3> QED
        BY <3>1, <3>3, <1>t, PipelineAssumption DEF TypeOK
    <2>3. CASE Reconcile
      <3>1. /\ UNCHANGED <<state, rounds>>
            /\ \A f \in Issues : issue'[f] \in Live => issue[f] \in Live
        BY <2>3 DEF Reconcile, Live, job
      <3> QED
        BY <1>1, <1>3, <3>1
    <2>4. CASE Starts
      BY <1>3, <2>4 DEF Starts, Ingest, Validate, Scan, Scanning, Verify, RejectVerification,
                        In, job
    <2>5. CASE (Ends /\ ~Validated) \/ Marks
      BY <1>2, <1>3, <2>5, <1>t DEF Ends, Ingested, Advance, Marks, ClearMarker, MarkScanned,
             MarkVerified, Recorded, HandMeans, job
    <2>6. CASE Recording
      BY <1>3, <2>6, RecordingFrame, <1>t DEF HandMeans, job
    <2>7. CASE \E f \in Issues : Repair(f)
      BY <1>3, <2>7, RepairFrame DEF RepairStates, job
    <2> QED
      BY <1>2, <1>t, <2>1, <2>2, <2>3, <2>4, <2>5, <2>6, <2>7, StepKinds
  <1> QED
    BY <1>2, <1>3, EndedStays
-----------------------------------------------------------------------------
(* The theorems.                                                            *)

(* The invariant is inductive.                                              *)
THEOREM Invariance == Spec => []IInv
  <1>1. ASSUME IInv, [Next]_vars PROVE IInv'
    <2>1. TypeOK' /\ HandMeans' /\ SweptFirst' /\ UneditedIsSubmitted' /\ SweptMeans'
      BY <1>1, TypeStep, HandStep, SweptFirstStep, UneditedStep, SweptMeansStep
    <2>2. MarkerMeans' /\ SuccessIsChecked' /\ FindingsTracked' /\ NothingLaundered'
      BY <1>1, MarkerStep, SuccessStep, FindingsStep, LaunderingStep
    <2>3. EditedMeans' /\ RepairsStand' /\ TodoMeans' /\ RolesByPhase'
      BY <1>1, EditedStep, RepairsStep, TodoStep, RolesStep
    <2>4. OneInFlight' /\ RoundCounts' /\ NothingLeftBehind'
      BY <1>1, InFlightStep, RoundStep, LeftBehindStep
    <2> QED
      BY <2>1, <2>2, <2>3, <2>4 DEF IInv
  <1> QED
    BY <1>1, InitInv, PTL DEF Spec

(* Every reachable state is well typed: among others no issue spends more than
   max_repair_attempts and no block more verifications than final_semantic_rounds. *)
THEOREM TypeCorrect == Spec => []TypeOK
  <1>1. IInv => TypeOK
    BY DEF IInv
  <1> QED
    BY <1>1, Invariance, PTL

(* council._finalize: a success is over blocks that an independent pass accounted
   for as they are, with the two exceptions that SuccessIsChecked names.    *)
THEOREM SuccessSafe == Spec => []SuccessIsChecked
  <1>1. IInv => SuccessIsChecked
    BY DEF IInv
  <1> QED
    BY <1>1, Invariance, PTL

(* council._open_validation_issues, _reconcile_stale_escalations: a job that goes
   to a person resolves no rule finding that still fires.                   *)
THEOREM LaunderingSafe == Spec => []NothingLaundered
  <1>1. IInv => NothingLaundered
    BY DEF IInv
  <1> QED
    BY <1>1, Invariance, PTL

(* council._reconcile_stale_escalations: a success keeps no contested repair. *)
THEOREM RepairsSafe == Spec => []RepairsStand
  <1>1. IInv => RepairsStand
    BY DEF IInv
  <1> QED
    BY <1>1, Invariance, PTL

(* council._repair, _validate: an uninterrupted run that ends with a live issue
   has used its validation rounds.                                          *)
THEOREM LeftBehindSafe == Spec => []NothingLeftBehind
  <1>1. IInv => NothingLeftBehind
    BY DEF IInv
  <1> QED
    BY <1>1, Invariance, PTL

=============================================================================
