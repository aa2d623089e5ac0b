--------------------------- MODULE JobLeaseProofs ---------------------------
(***************************************************************************)
(* What the leases and the run_epoch guarantee for every number of         *)
(* processes, jobs, threads and faults: an epoch fences everybody but its  *)
(* taker, a failure that is not resumable stays, a lease is not taken from *)
(* a worker that keeps it, without faults a job has one worker, and a job  *)
(* waits in the pool of a process at most once.                            *)
(***************************************************************************)
EXTENDS JobLease, FiniteSetTheorems, SequenceTheorems, TLAPS

-----------------------------------------------------------------------------
(* The inductive invariant.                                                 *)

(* TypeOK but for what the leases do not need: see PoolTypes.               *)
RowTypes ==
    /\ state \in [Jobs -> {"live", "gone"} \cup Terminal]
    /\ steps \in [Jobs -> 0..StepBudget]
    /\ owner \in [Jobs -> Processes \cup {None}]
    /\ lapsed \in [Jobs -> BOOLEAN]
    /\ taker \in [Jobs -> Processes \cup {None}] /\ shared \in [Jobs -> BOOLEAN]
    /\ files \in [Jobs -> {"whole", "bare", "none"}]
    /\ cleared \in [Processes -> SUBSET Jobs] /\ spoiled \in [Jobs -> BOOLEAN]
    /\ up \in [Processes -> {"up", "stopping", "down"}]
    /\ pc \in [Processes -> [Jobs -> {"none", "queued"} \cup Working]]
    /\ current \in [Processes -> [Jobs -> BOOLEAN]]
    /\ faults \in 0..MaxFaults

(* The epoch of a row is known to the process that took it, and to another
   only after it read it back too late.                                     *)
EpochFences ==
    \A p \in Processes, j \in Jobs : current[p][j] => taker[j] = p \/ shared[j]

(* Between the look and the transition of a resumption nobody else can move
   the job.                                                                 *)
ResumesFailed ==
    \A p \in Processes, j \in Jobs :
        pc[p][j] = "resume" /\ current[p][j] /\ ~shared[j] => state[j] = "failed"

(* Before the first fault whoever works on a job holds its lease, unless the
   purge deleted it.                                                        *)
Holds(p, j) == pc[p][j] \in Working \ {"released"}
HolderHasLease ==
    faults = 0 =>
        \A j \in Jobs :
            /\ \A p \in Processes : Holds(p, j) =>
                  state[j] = "gone" \/ (owner[j] = p /\ ~lapsed[j])
            /\ \A p, q \in Processes : Holds(p, j) /\ Holds(q, j) => p = q

(* A purge has seen to the directory before it, or anybody, removes the rows.
   Only a worker past its reading of the workbook makes it again, and such a
   worker was there when it was removed.                                    *)
PurgeOrder ==
    \A j \in Jobs :
        /\ state[j] = "gone" \/ (\E p \in Processes : j \in cleared[p]) =>
              files[j] = "none" \/ spoiled[j]
        /\ \A p \in Processes : pc[p][j] = "final" /\ files[j] # "whole" => spoiled[j]

IInv == RowTypes /\ EpochFences /\ ResumesFailed /\ HolderHasLease /\ PurgeOrder

-----------------------------------------------------------------------------
(* A worker's position and its epoch, changed at one place.                  *)
LEMMA PositionSet ==
    ASSUME RowTypes, NEW p \in Processes, NEW j \in Jobs,
           NEW x \in {"none", "queued"} \cup Working, At(p, j, x)
    PROVE  /\ pc' \in [Processes -> [Jobs -> {"none", "queued"} \cup Working]]
           /\ pc'[p][j] = x
           /\ \A q \in Processes, i \in Jobs : q # p \/ i # j => pc'[q][i] = pc[q][i]
  BY DEF RowTypes, At

LEMMA EpochSet ==
    ASSUME RowTypes, NEW p \in Processes, NEW j \in Jobs, NEW b \in BOOLEAN,
           current' = [current EXCEPT ![p][j] = b]
    PROVE  /\ current' \in [Processes -> [Jobs -> BOOLEAN]]
           /\ current'[p][j] = b
           /\ \A q \in Processes, i \in Jobs : q # p \/ i # j => current'[q][i] = current[q][i]
  BY DEF RowTypes

(* acquire_lease and the purge: no worker has the row's epoch any more.      *)
LEMMA EpochBumped ==
    ASSUME RowTypes, NEW j \in Jobs,
           current' = [q \in Processes |-> [current[q] EXCEPT ![j] = FALSE]]
    PROVE  /\ current' \in [Processes -> [Jobs -> BOOLEAN]]
           /\ \A q \in Processes : current'[q][j] = FALSE
           /\ \A q \in Processes, i \in Jobs : i # j => current'[q][i] = current[q][i]
  BY DEF RowTypes

(* Every step keeps the types.                                              *)
LEMMA TypeStep == IInv /\ [Next]_vars => RowTypes'
<1> SUFFICES ASSUME IInv, [Next]_vars PROVE RowTypes'
  OBVIOUS
<1>a. /\ {"acquired", "pinned", "resume", "boundary", "step", "file", "saved",
           "final", "handed", "ending", "released"} = Working
      /\ Terminal = {"failed", "fatal", "done"}
  BY DEF Working, Terminal
<1>b. RowTypes
  BY DEF IInv
<1> USE DEF vars, job, process, purge, worker, SetState, StateUnchanged, Fault
<1>1. ASSUME NEW p \in Processes, NEW j \in Jobs, Run(p, j) PROVE RowTypes'
  <2>1. CASE Acquire(p, j)
    BY <2>1, <1>a, <1>b, PositionSet, EpochSet, EpochBumped, LeaseAssumption DEF Acquire, Begins, RowTypes
  <2>2. CASE Contended(p, j)
    BY <2>2, <1>a, <1>b, PositionSet, EpochSet, EpochBumped, LeaseAssumption DEF Contended, Begins, RowTypes
  <2>3. CASE ReadEpoch(p, j)
    BY <2>3, <1>a, <1>b, PositionSet, EpochSet, EpochBumped, LeaseAssumption DEF ReadEpoch, RowTypes
  <2>4. CASE RowVanished(p, j)
    BY <2>4, <1>a, <1>b, PositionSet, EpochSet, EpochBumped, LeaseAssumption DEF RowVanished, RowTypes
  <2>5. CASE Look(p, j)
    BY <2>5, <1>a, <1>b, PositionSet, EpochSet, EpochBumped, LeaseAssumption DEF Look, RowTypes
  <2>6. CASE Resume(p, j)
    <3>1. pc' \in [Processes -> [Jobs -> {"none", "queued"} \cup Working]]
      BY <2>6, <1>a, <1>b, PositionSet DEF Resume
    <3>2. state' \in [Jobs -> {"live", "gone"} \cup Terminal]
      BY <2>6, <1>a, <1>b DEF Resume, RowTypes
    <3> QED  BY <2>6, <3>1, <3>2, <1>b DEF Resume, RowTypes
  <2>7. CASE Stop(p, j)
    BY <2>7, <1>a, <1>b, PositionSet, EpochSet, EpochBumped, LeaseAssumption DEF Stop, RowTypes
  <2>8. CASE StartStep(p, j)
    <3>1. pc' \in [Processes -> [Jobs -> {"none", "queued"} \cup Working]]
      BY <2>8, <1>a, <1>b, PositionSet DEF StartStep
    <3>2. state' \in [Jobs -> {"live", "gone"} \cup Terminal]
      BY <2>8, <1>a, <1>b DEF StartStep, RowTypes
    <3>3. steps' \in [Jobs -> 0..StepBudget]
      <4>1. CASE current[p][j] /\ ~Spent(j)
        <5>1. steps' = [steps EXCEPT ![j] = steps[j] + 1]
          BY <2>8, <4>1 DEF StartStep
        <5>2. steps[j] + 1 \in 0..StepBudget
          <6>1. steps[j] \in 0..StepBudget /\ steps[j] # StepBudget
            BY <4>1, <1>b DEF RowTypes, Spent
          <6> QED  BY <6>1, LeaseAssumption
        <5> QED  BY <5>1, <5>2, <1>b DEF RowTypes
      <4>2. CASE ~current[p][j] \/ Spent(j)
        BY <2>8, <4>2, <1>b DEF StartStep, RowTypes
      <4> QED  BY <4>1, <4>2
    <3> QED  BY <2>8, <3>1, <3>2, <3>3, <1>b DEF StartStep, RowTypes
  <2>9. CASE SaveRows(p, j)
    BY <2>9, <1>a, <1>b, PositionSet, EpochSet, EpochBumped, LeaseAssumption DEF SaveRows, RowTypes
  <2>10. CASE CheckLease(p, j)
    BY <2>10, <1>a, <1>b, PositionSet, EpochSet, EpochBumped, LeaseAssumption DEF CheckLease, RowTypes
  <2>11. CASE Replace(p, j)
    BY <2>11, <1>a, <1>b, PositionSet, EpochSet, EpochBumped, LeaseAssumption DEF Replace, RowTypes
  <2>12. CASE Raise(p, j)
    BY <2>12, <1>a, <1>b, PositionSet, EpochSet, EpochBumped, LeaseAssumption DEF Raise, RowTypes
  <2>13. CASE Release(p, j)
    <3>1. pc' \in [Processes -> [Jobs -> {"none", "queued"} \cup Working]]
      BY <2>13, <1>a, <1>b, PositionSet DEF Release, GiveUp
    <3>2. owner' \in [Jobs -> Processes \cup {None}] /\ lapsed' \in [Jobs -> BOOLEAN]
      BY <2>13, <1>b DEF Release, GiveUp, RowTypes
    <3> QED  BY <2>13, <3>1, <3>2, <1>b DEF Release, GiveUp, RowTypes
  <2>14. CASE Finished(p, j)
    BY <2>14, <1>a, <1>b, PositionSet, EpochSet, EpochBumped, LeaseAssumption DEF Finished, RowTypes
  <2>15. ASSUME NEW s \in Terminal, Transition(p, j, s) PROVE RowTypes'
    <3>1. pc' \in [Processes -> [Jobs -> {"none", "queued"} \cup Working]]
      BY <2>15, <1>a, <1>b, PositionSet DEF Transition
    <3>2. state' \in [Jobs -> {"live", "gone"} \cup Terminal]
      BY <2>15, <1>b DEF Transition, RowTypes
    <3> QED  BY <2>15, <3>1, <3>2, <1>b DEF Transition, RowTypes
  <2>16. CASE Finalize(p, j)
    BY <2>16, <1>a, <1>b, PositionSet DEF Finalize, RowTypes
  <2>17. CASE HandOver(p, j)
    BY <2>17, <1>a, <1>b, PositionSet DEF HandOver, RowTypes
  <2> QED  BY <1>1, <2>1, <2>2, <2>3, <2>4, <2>5, <2>6, <2>7, <2>8, <2>9, <2>10, <2>11, <2>12, <2>13, <2>14, <2>15, <2>16, <2>17 DEF Run
<1>2. ASSUME NEW p \in Processes, NEW j \in Jobs, Heartbeat(p, j) PROVE RowTypes'
  BY <1>2, <1>b DEF Heartbeat, RowTypes
<1>3. ASSUME NEW p \in Processes, NEW j \in Jobs, ResumeRequest(p, j) PROVE RowTypes'
  BY <1>3, <1>b DEF ResumeRequest, Submit, RowTypes
<1>4. ASSUME NEW p \in Processes, Sweep(p) PROVE RowTypes'
  BY <1>4, <1>b DEF Sweep, Submit, RowTypes
<1>5. ASSUME NEW p \in Processes, ListExpired(p) PROVE RowTypes'
  BY <1>5, <1>b DEF ListExpired, RowTypes
<1>6. ASSUME NEW p \in Processes, NEW j \in Jobs, PurgeFiles(p, j) PROVE RowTypes'
  BY <1>6, <1>b DEF PurgeFiles, Attended, RowTypes
<1>7. ASSUME NEW p \in Processes, NEW j \in Jobs, DeleteJob(p, j) PROVE RowTypes'
  BY <1>7, <1>b, EpochBumped DEF DeleteJob, RowTypes
<1>8. ASSUME NEW p \in Processes, Vanish(p), UNCHANGED faults \/ Fault PROVE RowTypes'
  BY <1>8, <1>b, LeaseAssumption DEF Vanish, RowTypes
<1>9. ASSUME NEW p \in Processes, Start(p) PROVE RowTypes'
  BY <1>9, <1>b DEF Start, RowTypes
<1>10. ASSUME NEW j \in Jobs, Expire(j) PROVE RowTypes'
  BY <1>10, <1>b DEF Expire, RowTypes
<1>11. ASSUME NEW p \in Processes, Shutdown(p) PROVE RowTypes'
  BY <1>11, <1>b, LeaseAssumption DEF Shutdown, RowTypes
<1>12. ASSUME NEW j \in Jobs, Stall(j) PROVE RowTypes'
  BY <1>12, <1>b, LeaseAssumption DEF Stall, RowTypes
<1>13. ASSUME NEW p \in Processes, NEW j \in Jobs, ReleaseFails(p, j) PROVE RowTypes'
  BY <1>13, <1>a, <1>b, PositionSet, EpochSet, LeaseAssumption DEF ReleaseFails, RowTypes
<1>14. CASE UNCHANGED vars
  BY <1>14, <1>b DEF RowTypes
<1>15. ASSUME NEW p \in Processes, NEW j \in Jobs, PurgeFails(p, j) PROVE RowTypes'
  BY <1>15, <1>b, LeaseAssumption DEF PurgeFails, Attended, RowTypes
<1> QED  BY <1>1, <1>2, <1>3, <1>4, <1>5, <1>6, <1>7, <1>8, <1>9, <1>10, <1>11, <1>12,
            <1>13, <1>14, <1>15 DEF Next, Purge, Exit, Faults, Crash

(* An epoch becomes known when it is read back, and stale when the next taker
   bumps it.                                                                *)
LEMMA FencesStep == IInv /\ [Next]_vars => EpochFences'
<1> SUFFICES ASSUME IInv, [Next]_vars PROVE EpochFences'
  OBVIOUS
<1> USE DEF IInv, EpochFences, vars, job, process, purge, worker, SetState,
            StateUnchanged, Fault
<1>a. RowTypes
  BY DEF IInv
<1>1. ASSUME NEW p \in Processes, NEW j \in Jobs, Run(p, j) PROVE EpochFences'
  <2>1. CASE Acquire(p, j)
    <3>1. /\ \A q \in Processes : current'[q][j] = FALSE
          /\ \A q \in Processes, i \in Jobs : i # j => current'[q][i] = current[q][i]
      BY <2>1, <1>a, EpochBumped DEF Acquire
    <3>2. \A i \in Jobs : i # j => taker'[i] = taker[i] /\ shared'[i] = shared[i]
      BY <2>1, <1>a DEF Acquire, RowTypes
    <3> QED  BY <3>1, <3>2
  <2>2. CASE ReadEpoch(p, j)
    <3>1. /\ current'[p][j] = TRUE
          /\ \A q \in Processes, i \in Jobs :
                q # p \/ i # j => current'[q][i] = current[q][i]
      BY <2>2, <1>a, EpochSet DEF ReadEpoch
    <3>2. /\ shared'[j] = (shared[j] \/ taker[j] # p) /\ taker' = taker
          /\ \A i \in Jobs : i # j => shared'[i] = shared[i]
      BY <2>2, <1>a DEF ReadEpoch, RowTypes
    <3> QED  BY <3>1, <3>2
  <2>3. CASE Finished(p, j)
    BY <2>3, <1>a, EpochSet DEF Finished
  <2>4. CASE \/ Contended(p, j) \/ RowVanished(p, j) \/ Look(p, j)
             \/ Resume(p, j) \/ Stop(p, j) \/ StartStep(p, j)
             \/ SaveRows(p, j) \/ CheckLease(p, j) \/ Replace(p, j)
             \/ Raise(p, j) \/ Release(p, j) \/ Finalize(p, j) \/ HandOver(p, j)
    BY <2>4
       DEF Contended, Begins, RowVanished, Look, Resume, Stop, StartStep, Finalize, HandOver,
           SaveRows, CheckLease, Replace, Raise, Release, GiveUp
  <2>5. ASSUME NEW s \in Terminal, Transition(p, j, s) PROVE EpochFences'
    BY <2>5 DEF Transition
  <2> QED  BY <1>1, <2>1, <2>2, <2>3, <2>4, <2>5 DEF Run
<1>2. ASSUME NEW p \in Processes, NEW j \in Jobs, DeleteJob(p, j) PROVE EpochFences'
  BY <1>2, <1>a, EpochBumped DEF DeleteJob
<1>3. ASSUME NEW p \in Processes, Exit(p) PROVE EpochFences'
  BY <1>3, <1>a DEF Exit, Vanish, RowTypes
<1>4. ASSUME NEW p \in Processes, Crash(p) PROVE EpochFences'
  BY <1>4, <1>a DEF Crash, Vanish, RowTypes
<1>5. ASSUME NEW p \in Processes, NEW j \in Jobs, ReleaseFails(p, j) PROVE EpochFences'
  BY <1>5, <1>a, EpochSet DEF ReleaseFails
<1>6. CASE \/ \E p \in Processes, j \in Jobs :
                 Heartbeat(p, j) \/ ResumeRequest(p, j) \/ PurgeFiles(p, j) \/ PurgeFails(p, j)
           \/ \E p \in Processes :
                 Sweep(p) \/ ListExpired(p) \/ Start(p) \/ Shutdown(p)
           \/ \E j \in Jobs :
                 Expire(j) \/ Stall(j)
  BY <1>6
     DEF Heartbeat, ResumeRequest, Submit, Sweep, ListExpired, PurgeFiles,
         PurgeFails, Start, Expire, Shutdown, Stall
<1>7. CASE UNCHANGED vars
  BY <1>7
<1> QED  BY <1>1, <1>2, <1>3, <1>4, <1>5, <1>6, <1>7 DEF Next, Purge, Faults

(* A failed job is moved by a fenced transition only, and by the fence there is
   one worker who can make it.                                              *)
LEMMA ResumeStep == IInv /\ [Next]_vars => ResumesFailed'
<1> SUFFICES ASSUME IInv, [Next]_vars PROVE ResumesFailed'
  OBVIOUS
<1> USE DEF IInv, ResumesFailed, vars, job, process, purge, worker, SetState,
            StateUnchanged, Fault
<1>a. RowTypes
  BY DEF IInv
<1>1. ASSUME NEW p \in Processes, NEW j \in Jobs, Run(p, j) PROVE ResumesFailed'
  <2>1. CASE Acquire(p, j)
    <3>1. /\ pc'[p][j] # "resume"
          /\ \A q \in Processes, i \in Jobs : q # p \/ i # j => pc'[q][i] = pc[q][i]
      BY <2>1, <1>a, PositionSet DEF Acquire, Working
    <3>2. /\ \A q \in Processes : current'[q][j] = FALSE
          /\ \A q \in Processes, i \in Jobs : i # j => current'[q][i] = current[q][i]
      BY <2>1, <1>a, EpochBumped DEF Acquire
    <3> QED  BY <2>1, <3>1, <3>2 DEF Acquire
  <2>2. CASE Contended(p, j)
    <3>1. /\ pc'[p][j] # "resume"
          /\ \A q \in Processes, i \in Jobs : q # p \/ i # j => pc'[q][i] = pc[q][i]
      BY <2>2, <1>a, PositionSet DEF Contended, Working
    <3> QED  BY <2>2, <3>1 DEF Contended
  <2>3. CASE ReadEpoch(p, j)
    <3>1. /\ pc'[p][j] # "resume"
          /\ \A q \in Processes, i \in Jobs : q # p \/ i # j => pc'[q][i] = pc[q][i]
      BY <2>3, <1>a, PositionSet DEF ReadEpoch, Working
    <3>2. \A q \in Processes, i \in Jobs :
             q # p \/ i # j => current'[q][i] = current[q][i]
      BY <2>3, <1>a, EpochSet DEF ReadEpoch
    <3>3. \A i \in Jobs : shared[i] => shared'[i]
      BY <2>3, <1>a DEF ReadEpoch, RowTypes
    <3> QED  BY <2>3, <3>1, <3>2, <3>3 DEF ReadEpoch
  <2>4. CASE RowVanished(p, j)
    <3>1. /\ pc'[p][j] # "resume"
          /\ \A q \in Processes, i \in Jobs : q # p \/ i # j => pc'[q][i] = pc[q][i]
      BY <2>4, <1>a, PositionSet DEF RowVanished, Working
    <3> QED  BY <2>4, <3>1 DEF RowVanished
  <2>5. CASE Look(p, j)
    <3>1. /\ pc'[p][j] = "resume" => state[j] = "failed"
          /\ \A q \in Processes, i \in Jobs : q # p \/ i # j => pc'[q][i] = pc[q][i]
      BY <2>5, <1>a, PositionSet DEF Look, Working
    <3> QED  BY <2>5, <3>1 DEF Look
  <2>6. CASE Resume(p, j)
    <3>1. /\ pc'[p][j] # "resume"
          /\ \A q \in Processes, i \in Jobs : q # p \/ i # j => pc'[q][i] = pc[q][i]
      BY <2>6, <1>a, PositionSet DEF Resume, Working
    <3>2. \A i \in Jobs : i # j => state'[i] = state[i]
      BY <2>6, <1>a DEF Resume, RowTypes
    <3>3. state'[j] # state[j] => current[p][j]
      BY <2>6, <1>a DEF Resume, RowTypes
    <3> QED  BY <2>6, <3>1, <3>2, <3>3 DEF Resume, EpochFences
  <2>7. CASE Stop(p, j)
    <3>1. /\ pc'[p][j] # "resume"
          /\ \A q \in Processes, i \in Jobs : q # p \/ i # j => pc'[q][i] = pc[q][i]
      BY <2>7, <1>a, PositionSet DEF Stop, Working
    <3> QED  BY <2>7, <3>1 DEF Stop
  <2>8. CASE StartStep(p, j)
    <3>1. /\ pc'[p][j] # "resume"
          /\ \A q \in Processes, i \in Jobs : q # p \/ i # j => pc'[q][i] = pc[q][i]
      BY <2>8, <1>a, PositionSet DEF StartStep, Working
    <3>2. \A i \in Jobs : i # j => state'[i] = state[i]
      BY <2>8, <1>a DEF StartStep, RowTypes
    <3>3. state'[j] # state[j] => state[j] = "live"
      BY <2>8, <1>a DEF StartStep, RowTypes
    <3> QED  BY <2>8, <3>1, <3>2, <3>3 DEF StartStep
  <2>9. CASE SaveRows(p, j)
    <3>1. /\ pc'[p][j] # "resume"
          /\ \A q \in Processes, i \in Jobs : q # p \/ i # j => pc'[q][i] = pc[q][i]
      BY <2>9, <1>a, PositionSet DEF SaveRows, Working
    <3> QED  BY <2>9, <3>1 DEF SaveRows
  <2>10. CASE CheckLease(p, j)
    <3>1. /\ pc'[p][j] # "resume"
          /\ \A q \in Processes, i \in Jobs : q # p \/ i # j => pc'[q][i] = pc[q][i]
      BY <2>10, <1>a, PositionSet DEF CheckLease, Working
    <3> QED  BY <2>10, <3>1 DEF CheckLease
  <2>11. CASE Replace(p, j)
    <3>1. /\ pc'[p][j] # "resume"
          /\ \A q \in Processes, i \in Jobs : q # p \/ i # j => pc'[q][i] = pc[q][i]
      BY <2>11, <1>a, PositionSet DEF Replace, Working
    <3> QED  BY <2>11, <3>1 DEF Replace
  <2>12. CASE Raise(p, j)
    <3>1. /\ pc'[p][j] # "resume"
          /\ \A q \in Processes, i \in Jobs : q # p \/ i # j => pc'[q][i] = pc[q][i]
      BY <2>12, <1>a, PositionSet DEF Raise, Working
    <3> QED  BY <2>12, <3>1 DEF Raise
  <2>13. CASE Release(p, j)
    <3>1. /\ pc'[p][j] # "resume"
          /\ \A q \in Processes, i \in Jobs : q # p \/ i # j => pc'[q][i] = pc[q][i]
      BY <2>13, <1>a, PositionSet DEF Release, GiveUp, Working
    <3> QED  BY <2>13, <3>1 DEF Release, GiveUp
  <2>14. CASE Finished(p, j)
    <3>1. /\ pc'[p][j] # "resume"
          /\ \A q \in Processes, i \in Jobs : q # p \/ i # j => pc'[q][i] = pc[q][i]
      BY <2>14, <1>a, PositionSet DEF Finished, Working
    <3>2. \A q \in Processes, i \in Jobs :
             q # p \/ i # j => current'[q][i] = current[q][i]
      BY <2>14, <1>a, EpochSet DEF Finished
    <3> QED  BY <2>14, <3>1, <3>2 DEF Finished
  <2>15. ASSUME NEW s \in Terminal, Transition(p, j, s) PROVE ResumesFailed'
    <3>1. /\ pc'[p][j] # "resume"
          /\ \A q \in Processes, i \in Jobs : q # p \/ i # j => pc'[q][i] = pc[q][i]
      BY <2>15, <1>a, PositionSet DEF Transition, Working
    <3>2. \A i \in Jobs : i # j => state'[i] = state[i]
      BY <2>15, <1>a DEF Transition, RowTypes
    <3>3. state'[j] # state[j] => state[j] = "live"
      BY <2>15, <1>a DEF Transition, RowTypes
    <3> QED  BY <2>15, <3>1, <3>2, <3>3 DEF Transition
  <2>16. CASE Finalize(p, j)
    <3>1. /\ pc'[p][j] # "resume"
          /\ \A q \in Processes, i \in Jobs : q # p \/ i # j => pc'[q][i] = pc[q][i]
      BY <2>16, <1>a, PositionSet DEF Finalize, Working
    <3> QED  BY <2>16, <3>1 DEF Finalize
  <2>17. CASE HandOver(p, j)
    <3>1. /\ pc'[p][j] # "resume"
          /\ \A q \in Processes, i \in Jobs : q # p \/ i # j => pc'[q][i] = pc[q][i]
      BY <2>17, <1>a, PositionSet DEF HandOver, Working
    <3> QED  BY <2>17, <3>1 DEF HandOver
  <2> QED  BY <1>1, <2>1, <2>2, <2>3, <2>4, <2>5, <2>6, <2>7, <2>8, <2>9, <2>10, <2>11, <2>12, <2>13, <2>14, <2>15, <2>16, <2>17
     DEF Run
<1>2. ASSUME NEW p \in Processes, NEW j \in Jobs, ResumeRequest(p, j) PROVE ResumesFailed'
  <2>1. \A q \in Processes, i \in Jobs : pc'[q][i] \in {"queued", pc[q][i]}
    BY <1>2, <1>a DEF ResumeRequest, Submit, RowTypes
  <2> QED  BY <1>2, <2>1 DEF ResumeRequest, Submit
<1>3. ASSUME NEW p \in Processes, Sweep(p) PROVE ResumesFailed'
  <2>1. \A q \in Processes, i \in Jobs : pc'[q][i] \in {"queued", pc[q][i]}
    BY <1>3, <1>a DEF Sweep, Submit, RowTypes
  <2> QED  BY <1>3, <2>1 DEF Sweep, Submit
<1>4. ASSUME NEW p \in Processes, NEW j \in Jobs, DeleteJob(p, j) PROVE ResumesFailed'
  <2>1. /\ \A q \in Processes : current'[q][j] = FALSE
        /\ \A q \in Processes, i \in Jobs : i # j => current'[q][i] = current[q][i]
    BY <1>4, <1>a, EpochBumped DEF DeleteJob
  <2>2. \A i \in Jobs : i # j => state'[i] = state[i]
    BY <1>4, <1>a DEF DeleteJob, RowTypes
  <2> QED  BY <1>4, <2>1, <2>2 DEF DeleteJob
<1>5. ASSUME NEW p \in Processes, Exit(p) PROVE ResumesFailed'
  BY <1>5, <1>a DEF Exit, Vanish, RowTypes
<1>6. ASSUME NEW p \in Processes, Crash(p) PROVE ResumesFailed'
  BY <1>6, <1>a DEF Crash, Vanish, RowTypes
<1>7. ASSUME NEW p \in Processes, Shutdown(p) PROVE ResumesFailed'
  BY <1>7, <1>a DEF Shutdown, RowTypes
<1>8. ASSUME NEW p \in Processes, NEW j \in Jobs, ReleaseFails(p, j) PROVE ResumesFailed'
  <2>1. /\ pc'[p][j] # "resume"
        /\ \A q \in Processes, i \in Jobs : q # p \/ i # j => pc'[q][i] = pc[q][i]
    BY <1>8, <1>a, PositionSet DEF ReleaseFails, Working
  <2>2. \A q \in Processes, i \in Jobs :
         q # p \/ i # j => current'[q][i] = current[q][i]
    BY <1>8, <1>a, EpochSet DEF ReleaseFails
  <2> QED  BY <1>8, <2>1, <2>2 DEF ReleaseFails
<1>9. CASE \/ \E p \in Processes, j \in Jobs :
                 Heartbeat(p, j) \/ PurgeFiles(p, j) \/ PurgeFails(p, j)
           \/ \E p \in Processes :
                 ListExpired(p) \/ Start(p)
           \/ \E j \in Jobs :
                 Expire(j) \/ Stall(j)
  BY <1>9 DEF Heartbeat, ListExpired, PurgeFiles, PurgeFails, Start, Expire, Stall
<1>10. CASE UNCHANGED vars
  BY <1>10
<1> QED  BY <1>1, <1>2, <1>3, <1>4, <1>5, <1>6, <1>7, <1>8, <1>9,
            <1>10 DEF Next, Purge, Faults

-----------------------------------------------------------------------------
(* Whoever lets go of a job, or only goes on with it, leaves the rest alone. *)
LEMMA HolderKept ==
    ASSUME IInv, UNCHANGED <<owner, lapsed>>, faults' = 0 => faults = 0,
           \A j \in Jobs : state[j] = "gone" => state'[j] = "gone",
           \A p \in Processes, j \in Jobs : Holds(p, j)' => Holds(p, j)
    PROVE  HolderHasLease'
  BY DEF IInv, HolderHasLease

(* The position of one worker says who holds what.                          *)
LEMMA HoldsSet ==
    ASSUME RowTypes, NEW p \in Processes, NEW j \in Jobs,
           NEW x \in {"none", "queued"} \cup Working, At(p, j, x)
    PROVE  /\ Holds(p, j)' <=> x \in Working \ {"released"}
           /\ \A q \in Processes, i \in Jobs :
                 q # p \/ i # j => (Holds(q, i)' <=> Holds(q, i))
<1>1. "released" \in Working /\ "none" \notin Working /\ "queued" \notin Working
  BY DEF Working
<1>2. pc'[p][j] = x /\ \A q \in Processes, i \in Jobs :
         q # p \/ i # j => pc'[q][i] = pc[q][i]
  BY PositionSet
<1> QED  BY <1>1, <1>2 DEF Holds

(* A lease is free before it is taken, and runs out only under the living when
   they stall.                                                              *)
LEMMA HolderStep == IInv /\ [Next]_vars => HolderHasLease'
<1> SUFFICES ASSUME IInv, [Next]_vars PROVE HolderHasLease'
  OBVIOUS
<1> USE DEF vars, job, process, purge, worker, SetState, StateUnchanged,
            Fault
<1>a. RowTypes
  BY DEF IInv
<1>b. IInv
  OBVIOUS
<1>1. ASSUME NEW p \in Processes, NEW j \in Jobs, Run(p, j) PROVE HolderHasLease'
  <2>1. CASE Acquire(p, j)
    <3>1. state[j] # "gone" /\ Unleased(j) /\ faults' = faults
      BY <2>1 DEF Acquire
    <3>2. /\ owner' = [owner EXCEPT ![j] = p] /\ lapsed' = [lapsed EXCEPT ![j] = FALSE]
          /\ state' = state /\ At(p, j, "acquired")
      BY <2>1 DEF Acquire
    <3>3. /\ owner'[j] = p /\ ~lapsed'[j]
          /\ \A i \in Jobs : i # j => owner'[i] = owner[i] /\ lapsed'[i] = lapsed[i]
      BY <3>2, <1>a DEF RowTypes
    <3>4. \A q \in Processes, i \in Jobs :
             q # p \/ i # j => (Holds(q, i)' <=> Holds(q, i))
      BY <3>2, <1>a, HoldsSet DEF Working
    <3>5. faults = 0 => \A q \in Processes : ~Holds(q, j)
      BY <3>1, LeaseAssumption DEF IInv, HolderHasLease, Unleased
    <3> QED  BY <3>1, <3>2, <3>3, <3>4, <3>5 DEF IInv, HolderHasLease
  <2>2. CASE Contended(p, j)
    <3>1. \A q \in Processes, i \in Jobs : Holds(q, i)' => Holds(q, i)
      BY <2>2, <1>a, HoldsSet DEF Contended, Begins, Working, Holds
    <3>2. \A i \in Jobs : state[i] = "gone" => state'[i] = "gone"
      BY <2>2, <1>a DEF Contended, Begins, RowTypes
    <3> QED  BY <2>2, <3>1, <3>2, <1>b, HolderKept DEF Contended, Begins
  <2>3. CASE ReadEpoch(p, j)
    <3>1. \A q \in Processes, i \in Jobs : Holds(q, i)' => Holds(q, i)
      BY <2>3, <1>a, HoldsSet DEF ReadEpoch, Working, Holds
    <3>2. \A i \in Jobs : state[i] = "gone" => state'[i] = "gone"
      BY <2>3, <1>a DEF ReadEpoch, RowTypes
    <3> QED  BY <2>3, <3>1, <3>2, <1>b, HolderKept DEF ReadEpoch
  <2>4. CASE RowVanished(p, j)
    <3>1. \A q \in Processes, i \in Jobs : Holds(q, i)' => Holds(q, i)
      BY <2>4, <1>a, HoldsSet DEF RowVanished, Working, Holds
    <3>2. \A i \in Jobs : state[i] = "gone" => state'[i] = "gone"
      BY <2>4, <1>a DEF RowVanished, RowTypes
    <3> QED  BY <2>4, <3>1, <3>2, <1>b, HolderKept DEF RowVanished
  <2>5. CASE Look(p, j)
    <3>1. \A q \in Processes, i \in Jobs : Holds(q, i)' => Holds(q, i)
      BY <2>5, <1>a, HoldsSet DEF Look, Working, Holds
    <3>2. \A i \in Jobs : state[i] = "gone" => state'[i] = "gone"
      BY <2>5, <1>a DEF Look, RowTypes
    <3> QED  BY <2>5, <3>1, <3>2, <1>b, HolderKept DEF Look
  <2>6. CASE Resume(p, j)
    <3>1. \A q \in Processes, i \in Jobs : Holds(q, i)' => Holds(q, i)
      BY <2>6, <1>a, HoldsSet DEF Resume, Working, Holds
    <3>2. \A i \in Jobs : state[i] = "gone" => state'[i] = "gone"
      BY <2>6, <1>a DEF Resume, RowTypes
    <3> QED  BY <2>6, <3>1, <3>2, <1>b, HolderKept DEF Resume
  <2>7. CASE Stop(p, j)
    <3>1. \A q \in Processes, i \in Jobs : Holds(q, i)' => Holds(q, i)
      BY <2>7, <1>a, HoldsSet DEF Stop, Working, Holds
    <3>2. \A i \in Jobs : state[i] = "gone" => state'[i] = "gone"
      BY <2>7, <1>a DEF Stop, RowTypes
    <3> QED  BY <2>7, <3>1, <3>2, <1>b, HolderKept DEF Stop
  <2>8. CASE StartStep(p, j)
    <3>1. \A q \in Processes, i \in Jobs : Holds(q, i)' => Holds(q, i)
      BY <2>8, <1>a, HoldsSet DEF StartStep, Working, Holds
    <3>2. \A i \in Jobs : state[i] = "gone" => state'[i] = "gone"
      BY <2>8, <1>a DEF StartStep, RowTypes
    <3> QED  BY <2>8, <3>1, <3>2, <1>b, HolderKept DEF StartStep
  <2>9. CASE SaveRows(p, j)
    <3>1. \A q \in Processes, i \in Jobs : Holds(q, i)' => Holds(q, i)
      BY <2>9, <1>a, HoldsSet DEF SaveRows, Working, Holds
    <3>2. \A i \in Jobs : state[i] = "gone" => state'[i] = "gone"
      BY <2>9, <1>a DEF SaveRows, RowTypes
    <3> QED  BY <2>9, <3>1, <3>2, <1>b, HolderKept DEF SaveRows
  <2>10. CASE CheckLease(p, j)
    <3>1. \A q \in Processes, i \in Jobs : Holds(q, i)' => Holds(q, i)
      BY <2>10, <1>a, HoldsSet DEF CheckLease, Working, Holds
    <3>2. \A i \in Jobs : state[i] = "gone" => state'[i] = "gone"
      BY <2>10, <1>a DEF CheckLease, RowTypes
    <3> QED  BY <2>10, <3>1, <3>2, <1>b, HolderKept DEF CheckLease
  <2>11. CASE Replace(p, j)
    <3>1. \A q \in Processes, i \in Jobs : Holds(q, i)' => Holds(q, i)
      BY <2>11, <1>a, HoldsSet DEF Replace, Working, Holds
    <3>2. \A i \in Jobs : state[i] = "gone" => state'[i] = "gone"
      BY <2>11, <1>a DEF Replace, RowTypes
    <3> QED  BY <2>11, <3>1, <3>2, <1>b, HolderKept DEF Replace
  <2>12. CASE Raise(p, j)
    <3>1. \A q \in Processes, i \in Jobs : Holds(q, i)' => Holds(q, i)
      BY <2>12, <1>a, HoldsSet DEF Raise, Working, Holds
    <3>2. \A i \in Jobs : state[i] = "gone" => state'[i] = "gone"
      BY <2>12, <1>a DEF Raise, RowTypes
    <3>3. faults' = 0 => faults = 0
      BY <2>12, <1>a, LeaseAssumption DEF Raise, RowTypes
    <3> QED  BY <2>12, <3>1, <3>2, <3>3, <1>b, HolderKept DEF Raise
  <2>13. CASE Release(p, j)
    <3>1. faults' = faults /\ state' = state /\ At(p, j, "released") /\ Holds(p, j)
      BY <2>13 DEF Release, GiveUp, Holds, Working
    <3>2. /\ ~Holds(p, j)'
          /\ \A q \in Processes, i \in Jobs :
                q # p \/ i # j => (Holds(q, i)' <=> Holds(q, i))
      BY <3>1, <1>a, HoldsSet DEF Working
    <3>3. \A i \in Jobs : i # j => owner'[i] = owner[i] /\ lapsed'[i] = lapsed[i]
      BY <2>13, <1>a DEF Release, GiveUp, RowTypes
    <3> QED  BY <3>1, <3>2, <3>3 DEF IInv, HolderHasLease
  <2>14. CASE Finished(p, j)
    <3>1. \A q \in Processes, i \in Jobs : Holds(q, i)' => Holds(q, i)
      BY <2>14, <1>a, HoldsSet DEF Finished, Working, Holds
    <3>2. \A i \in Jobs : state[i] = "gone" => state'[i] = "gone"
      BY <2>14, <1>a DEF Finished, RowTypes
    <3> QED  BY <2>14, <3>1, <3>2, <1>b, HolderKept DEF Finished
  <2>15. ASSUME NEW s \in Terminal, Transition(p, j, s) PROVE HolderHasLease'
    <3>1. \A q \in Processes, i \in Jobs : Holds(q, i)' => Holds(q, i)
      BY <2>15, <1>a, HoldsSet DEF Transition, Working, Holds
    <3>2. \A i \in Jobs : state[i] = "gone" => state'[i] = "gone"
      BY <2>15, <1>a DEF Transition, RowTypes
    <3> QED  BY <2>15, <3>1, <3>2, <1>b, HolderKept DEF Transition
  <2>16. CASE Finalize(p, j)
    <3>1. \A q \in Processes, i \in Jobs : Holds(q, i)' => Holds(q, i)
      BY <2>16, <1>a, HoldsSet DEF Finalize, Working, Holds
    <3> QED  BY <2>16, <3>1, <1>b, HolderKept DEF Finalize
  <2>17. CASE HandOver(p, j)
    <3>1. \A q \in Processes, i \in Jobs : Holds(q, i)' => Holds(q, i)
      BY <2>17, <1>a, HoldsSet DEF HandOver, Working, Holds
    <3> QED  BY <2>17, <3>1, <1>b, HolderKept DEF HandOver
  <2> QED  BY <1>1, <2>1, <2>2, <2>3, <2>4, <2>5, <2>6, <2>7, <2>8, <2>9, <2>10, <2>11, <2>12, <2>13, <2>14, <2>15, <2>16,
     <2>17
     DEF Run
<1>2. ASSUME NEW p \in Processes, NEW j \in Jobs, Heartbeat(p, j) PROVE HolderHasLease'
  <2>1. /\ UNCHANGED <<faults, state, pc, owner>>
        /\ \A i \in Jobs : lapsed'[i] => lapsed[i]
    BY <1>2, <1>a DEF Heartbeat, RowTypes
  <2> QED  BY <2>1 DEF IInv, HolderHasLease, Holds
<1>3. ASSUME NEW p \in Processes, NEW j \in Jobs, ResumeRequest(p, j) PROVE HolderHasLease'
  <2>1. \A q \in Processes, i \in Jobs : pc'[q][i] \in {"queued", pc[q][i]}
    BY <1>3, <1>a DEF ResumeRequest, Submit, RowTypes
  <2>2. \A q \in Processes, i \in Jobs : Holds(q, i)' => Holds(q, i)
    BY <2>1 DEF Holds, Working
  <2> QED  BY <1>3, <2>2, <1>b, HolderKept DEF ResumeRequest, Submit
<1>4. ASSUME NEW p \in Processes, Sweep(p) PROVE HolderHasLease'
  <2>1. \A q \in Processes, i \in Jobs : pc'[q][i] \in {"queued", pc[q][i]}
    BY <1>4, <1>a DEF Sweep, Submit, RowTypes
  <2>2. \A q \in Processes, i \in Jobs : Holds(q, i)' => Holds(q, i)
    BY <2>1 DEF Holds, Working
  <2> QED  BY <1>4, <2>2, <1>b, HolderKept DEF Sweep, Submit
<1>5. ASSUME NEW p \in Processes, ListExpired(p) PROVE HolderHasLease'
  BY <1>5, <1>b, HolderKept DEF ListExpired, Holds
<1>6. ASSUME NEW p \in Processes, NEW j \in Jobs, PurgeFiles(p, j) PROVE HolderHasLease'
  BY <1>6, <1>b, HolderKept DEF PurgeFiles, Holds
<1>7. ASSUME NEW p \in Processes, NEW j \in Jobs, DeleteJob(p, j) PROVE HolderHasLease'
  <2>1. /\ UNCHANGED <<faults, pc>> /\ state'[j] = "gone"
        /\ \A i \in Jobs : i # j =>
              state'[i] = state[i] /\ owner'[i] = owner[i] /\ lapsed'[i] = lapsed[i]
    BY <1>7, <1>a DEF DeleteJob, RowTypes
  <2> QED  BY <2>1 DEF IInv, HolderHasLease, Holds
<1>8. ASSUME NEW p \in Processes, Exit(p) PROVE HolderHasLease'
  <2>1. \A q \in Processes, i \in Jobs : Holds(q, i)' => Holds(q, i)
    BY <1>8, <1>a DEF Exit, Vanish, RowTypes, Holds, Working
  <2> QED  BY <1>8, <2>1, <1>b, HolderKept DEF Exit, Vanish
<1>9. ASSUME NEW p \in Processes, Start(p) PROVE HolderHasLease'
  BY <1>9, <1>b, HolderKept DEF Start, Holds
<1>10. ASSUME NEW j \in Jobs, Expire(j) PROVE HolderHasLease'
  <2>1. /\ UNCHANGED <<faults, state, pc, owner>> /\ owner[j] # None
        /\ ~Alive(owner[j], j)
        /\ \A i \in Jobs : i # j => lapsed'[i] = lapsed[i]
    BY <1>10, <1>a DEF Expire, RowTypes
  <2>2. \A q \in Processes : Holds(q, j) => q # owner[j]
    BY <2>1 DEF Holds, Alive
  <2> QED  BY <2>1, <2>2 DEF IInv, HolderHasLease, Holds
<1>11. ASSUME NEW p \in Processes, Crash(p) PROVE HolderHasLease'
  BY <1>11, <1>a, LeaseAssumption DEF Crash, RowTypes, HolderHasLease
<1>12. ASSUME NEW p \in Processes, Shutdown(p) PROVE HolderHasLease'
  BY <1>12, <1>a, LeaseAssumption DEF Shutdown, RowTypes, HolderHasLease
<1>13. ASSUME NEW j \in Jobs, Stall(j) PROVE HolderHasLease'
  BY <1>13, <1>a, LeaseAssumption DEF Stall, RowTypes, HolderHasLease
<1>14. ASSUME NEW p \in Processes, NEW j \in Jobs, ReleaseFails(p, j) PROVE HolderHasLease'
  BY <1>14, <1>a, LeaseAssumption DEF ReleaseFails, RowTypes, HolderHasLease
<1>15. CASE UNCHANGED vars
  BY <1>15, <1>b, HolderKept DEF Holds
<1>16. ASSUME NEW p \in Processes, NEW j \in Jobs, PurgeFails(p, j) PROVE HolderHasLease'
  BY <1>16, <1>a, LeaseAssumption DEF PurgeFails, RowTypes, HolderHasLease
<1> QED  BY <1>1, <1>2, <1>3, <1>4, <1>5, <1>6, <1>7, <1>8, <1>9,
            <1>10, <1>11, <1>12, <1>13, <1>14, <1>15, <1>16 DEF Next, Purge, Faults

-----------------------------------------------------------------------------
(* Whoever leaves the directories to others and reads none of them.         *)
LEMMA OrderKept ==
    ASSUME PurgeOrder, files' = files, spoiled' = spoiled,
           \A j \in Jobs : state'[j] = "gone" => state[j] = "gone",
           \A p \in Processes, j \in Jobs :
              /\ j \in cleared'[p] => j \in cleared[p]
              /\ pc'[p][j] = "final" => pc[p][j] = "final" \/ files[j] = "whole"
    PROVE  PurgeOrder'
  BY DEF PurgeOrder

(* The directory is removed before the row, and made again by a worker that
   met the purge.                                                           *)
LEMMA FilesStep == IInv /\ [Next]_vars => PurgeOrder'
<1> SUFFICES ASSUME IInv, [Next]_vars PROVE PurgeOrder'
  OBVIOUS
<1> USE DEF vars, job, process, purge, worker, SetState, StateUnchanged, Fault
<1>a. RowTypes /\ PurgeOrder
  BY DEF IInv
<1>w. Working = {"acquired", "pinned", "resume", "boundary", "step", "file", "saved",
                 "final", "handed", "ending", "released"}
  BY DEF Working
<1>1. ASSUME NEW p \in Processes, NEW j \in Jobs, Run(p, j) PROVE PurgeOrder'
  <2>1. CASE HandOver(p, j)
    <3>1. /\ pc[p][j] = "final" /\ state' = state /\ cleared' = cleared /\ spoiled' = spoiled
          /\ files'[j] = IF files[j] = "none" THEN "bare" ELSE files[j]
          /\ \A i \in Jobs : i # j => files'[i] = files[i]
      BY <2>1, <1>a DEF HandOver, RowTypes
    <3>2. \A q \in Processes, i \in Jobs : pc'[q][i] = "final" => pc[q][i] = "final"
      BY <2>1, <1>a, <1>w, PositionSet DEF HandOver
    <3>3. files[j] # "whole" => spoiled[j]
      BY <1>a, <3>1 DEF PurgeOrder
    <3> QED  BY <1>a, <3>1, <3>2, <3>3 DEF PurgeOrder
  <2>2. CASE Finalize(p, j)
    <3>1. \A q \in Processes, i \in Jobs :
             pc'[q][i] = "final" => pc[q][i] = "final" \/ files[i] = "whole"
      BY <2>2, <1>a, <1>w, PositionSet DEF Finalize
    <3> QED  BY <2>2, <3>1, <1>a, OrderKept DEF Finalize
  <2>3. ASSUME ~HandOver(p, j), ~Finalize(p, j) PROVE PurgeOrder'
    <3>1. /\ UNCHANGED <<files, cleared, spoiled>>
          /\ \E x \in (Working \cup {"none"}) \ {"final"} : At(p, j, x)
      BY <1>1, <1>w, <2>3
      DEF Run, Acquire, Begins, Contended, ReadEpoch, RowVanished, Look, Resume, Stop,
          StartStep, SaveRows, CheckLease, Replace, Transition, Raise, Release, GiveUp, Finished
    <3>2. \A i \in Jobs : state'[i] = "gone" => state[i] = "gone"
      <4>1. CASE state' = state
        BY <4>1
      <4>2. CASE \E x \in {"live"} \cup Terminal : SetState(j, x)
        BY <4>2, <1>a DEF RowTypes, Terminal
      <4> QED  BY <1>1, <2>3, <4>1, <4>2
         DEF Run, Acquire, Contended, ReadEpoch, RowVanished, Look, Resume, Stop, Terminal,
             StartStep, SaveRows, CheckLease, Replace, Transition, Raise, Release, GiveUp,
             Finished
    <3>3. \A q \in Processes, i \in Jobs : pc'[q][i] = "final" => pc[q][i] = "final"
      <4>1. PICK x \in (Working \cup {"none"}) \ {"final"} : At(p, j, x)
        BY <3>1
      <4>2. /\ pc'[p][j] = x
            /\ \A q \in Processes, i \in Jobs : q # p \/ i # j => pc'[q][i] = pc[q][i]
        BY <4>1, <1>a, PositionSet
      <4> QED  BY <4>2
    <3> QED  BY <1>a, <3>1, <3>2, <3>3, OrderKept
  <2> QED  BY <2>1, <2>2, <2>3
<1>2. ASSUME NEW p \in Processes, NEW j \in Jobs, PurgeFiles(p, j) PROVE PurgeOrder'
  <2>1. /\ UNCHANGED <<state, pc>> /\ files'[j] = "none"
        /\ \A i \in Jobs : i # j => files'[i] = files[i] /\ spoiled'[i] = spoiled[i]
        /\ \A q \in Processes, i \in Jobs : i # j => (i \in cleared'[q] <=> i \in cleared[q])
        /\ spoiled'[j] = (spoiled[j] \/ Attended(j))
    BY <1>2, <1>a DEF PurgeFiles, RowTypes
  <2>2. \A q \in Processes : pc[q][j] = "final" => Attended(j)
    BY <1>w DEF Attended, Alive
  <2> QED  BY <1>a, <2>1, <2>2 DEF PurgeOrder
<1>3. ASSUME NEW p \in Processes, NEW j \in Jobs, PurgeFails(p, j) PROVE PurgeOrder'
  <2>1. /\ UNCHANGED <<state, pc, cleared>> /\ files[j] # "none"
        /\ \A i \in Jobs : i # j => files'[i] = files[i] /\ spoiled'[i] = spoiled[i]
        /\ spoiled'[j] = (spoiled[j] \/ Attended(j))
    BY <1>3, <1>a DEF PurgeFails, RowTypes
  <2>2. \A q \in Processes : pc[q][j] = "final" => Attended(j)
    BY <1>w DEF Attended, Alive
  <2> QED  BY <1>a, <2>1, <2>2 DEF PurgeOrder
<1>4. ASSUME NEW p \in Processes, NEW j \in Jobs, DeleteJob(p, j) PROVE PurgeOrder'
  <2>1. /\ UNCHANGED <<files, spoiled, pc>> /\ j \in cleared[p]
        /\ \A i \in Jobs : i # j => state'[i] = state[i]
        /\ \A q \in Processes, i \in Jobs : i \in cleared'[q] => i \in cleared[q]
    BY <1>4, <1>a DEF DeleteJob, RowTypes
  <2> QED  BY <1>a, <2>1 DEF PurgeOrder
<1>5. ASSUME NEW p \in Processes, Vanish(p) PROVE PurgeOrder'
  <2>1. \A q \in Processes, i \in Jobs :
           /\ i \in cleared'[q] => i \in cleared[q]
           /\ pc'[q][i] = "final" => pc[q][i] = "final"
    BY <1>5, <1>a DEF Vanish, RowTypes
  <2> QED  BY <1>5, <2>1, <1>a, OrderKept DEF Vanish
<1>6. ASSUME NEW p \in Processes, Shutdown(p) PROVE PurgeOrder'
  <2>1. \A q \in Processes, i \in Jobs : pc'[q][i] \in {pc[q][i], "none"}
    BY <1>6, <1>a DEF Shutdown, RowTypes
  <2> QED  BY <1>6, <2>1, <1>a, OrderKept DEF Shutdown
<1>7. ASSUME NEW p \in Processes, NEW j \in Jobs, ReleaseFails(p, j) PROVE PurgeOrder'
  <2>1. \A q \in Processes, i \in Jobs : pc'[q][i] = "final" => pc[q][i] = "final"
    BY <1>7, <1>a, PositionSet DEF ReleaseFails
  <2> QED  BY <1>7, <2>1, <1>a, OrderKept DEF ReleaseFails
<1>8. ASSUME NEW p \in Processes, NEW js, Submit(p, js) PROVE PurgeOrder'
  <2>1. \A q \in Processes, i \in Jobs : pc'[q][i] \in {pc[q][i], "queued"}
    BY <1>8, <1>a DEF Submit, RowTypes
  <2> QED  BY <1>8, <2>1, <1>a, OrderKept DEF Submit
<1>9. CASE \/ \E p \in Processes, j \in Jobs : Heartbeat(p, j)
           \/ \E p \in Processes : ListExpired(p) \/ Start(p)
           \/ \E j \in Jobs : Expire(j) \/ Stall(j)
  BY <1>9, <1>a DEF Heartbeat, ListExpired, Start, Expire, Stall, PurgeOrder
<1>10. CASE UNCHANGED vars
  BY <1>10, <1>a DEF PurgeOrder
<1> QED  BY <1>1, <1>2, <1>3, <1>4, <1>5, <1>6, <1>7, <1>8, <1>9, <1>10
         DEF Next, Purge, Faults, Sweep, ResumeRequest, Exit, Crash

-----------------------------------------------------------------------------
(* The invariant is inductive.                                              *)

(* The initial states satisfy it.                                           *)
LEMMA InitInv == Init => IInv
<1> SUFFICES ASSUME Init PROVE IInv
  OBVIOUS
<1>1. RowTypes
  BY LeaseAssumption DEF Init, RowTypes, Working, Terminal
<1>2. /\ \A p \in Processes, j \in Jobs :
            pc[p][j] = "none" /\ current[p][j] = FALSE /\ j \notin cleared[p]
      /\ \A j \in Jobs : state[j] = "live"
  BY DEF Init
<1> QED  BY <1>1, <1>2 DEF IInv, EpochFences, ResumesFailed, HolderHasLease, Holds,
                          Working, PurgeOrder

(* Every step keeps it.                                                     *)
LEMMA StepInv == IInv /\ [Next]_vars => IInv'
  BY TypeStep, FencesStep, ResumeStep, HolderStep, FilesStep DEF IInv

(* The inductive invariant holds in every reachable state.                  *)
THEOREM Invariance == Spec => []IInv
  BY InitInv, StepInv, PTL DEF Spec

-----------------------------------------------------------------------------
(* The pool of a process: what waits in it, and the guard of submit.        *)

PoolTypes ==
    /\ rows \in [Jobs -> Processes \cup {None}] /\ asked \in [Jobs -> BOOLEAN]
    /\ running \in [Processes -> SUBSET Jobs]
    /\ queue \in [Processes -> Seq(Jobs)]
    /\ doomed \in [Processes -> SUBSET Jobs]
    /\ lost \in [Processes -> [Jobs -> BOOLEAN]]

(* QueuedOnce for one process: its guard, its queue, its workers.           *)
Once(guard, waiting, at) ==
    /\ \A j \in Jobs :
          /\ at[j] # "none" => j \in guard
          /\ at[j] = "queued" <=> \E k \in 1..Len(waiting) : waiting[k] = j
    /\ \A k, l \in 1..Len(waiting) : waiting[k] = waiting[l] => k = l

Positions == {"none", "queued"} \cup Working
Pool == PoolTypes /\ QueuedOnce

LEMMA QueuedOnceMeans ==
    QueuedOnce <=> \A p \in Processes : Once(running[p], queue[p], pc[p])
  BY DEF QueuedOnce, Once

(* What the sweep submits: each job it may, once.  The rank of a job among
   those due is an injection into as many numbers, hence onto them.         *)
LEMMA DueListsEach ==
    ASSUME NEW p \in Processes
    PROVE  /\ Due(p) \in Seq(Oldest \ running[p])
           /\ \A k, l \in 1..Len(Due(p)) : Due(p)[k] = Due(p)[l] => k = l
<1> DEFINE due == Oldest \ running[p]
           n == Cardinality(due)
           Below(j) == {i \in due : i < j}
           rank == [j \in due |-> Cardinality(Below(j)) + 1]
<1>1. due \subseteq Jobs /\ Jobs \subseteq Nat /\ IsFiniteSet(Jobs)
  <2>1. IsFiniteSet(1..NumJobs)
    BY LeaseAssumption, FS_Interval DEF LeaseAssumption
  <2> QED  BY <2>1 DEF Oldest, Claimable, Jobs
<1>2. IsFiniteSet(due) /\ n \in Nat
  BY <1>1, FS_Subset, FS_CardinalityType
<1>3. ASSUME NEW j \in due
      PROVE  /\ IsFiniteSet(Below(j)) /\ Cardinality(Below(j)) \in Nat
             /\ Cardinality(Below(j)) + 1 \in 1..n
  <2>1. Below(j) \subseteq due /\ j \in Nat
    BY <1>1
  <2>3. j \notin Below(j)
    BY <2>1
  <2>2. IsFiniteSet(Below(j)) /\ Cardinality(Below(j)) <= n /\ Cardinality(Below(j)) # n
    BY <1>2, <2>1, <2>3, FS_Subset
  <2>4. Cardinality(Below(j)) \in Nat
    BY <2>2, FS_CardinalityType
  <2> HIDE DEF Below, n
  <2> QED  BY <1>2, <2>2, <2>4
<1>4. ASSUME NEW i \in due, NEW j \in due, i < j
      PROVE  Cardinality(Below(i)) < Cardinality(Below(j))
  <2>1. i \in Nat /\ j \in Nat /\ \A x \in due : x \in Nat
    BY <1>1
  <2>2. /\ \A x \in due : x < i => x < j
        /\ ~(i < i)
    BY <1>4, <2>1
  <2>4. Below(i) \subseteq Below(j) /\ i \in Below(j) /\ i \notin Below(i)
    BY <1>4, <2>2
  <2>3. /\ Cardinality(Below(i)) <= Cardinality(Below(j))
        /\ Cardinality(Below(i)) # Cardinality(Below(j))
    BY <1>3, <2>4, FS_Subset
  <2>5. Cardinality(Below(i)) \in Nat /\ Cardinality(Below(j)) \in Nat
    BY <1>3
  <2> QED  BY <2>3, <2>5
<1>5. rank \in Injection(due, 1..n)
  <2>1. rank \in [due -> 1..n]
    <3>1. ASSUME NEW j \in due PROVE Cardinality(Below(j)) + 1 \in 1..n
      BY <1>3
    <3> QED  BY <3>1
  <2>2. ASSUME NEW i \in due, NEW j \in due, i # j PROVE rank[i] # rank[j]
    <3>1. i \in Nat /\ j \in Nat
      BY <1>1
    <3>2. i < j \/ j < i
      BY <2>2, <3>1
    <3>3. /\ rank[i] = Cardinality(Below(i)) + 1 /\ rank[j] = Cardinality(Below(j)) + 1
      OBVIOUS
    <3>5. Cardinality(Below(i)) \in Nat /\ Cardinality(Below(j)) \in Nat
      BY <1>3
    <3>4. Cardinality(Below(i)) # Cardinality(Below(j))
      BY <3>2, <3>5, <1>4
    <3> QED  BY <3>3, <3>4, <3>5
  <2> QED  BY <2>1, <2>2 DEF Injection, IsInjective
<1>6. rank \in Surjection(due, 1..n)
  <2>1. IsFiniteSet(1..n) /\ Cardinality(1..n) = n
    BY <1>2, FS_Interval
  <2> HIDE DEF rank
  <2> QED  BY <1>5, <2>1, FS_Injection
<1>7. ASSUME NEW k \in 1..n
      PROVE  Due(p)[k] \in due /\ Cardinality(Below(Due(p)[k])) = k - 1
  <2>1. PICK j \in due : rank[j] = k
    BY <1>6 DEF Surjection
  <2>4. rank[j] = Cardinality(Below(j)) + 1 /\ Cardinality(Below(j)) \in Nat
    BY <1>3
  <2>2. Cardinality(Below(j)) = k - 1
    BY <2>1, <2>4
  <2>3. Due(p)[k] = CHOOSE x \in due : Cardinality(Below(x)) = k - 1
    BY DEF Due
  <2> HIDE DEF due, Below
  <2> QED  BY <2>2, <2>3
<1>8. Due(p) \in Seq(due) /\ Len(Due(p)) = n
  <2>1. Due(p) \in [1..n -> due]
    <3>1. Due(p) = [k \in 1..n |-> CHOOSE j \in due : Cardinality(Below(j)) = k - 1]
      BY DEF Due
    <3> HIDE DEF due, Below, n
    <3> QED  BY <1>7, <3>1
  <2> HIDE DEF due
  <2> QED  BY <1>2, <2>1
<1>9. ASSUME NEW k \in 1..n, NEW l \in 1..n, Due(p)[k] = Due(p)[l] PROVE k = l
  <2>1. k - 1 = l - 1
    BY <1>7, <1>9
  <2> QED  BY <2>1, <1>2
<1> QED  BY <1>8, <1>9

(* A worker begins with the job at the head of the queue: it holds it, or
   gives up the guard.                                                      *)
LEMMA BeginsOnce ==
    ASSUME NEW guard \in SUBSET Jobs, NEW waiting \in Seq(Jobs), waiting # << >>,
           NEW at \in [Jobs -> Positions], Once(guard, waiting, at)
    PROVE  /\ \A x \in Working :
                 Once(guard, Tail(waiting), [at EXCEPT ![Head(waiting)] = x])
           /\ Once(guard \ {Head(waiting)}, Tail(waiting), [at EXCEPT ![Head(waiting)] = "none"])
<1> DEFINE j == Head(waiting)
           rest == Tail(waiting)
<1>1. /\ Len(waiting) \in Nat \ {0} /\ rest \in Seq(Jobs) /\ Len(rest) = Len(waiting) - 1
      /\ j \in Jobs /\ waiting[1] = j
      /\ \A k \in 1..Len(rest) : rest[k] = waiting[k + 1]
  BY HeadTailProperties, EmptySeq
<1>2. at[j] = "queued" /\ j \in guard
  BY <1>1 DEF Once
<1>3. \A k \in 1..Len(rest) : rest[k] # j
  BY <1>1 DEF Once
<1>4. \A k, l \in 1..Len(rest) : rest[k] = rest[l] => k = l
  <2> SUFFICES ASSUME NEW k \in 1..Len(rest), NEW l \in 1..Len(rest), rest[k] = rest[l]
               PROVE  k = l
    OBVIOUS
  <2>1. k + 1 \in 1..Len(waiting) /\ l + 1 \in 1..Len(waiting) /\ waiting[k + 1] = waiting[l + 1]
    BY <1>1
  <2>2. k + 1 = l + 1
    BY <2>1 DEF Once
  <2> QED  BY <2>2
<1>5. \A i \in Jobs \ {j} :
         (\E k \in 1..Len(rest) : rest[k] = i) <=> (\E k \in 1..Len(waiting) : waiting[k] = i)
  <2> SUFFICES ASSUME NEW i \in Jobs \ {j}
               PROVE  (\E k \in 1..Len(rest) : rest[k] = i) <=> (\E k \in 1..Len(waiting) : waiting[k] = i)
    OBVIOUS
  <2>1. ASSUME NEW k \in 1..Len(rest), rest[k] = i PROVE \E l \in 1..Len(waiting) : waiting[l] = i
    <3>1. k + 1 \in 1..Len(waiting) /\ waiting[k + 1] = i
      BY <1>1, <2>1
    <3> QED  BY <3>1
  <2>2. ASSUME NEW k \in 1..Len(waiting), waiting[k] = i PROVE \E l \in 1..Len(rest) : rest[l] = i
    <3>1. k # 1
      BY <1>1, <2>2
    <3>2. k - 1 \in 1..Len(rest) /\ (k - 1) + 1 = k
      BY <1>1, <3>1
    <3>3. rest[k - 1] = i
      BY <1>1, <2>2, <3>2
    <3> QED  BY <3>2, <3>3
  <2> QED  BY <2>1, <2>2
<1>6. "queued" \notin Working /\ "none" \notin Working
  BY DEF Working
<1> HIDE DEF j, rest
<1>7. ASSUME NEW x \in Working PROVE Once(guard, rest, [at EXCEPT ![j] = x])
  BY <1>1, <1>2, <1>3, <1>4, <1>5, <1>6 DEF Once
<1>8. Once(guard \ {j}, rest, [at EXCEPT ![j] = "none"])
  BY <1>1, <1>2, <1>3, <1>4, <1>5, <1>6 DEF Once
<1> QED  BY <1>7, <1>8 DEF j, rest

(* A worker moves on or vanishes, or gives up the guard with its place.     *)
LEMMA MovesOnce ==
    ASSUME NEW guard \in SUBSET Jobs, NEW waiting \in Seq(Jobs),
           NEW at \in [Jobs -> Positions], Once(guard, waiting, at),
           NEW j \in Jobs, at[j] \in Working
    PROVE  /\ \A x \in Working \cup {"none"} : Once(guard, waiting, [at EXCEPT ![j] = x])
           /\ Once(guard \ {j}, waiting, [at EXCEPT ![j] = "none"])
<1>1. "queued" \notin Working /\ "none" \notin Working
  BY DEF Working
<1> QED  BY <1>1 DEF Once

(* What is submitted is not under the guard yet.                            *)
LEMMA SubmitOnce ==
    ASSUME NEW guard \in SUBSET Jobs, NEW waiting \in Seq(Jobs),
           NEW at \in [Jobs -> Positions], Once(guard, waiting, at),
           NEW js \in Seq(Jobs), \A k, l \in 1..Len(js) : js[k] = js[l] => k = l,
           \A k \in 1..Len(js) : js[k] \notin guard
    PROVE  Once(guard \cup ToSet(js), waiting \o js,
                [j \in Jobs |-> IF j \in ToSet(js) THEN "queued" ELSE at[j]])
<1> DEFINE longer == waiting \o js
           n == Len(waiting)
<1>1. /\ n \in Nat /\ Len(js) \in Nat /\ Len(longer) = n + Len(js)
      /\ \A k \in 1..Len(longer) : longer[k] = IF k <= n THEN waiting[k] ELSE js[k - n]
  BY ConcatProperties
<1>2. \A j : j \in ToSet(js) <=> \E k \in 1..Len(js) : js[k] = j
  BY DEF ToSet
<1>3. \A k \in 1..n : waiting[k] \in Jobs /\ waiting[k] \in guard /\ waiting[k] \notin ToSet(js)
  <2> SUFFICES ASSUME NEW k \in 1..n
               PROVE  waiting[k] \in Jobs /\ waiting[k] \in guard /\ waiting[k] \notin ToSet(js)
    OBVIOUS
  <2>1. waiting[k] \in Jobs
    BY ElementOfSeq
  <2>2. at[waiting[k]] = "queued"
    BY <2>1 DEF Once
  <2>3. waiting[k] \in guard
    BY <2>1, <2>2 DEF Once
  <2> QED  BY <2>1, <2>3, <1>2
<1>4. \A j \in Jobs : (\E k \in 1..Len(longer) : longer[k] = j)
                         <=> j \in ToSet(js) \/ \E k \in 1..n : waiting[k] = j
  <2> SUFFICES ASSUME NEW j \in Jobs
               PROVE  (\E k \in 1..Len(longer) : longer[k] = j)
                         <=> j \in ToSet(js) \/ \E k \in 1..n : waiting[k] = j
    OBVIOUS
  <2>1. ASSUME NEW k \in 1..Len(longer), longer[k] = j
        PROVE  j \in ToSet(js) \/ \E l \in 1..n : waiting[l] = j
    <3>1. CASE k <= n
      BY <1>1, <2>1, <3>1
    <3>2. CASE ~(k <= n)
      <4>1. k - n \in 1..Len(js) /\ js[k - n] = j
        BY <1>1, <2>1, <3>2
      <4> QED  BY <4>1, <1>2
    <3> QED  BY <3>1, <3>2
  <2>2. ASSUME j \in ToSet(js) PROVE \E k \in 1..Len(longer) : longer[k] = j
    <3>1. PICK k \in 1..Len(js) : js[k] = j
      BY <1>2, <2>2
    <3>2. n + k \in 1..Len(longer) /\ ~(n + k <= n) /\ (n + k) - n = k
      BY <1>1
    <3>3. longer[n + k] = j
      BY <1>1, <3>1, <3>2
    <3> QED  BY <3>2, <3>3
  <2>3. ASSUME NEW k \in 1..n, waiting[k] = j PROVE \E l \in 1..Len(longer) : longer[l] = j
    <3>1. k \in 1..Len(longer) /\ k <= n
      BY <1>1
    <3>2. longer[k] = j
      BY <1>1, <2>3, <3>1
    <3> QED  BY <3>1, <3>2
  <2> QED  BY <2>1, <2>2, <2>3
<1>5. \A k, l \in 1..Len(longer) : longer[k] = longer[l] => k = l
  <2> SUFFICES ASSUME NEW k \in 1..Len(longer), NEW l \in 1..Len(longer), longer[k] = longer[l]
               PROVE  k = l
    OBVIOUS
  <2>1. \A m \in 1..Len(longer) : ~(m <= n) => m - n \in 1..Len(js) /\ js[m - n] \in ToSet(js)
    BY <1>1, <1>2
  <2>2. CASE k <= n /\ l <= n
    <3>1. k \in 1..n /\ l \in 1..n /\ waiting[k] = waiting[l]
      BY <1>1, <2>2
    <3> QED  BY <3>1 DEF Once
  <2>3. CASE ~(k <= n) /\ ~(l <= n)
    <3>1. k - n \in 1..Len(js) /\ l - n \in 1..Len(js) /\ js[k - n] = js[l - n]
      BY <1>1, <2>1, <2>3
    <3>2. k - n = l - n
      BY <3>1
    <3> QED  BY <3>2, <1>1
  <2>4. CASE k <= n /\ ~(l <= n)
    <3>1. k \in 1..n /\ longer[k] = waiting[k] /\ longer[l] \in ToSet(js)
      BY <1>1, <2>1, <2>4
    <3> QED  BY <3>1, <1>3
  <2>5. CASE ~(k <= n) /\ l <= n
    <3>1. l \in 1..n /\ longer[l] = waiting[l] /\ longer[k] \in ToSet(js)
      BY <1>1, <2>1, <2>5
    <3> QED  BY <3>1, <1>3
  <2> QED  BY <2>2, <2>3, <2>4, <2>5
<1> HIDE DEF longer
<1>6. Once(guard \cup ToSet(js), longer, [j \in Jobs |-> IF j \in ToSet(js) THEN "queued" ELSE at[j]])
  BY <1>4, <1>5 DEF Once
<1> QED  BY <1>6 DEF longer

-----------------------------------------------------------------------------
(* Every step keeps the pool.                                               *)

LEMMA OthersOnce ==
    ASSUME QueuedOnce, NEW p \in Processes,
           \A q \in Processes \ {p} :
               running'[q] = running[q] /\ queue'[q] = queue[q] /\ pc'[q] = pc[q],
           Once(running'[p], queue'[p], pc'[p])
    PROVE  QueuedOnce'
<1>1. \A q \in Processes : Once(running'[q], queue'[q], pc'[q])
  <2> SUFFICES ASSUME NEW q \in Processes PROVE Once(running'[q], queue'[q], pc'[q])
    OBVIOUS
  <2>1. CASE q = p
    BY <2>1
  <2>2. CASE q # p
    <3>1. Once(running[q], queue[q], pc[q])
      BY QueuedOnceMeans
    <3>2. running'[q] = running[q] /\ queue'[q] = queue[q] /\ pc'[q] = pc[q]
      BY <2>2
    <3> QED  BY <3>1, <3>2
  <2> QED  BY <2>1, <2>2
<1> QED  BY <1>1 DEF QueuedOnce, Once

LEMMA PlaceMoves ==
    ASSUME RowTypes, Pool, NEW p \in Processes, NEW j \in Jobs, pc[p][j] \in Working,
           NEW x \in Working \cup {"none"}, At(p, j, x), UNCHANGED <<running, queue>>
    PROVE  QueuedOnce'
<1>1. /\ running[p] \in SUBSET Jobs /\ queue[p] \in Seq(Jobs) /\ pc[p] \in [Jobs -> Positions]
      /\ Once(running[p], queue[p], pc[p])
  BY QueuedOnceMeans DEF RowTypes, Pool, PoolTypes, Positions
<1>2. pc'[p] = [pc[p] EXCEPT ![j] = x] /\ \A q \in Processes \ {p} : pc'[q] = pc[q]
  BY DEF RowTypes, At
<1>3. Once(running'[p], queue'[p], pc'[p])
  <2>1. \A y \in Working \cup {"none"} : Once(running[p], queue[p], [pc[p] EXCEPT ![j] = y])
    BY <1>1, MovesOnce
  <2>2. Once(running[p], queue[p], [pc[p] EXCEPT ![j] = x])
    BY <2>1
  <2> QED  BY <1>2, <2>2
<1> QED  BY <1>2, <1>3, OthersOnce DEF Pool

LEMMA SubmitKeeps ==
    ASSUME RowTypes, Pool, NEW p \in Processes, NEW js \in Seq(Jobs), Submit(p, js),
           asked' \in [Jobs -> BOOLEAN],
           \A k, l \in 1..Len(js) : js[k] = js[l] => k = l,
           \A k \in 1..Len(js) : js[k] \notin running[p]
    PROVE  Pool'
<1>1. /\ running[p] \in SUBSET Jobs /\ queue[p] \in Seq(Jobs) /\ pc[p] \in [Jobs -> Positions]
      /\ Once(running[p], queue[p], pc[p])
  BY QueuedOnceMeans DEF RowTypes, Pool, PoolTypes, Positions
<1>2. /\ running' = [running EXCEPT ![p] = running[p] \cup ToSet(js)]
      /\ queue' = [queue EXCEPT ![p] = queue[p] \o js]
      /\ pc' = [pc EXCEPT ![p] = [j \in Jobs |-> IF j \in ToSet(js) THEN "queued" ELSE pc[p][j]]]
      /\ UNCHANGED <<rows, doomed, lost>>
  BY DEF Submit, purge
<1>3. ToSet(js) \subseteq Jobs /\ queue[p] \o js \in Seq(Jobs)
  <2>1. \A j \in ToSet(js) : \E k \in 1..Len(js) : js[k] = j
    BY DEF ToSet
  <2> QED  BY <1>1, <2>1, ElementOfSeq, ConcatProperties
<1>4. PoolTypes'
  BY <1>2, <1>3 DEF Pool, PoolTypes
<1>5. Once(running'[p], queue'[p], pc'[p])
  <2>1. Once(running[p] \cup ToSet(js), queue[p] \o js,
             [j \in Jobs |-> IF j \in ToSet(js) THEN "queued" ELSE pc[p][j]])
    <3>1. \A at \in [Jobs -> Positions] : Once(running[p], queue[p], at) =>
             Once(running[p] \cup ToSet(js), queue[p] \o js,
                  [j \in Jobs |-> IF j \in ToSet(js) THEN "queued" ELSE at[j]])
      BY <1>1, SubmitOnce
    <3> QED  BY <1>1, <3>1
  <2>2. /\ running'[p] = running[p] \cup ToSet(js) /\ queue'[p] = queue[p] \o js
        /\ pc'[p] = [j \in Jobs |-> IF j \in ToSet(js) THEN "queued" ELSE pc[p][j]]
    BY <1>2 DEF Pool, PoolTypes, RowTypes
  <2> QED  BY <2>1, <2>2
<1>6. \A q \in Processes \ {p} :
         running'[q] = running[q] /\ queue'[q] = queue[q] /\ pc'[q] = pc[q]
  BY <1>2 DEF Pool, PoolTypes, RowTypes
<1>7. QueuedOnce'
  BY <1>5, <1>6, OthersOnce DEF Pool
<1> QED  BY <1>4, <1>7 DEF Pool

LEMMA BeginsKeeps ==
    ASSUME RowTypes, Pool, NEW p \in Processes, NEW j \in Jobs, Begins(p, j),
           NEW x, At(p, j, x),
           \/ x \in Working /\ running' = running
           \/ x = "none" /\ running' = [running EXCEPT ![p] = @ \ {j}]
    PROVE  /\ running' \in [Processes -> SUBSET Jobs] /\ queue' \in [Processes -> Seq(Jobs)]
           /\ QueuedOnce'
<1>1. /\ running[p] \in SUBSET Jobs /\ queue[p] \in Seq(Jobs) /\ pc[p] \in [Jobs -> Positions]
      /\ Once(running[p], queue[p], pc[p])
  BY QueuedOnceMeans DEF RowTypes, Pool, PoolTypes, Positions
<1>2. queue[p] # << >> /\ Head(queue[p]) = j /\ queue' = [queue EXCEPT ![p] = Tail(queue[p])]
  BY DEF Begins
<1>3. Tail(queue[p]) \in Seq(Jobs)
  BY <1>1, <1>2, HeadTailProperties
<1>4. queue' \in [Processes -> Seq(Jobs)] /\ queue'[p] = Tail(queue[p])
  BY <1>2, <1>3 DEF Pool, PoolTypes
<1>5. running' \in [Processes -> SUBSET Jobs]
  BY DEF Pool, PoolTypes
<1>6. pc'[p] = [pc[p] EXCEPT ![j] = x]
  BY DEF RowTypes, At
<1>7. Once(running'[p], queue'[p], pc'[p])
  <2>1. /\ \A y \in Working : Once(running[p], Tail(queue[p]), [pc[p] EXCEPT ![j] = y])
        /\ Once(running[p] \ {j}, Tail(queue[p]), [pc[p] EXCEPT ![j] = "none"])
    BY <1>1, <1>2, BeginsOnce
  <2>2. CASE x \in Working /\ running' = running
    BY <1>4, <1>6, <2>1, <2>2
  <2>3. CASE x = "none" /\ running' = [running EXCEPT ![p] = @ \ {j}]
    <3>1. running'[p] = running[p] \ {j}
      BY <2>3 DEF Pool, PoolTypes
    <3> QED  BY <1>4, <1>6, <2>1, <2>3, <3>1
  <2> QED  BY <2>2, <2>3
<1>8. \A q \in Processes \ {p} :
         running'[q] = running[q] /\ queue'[q] = queue[q] /\ pc'[q] = pc[q]
  BY <1>2 DEF Pool, PoolTypes, RowTypes, At
<1> QED  BY <1>4, <1>5, <1>7, <1>8, OthersOnce DEF Pool

LEMMA PoolStep == RowTypes /\ Pool /\ [Next]_vars => Pool'
<1> SUFFICES ASSUME RowTypes, Pool, [Next]_vars PROVE Pool'
  OBVIOUS
<1> USE DEF vars, job, process, purge, worker
<1>t. PoolTypes /\ QueuedOnce
  BY DEF Pool
<1>w. Working = {"acquired", "pinned", "resume", "boundary", "step", "file", "saved",
                 "final", "handed", "ending", "released"}
  BY DEF Working
<1>1. ASSUME NEW p \in Processes, NEW j \in Jobs, Run(p, j) PROVE Pool'
  <2>1. CASE Acquire(p, j)
    <3>1. Begins(p, j) /\ At(p, j, "acquired") /\ running' = running
      BY <2>1 DEF Acquire
    <3>2. queue' \in [Processes -> Seq(Jobs)] /\ QueuedOnce'
      BY <1>w, <3>1, BeginsKeeps
    <3>3. PoolTypes'
      BY <1>t, <2>1, <3>2 DEF Acquire, PoolTypes
    <3> QED  BY <3>2, <3>3 DEF Pool
  <2>2. CASE Contended(p, j)
    <3>1. Begins(p, j) /\ At(p, j, "none") /\ running' = [running EXCEPT ![p] = @ \ {j}]
      BY <2>2 DEF Contended
    <3>2. /\ running' \in [Processes -> SUBSET Jobs] /\ queue' \in [Processes -> Seq(Jobs)]
          /\ QueuedOnce'
      BY <3>1, BeginsKeeps
    <3>3. PoolTypes'
      BY <1>t, <2>2, <3>2 DEF Contended, PoolTypes
    <3> QED  BY <3>2, <3>3 DEF Pool
  <2>3. CASE Finished(p, j)
    <3>1. /\ running[p] \in SUBSET Jobs /\ queue[p] \in Seq(Jobs) /\ pc[p] \in [Jobs -> Positions]
          /\ Once(running[p], queue[p], pc[p])
      BY <1>t, QueuedOnceMeans DEF RowTypes, PoolTypes, Positions
    <3>2. /\ pc[p][j] = "released" /\ running' = [running EXCEPT ![p] = running[p] \ {j}]
          /\ pc' = [pc EXCEPT ![p][j] = "none"] /\ queue' = queue
      BY <2>3 DEF Finished, At
    <3>3. running'[p] = running[p] \ {j} /\ pc'[p] = [pc[p] EXCEPT ![j] = "none"]
      BY <1>t, <3>2 DEF PoolTypes, RowTypes
    <3>4. Once(running[p] \ {j}, queue[p], [pc[p] EXCEPT ![j] = "none"])
      BY <1>w, <3>1, <3>2, MovesOnce
    <3>5. Once(running'[p], queue'[p], pc'[p])
      BY <3>2, <3>3, <3>4
    <3>6. \A q \in Processes \ {p} :
             running'[q] = running[q] /\ queue'[q] = queue[q] /\ pc'[q] = pc[q]
      BY <1>t, <3>2 DEF PoolTypes, RowTypes
    <3>7. QueuedOnce'
      BY <1>t, <3>5, <3>6, OthersOnce
    <3>8. PoolTypes'
      BY <1>t, <2>3 DEF Finished, PoolTypes
    <3> QED  BY <3>7, <3>8 DEF Pool
  <2>4. ASSUME ~Acquire(p, j), ~Contended(p, j), ~Finished(p, j) PROVE Pool'
    <3>1. PICK x \in Working \cup {"none"} :
             At(p, j, x) /\ pc[p][j] \in Working /\ UNCHANGED <<running, queue>>
      BY <1>1, <1>w, <2>4
      DEF Run, ReadEpoch, RowVanished, Look, Resume, Stop, StartStep, SaveRows, CheckLease,
          Replace, Finalize, HandOver, Transition, Raise, Release, GiveUp
    <3>2. QueuedOnce'
      BY <3>1, PlaceMoves
    <3>3. PoolTypes'
      BY <1>1, <1>t, <2>4
      DEF Run, ReadEpoch, RowVanished, Look, Resume, Stop, StartStep, SaveRows, CheckLease,
          Replace, Finalize, HandOver, Transition, Raise, Release, GiveUp, PoolTypes, SetState, StateUnchanged
    <3> QED  BY <3>2, <3>3 DEF Pool
  <2> QED  BY <2>1, <2>2, <2>3, <2>4
<1>2. ASSUME NEW p \in Processes, NEW j \in Jobs, Heartbeat(p, j) PROVE Pool'
  <2>1. lost' \in [Processes -> [Jobs -> BOOLEAN]]
    <3>1. lost' = lost \/ lost' = [lost EXCEPT ![p][j] = TRUE]
      BY <1>2 DEF Heartbeat
    <3>2. lost \in [Processes -> [Jobs -> BOOLEAN]]
      BY <1>t DEF PoolTypes
    <3>3. \A b \in BOOLEAN :
             lost' = [lost EXCEPT ![p][j] = b] => lost' \in [Processes -> [Jobs -> BOOLEAN]]
      BY <3>2
    <3>4. TRUE \in BOOLEAN
      OBVIOUS
    <3> QED  BY <3>1, <3>2, <3>3, <3>4
  <2>2. PoolTypes'
    BY <1>2, <1>t, <2>1 DEF Heartbeat, PoolTypes
  <2>3. QueuedOnce'
    BY <1>2, <1>t DEF Heartbeat, QueuedOnce
  <2> QED  BY <2>2, <2>3 DEF Pool
<1>3. ASSUME NEW p \in Processes, NEW j \in Jobs, ResumeRequest(p, j) PROVE Pool'
  <2>0. asked' \in [Jobs -> BOOLEAN]
    BY <1>3, <1>t DEF ResumeRequest, PoolTypes
  <2>1. CASE j \in running[p]
    <3>1. Submit(p, << >>)
      BY <1>3, <2>1 DEF ResumeRequest
    <3>2. << >> \in Seq(Jobs) /\ 1..Len(<< >>) = {}
      BY EmptySeq
    <3>3. \A js \in Seq(Jobs) : 1..Len(js) = {} /\ Submit(p, js) => Pool'
      BY <2>0, SubmitKeeps
    <3> QED  BY <3>1, <3>2, <3>3
  <2>2. CASE j \notin running[p]
    <3>1. Submit(p, <<j>>)
      BY <1>3, <2>2 DEF ResumeRequest
    <3>2. <<j>> \in Seq(Jobs) /\ Len(<<j>>) = 1 /\ <<j>>[1] = j
      OBVIOUS
    <3>3. \A k \in 1..Len(<<j>>) : k = 1 /\ <<j>>[k] \notin running[p]
      BY <2>2, <3>2
    <3> QED  BY <2>0, <3>1, <3>2, <3>3, SubmitKeeps
  <2> QED  BY <2>1, <2>2
<1>4. ASSUME NEW p \in Processes, Sweep(p) PROVE Pool'
  <2>1. Submit(p, Due(p)) /\ asked' \in [Jobs -> BOOLEAN]
    BY <1>4, <1>t DEF Sweep, PoolTypes
  <2>2. /\ Due(p) \in Seq(Oldest \ running[p])
        /\ \A k, l \in 1..Len(Due(p)) : Due(p)[k] = Due(p)[l] => k = l
    BY DueListsEach
  <2>3. \A k \in 1..Len(Due(p)) : Due(p)[k] \in Oldest \ running[p]
    BY <2>2, ElementOfSeq
  <2>4. Due(p) \in Seq(Jobs)
    <3>1. Oldest \ running[p] \subseteq Jobs
      BY DEF Oldest, Claimable
    <3>2. Due(p) \in [1..Len(Due(p)) -> Oldest \ running[p]] /\ Len(Due(p)) \in Nat
      BY <2>2
    <3>3. Due(p) \in [1..Len(Due(p)) -> Jobs]
      BY <3>1, <3>2
    <3> QED  BY <3>2, <3>3
  <2>5. \A k \in 1..Len(Due(p)) : Due(p)[k] \notin running[p]
    BY <2>3
  <2> QED  BY <2>1, <2>2, <2>4, <2>5, SubmitKeeps
<1>5. ASSUME NEW p \in Processes, ListExpired(p) PROVE Pool'
  BY <1>5, <1>t DEF ListExpired, Old, Pool, PoolTypes, QueuedOnce
<1>6. ASSUME NEW p \in Processes, NEW j \in Jobs, PurgeFiles(p, j) PROVE Pool'
  BY <1>6, <1>t DEF PurgeFiles, Pool, PoolTypes, QueuedOnce
<1>7. ASSUME NEW p \in Processes, NEW j \in Jobs, DeleteJob(p, j) PROVE Pool'
  BY <1>7, <1>t DEF DeleteJob, SetState, Pool, PoolTypes, QueuedOnce
<1>8. ASSUME NEW p \in Processes, Vanish(p) PROVE Pool'
  <2>1. PoolTypes'
    BY <1>8, <1>t, EmptySeq DEF Vanish, PoolTypes
  <2>2. /\ running'[p] = {} /\ queue'[p] = << >> /\ pc'[p] = [j \in Jobs |-> "none"]
        /\ \A q \in Processes \ {p} :
              running'[q] = running[q] /\ queue'[q] = queue[q] /\ pc'[q] = pc[q]
    BY <1>8, <1>t DEF Vanish, PoolTypes, RowTypes
  <2>3. Once({}, << >>, [j \in Jobs |-> "none"])
    BY DEF Once
  <2>4. Once(running'[p], queue'[p], pc'[p])
    BY <2>2, <2>3
  <2> QED  BY <1>t, <2>1, <2>2, <2>4, OthersOnce DEF Pool
<1>9. ASSUME NEW p \in Processes, Start(p) PROVE Pool'
  BY <1>9, <1>t DEF Start, Pool, PoolTypes, QueuedOnce
<1>10. ASSUME NEW j \in Jobs, Expire(j) PROVE Pool'
  BY <1>10, <1>t DEF Expire, Pool, PoolTypes, QueuedOnce
<1>11. ASSUME NEW p \in Processes, Shutdown(p) PROVE Pool'
  <2> DEFINE idle == [j \in Jobs |-> IF pc[p][j] = "queued" THEN "none" ELSE pc[p][j]]
  <2>1. PoolTypes'
    BY <1>11, <1>t, EmptySeq DEF Shutdown, PoolTypes
  <2>2. /\ running'[p] = running[p] /\ queue'[p] = << >> /\ pc'[p] = idle
        /\ \A q \in Processes \ {p} :
              running'[q] = running[q] /\ queue'[q] = queue[q] /\ pc'[q] = pc[q]
    BY <1>11, <1>t DEF Shutdown, PoolTypes, RowTypes
  <2>3. Once(running[p], queue[p], pc[p])
    BY <1>t, QueuedOnceMeans
  <2>4. Once(running[p], << >>, idle)
    BY <2>3 DEF Once
  <2>5. Once(running'[p], queue'[p], pc'[p])
    BY <2>2, <2>4
  <2> QED  BY <1>t, <2>1, <2>2, <2>5, OthersOnce DEF Pool
<1>12. ASSUME NEW j \in Jobs, Stall(j) PROVE Pool'
  BY <1>12, <1>t DEF Stall, Pool, PoolTypes, QueuedOnce
<1>13. ASSUME NEW p \in Processes, NEW j \in Jobs, ReleaseFails(p, j) PROVE Pool'
  <2>1. pc[p][j] \in Working /\ At(p, j, "none") /\ UNCHANGED <<running, queue>>
    BY <1>13, <1>w DEF ReleaseFails
  <2>2. QueuedOnce'
    BY <2>1, PlaceMoves
  <2>3. PoolTypes'
    BY <1>13, <1>t DEF ReleaseFails, PoolTypes
  <2> QED  BY <2>2, <2>3 DEF Pool
<1>14. CASE UNCHANGED vars
  BY <1>14, <1>t DEF Pool, PoolTypes, QueuedOnce
<1>15. ASSUME NEW p \in Processes, NEW j \in Jobs, PurgeFails(p, j) PROVE Pool'
  BY <1>15, <1>t DEF PurgeFails, Pool, PoolTypes, QueuedOnce
<1> QED  BY <1>1, <1>2, <1>3, <1>4, <1>5, <1>6, <1>7, <1>8, <1>9, <1>10, <1>11, <1>12,
            <1>13, <1>14, <1>15 DEF Next, Purge, Exit, Faults, Crash

LEMMA InitPool == Init => Pool
  BY EmptySeq, LeaseAssumption DEF Init, Pool, PoolTypes, QueuedOnce

(* What waits in a process's pool is under its guard, once (workers.JobRunner). *)
THEOREM PoolInvariance == Spec => []Pool
<1>1. IInv => RowTypes
  BY DEF IInv
<1> QED  BY <1>1, InitPool, PoolStep, Invariance, PTL DEF Spec

-----------------------------------------------------------------------------
(* What it says of the code.                                                *)

(* A row, a lease and a process's pool keep their types.                     *)
THEOREM TypeCorrect == Spec => []TypeOK
<1>1. IInv /\ Pool => TypeOK
  <2>1. RowTypes /\ PoolTypes => TypeOK
    BY DEF RowTypes, PoolTypes, TypeOK
  <2> QED  BY <2>1 DEF IInv, Pool
<1> QED  BY <1>1, Invariance, PoolInvariance, PTL

(* JobRunner.submit: its guard keeps a job in a process's pool once, however
   many sweeps and requests find it claimable.                              *)
THEOREM PoolHoldsOnce == Spec => []QueuedOnce
<1>1. Pool => QueuedOnce
  BY DEF Pool
<1> QED  BY <1>1, PoolInvariance, PTL

(* persistence.acquire_lease: two workers with the row's epoch are possible
   only after one of them read the epoch of the other's acquisition.        *)
THEOREM EpochIsOneWorkers ==
    Spec => [](\A p, q \in Processes, j \in Jobs :
                  current[p][j] /\ current[q][j] /\ p # q => shared[j])
<1>1. IInv => \A p, q \in Processes, j \in Jobs :
                 current[p][j] /\ current[q][j] /\ p # q => shared[j]
  BY DEF IInv, EpochFences
<1> QED  BY <1>1, Invariance, PTL

(* NoOrphanFiles (workers.purge_expired_jobs): wherever purges stop or fail and
   whatever runs meanwhile, a directory without a row was removed under a
   worker, which made it again.                                             *)
THEOREM FilesHaveTheirRow == Spec => []NoOrphanFiles
<1>1. IInv => NoOrphanFiles
  BY DEF IInv, PurgeOrder, NoOrphanFiles
<1> QED  BY <1>1, Invariance, PTL

(* OneWorker (workers.JobRunner): before the first fault, two workers of
   whatever processes never hold one job.                                   *)
THEOREM OneWorkerBeforeFaults == Spec => []OneWorker
<1>1. IInv => OneWorker
  <2> SUFFICES ASSUME IInv, faults = 0, NEW j \in Jobs
               PROVE  Cardinality(Holders(j)) <= 1
    BY DEF OneWorker
  <2>1. \A p, q \in Holders(j) : p = q
    BY DEF IInv, HolderHasLease, Holders, Holds
  <2>2. CASE Holders(j) = {}
    BY <2>2, FS_EmptySet
  <2>3. ASSUME NEW p \in Holders(j)
        PROVE  Cardinality(Holders(j)) <= 1
    <3>1. Holders(j) = {p}
      BY <2>1
    <3> QED  BY <3>1, FS_Singleton
  <2> QED  BY <2>2, <2>3
<1> QED  BY <1>1, Invariance, PTL

(* FatalStays (state_machine.is_resumable, the look in resume_from_failure): a
   job that failed for good is not resumed, unless an epoch was shared.     *)
THEOREM FatalIsFinal == Spec => FatalStays
<1>1. IInv /\ [Next]_vars =>
          [\A j \in Jobs : state[j] = "fatal" /\ state'[j] # "fatal" =>
              state'[j] = "gone" \/ shared[j]]_vars
  <2> SUFFICES ASSUME IInv, [Next]_vars, NEW i \in Jobs,
                      state[i] = "fatal", state'[i] # "fatal"
               PROVE  state'[i] = "gone" \/ shared[i]
    OBVIOUS
  <2> USE DEF vars, job, process, purge, worker, SetState, StateUnchanged, Fault
  <2>a. RowTypes
    BY DEF IInv
  <2>1. ASSUME NEW p \in Processes, NEW j \in Jobs, Run(p, j)
        PROVE  shared[i]
    <3>1. CASE Resume(p, j)
      <4>1. j = i /\ current[p][j] /\ pc[p][j] = "resume"
        BY <3>1, <2>a DEF Resume, RowTypes
      <4> QED  BY <4>1 DEF IInv, ResumesFailed
    <3>2. CASE StartStep(p, j)
      BY <3>2, <2>a DEF StartStep, RowTypes
    <3>3. ASSUME NEW s \in Terminal, Transition(p, j, s) PROVE shared[i]
      BY <3>3, <2>a DEF Transition, RowTypes
    <3>4. CASE state' = state
      BY <3>4
    <3> QED  BY <2>1, <3>1, <3>2, <3>3, <3>4
             DEF Run, Acquire, Contended, ReadEpoch, RowVanished, Look, Stop, SaveRows,
                 CheckLease, Replace, Finalize, HandOver, Raise, Release, GiveUp, Finished
  <2>2. ASSUME NEW p \in Processes, NEW j \in Jobs, DeleteJob(p, j)
        PROVE  state'[i] = "gone"
    BY <2>2, <2>a DEF DeleteJob, RowTypes
  <2>3. CASE state' = state
    BY <2>3
  <2> QED  BY <2>1, <2>2, <2>3
           DEF Next, Heartbeat, ResumeRequest, Submit, Sweep, Purge, ListExpired, PurgeFiles,
               PurgeFails, Exit, Vanish, Start, Expire, Faults, Crash, Shutdown, Stall, ReleaseFails
<1> QED  BY <1>1, Invariance, PTL DEF Spec, FatalStays

(* LeaseKept (persistence.release_lease, acquire_lease): a lease changes hands
   only when it lapsed, its holder gives it up, or its job is deleted.      *)
THEOREM LeaseIsKept == Spec => LeaseKept
<1>1. IInv /\ [Next]_vars =>
          [\A j \in Jobs : owner[j] # None /\ owner'[j] # owner[j] =>
              \/ lapsed[j] \/ pc[owner[j]][j] = "ending"
              \/ state'[j] = "gone"]_vars
  <2> SUFFICES ASSUME IInv, [Next]_vars, NEW i \in Jobs,
                      owner[i] # None, owner'[i] # owner[i]
               PROVE  lapsed[i] \/ pc[owner[i]][i] = "ending" \/ state'[i] = "gone"
    OBVIOUS
  <2> USE DEF vars, job, process, purge, worker, SetState, StateUnchanged, Fault
  <2>a. RowTypes
    BY DEF IInv
  <2>1. ASSUME NEW p \in Processes, NEW j \in Jobs, Acquire(p, j)
        PROVE  lapsed[i]
    BY <2>1, <2>a DEF Acquire, Unleased, RowTypes
  <2>2. ASSUME NEW p \in Processes, NEW j \in Jobs, Release(p, j)
        PROVE  pc[owner[i]][i] = "ending"
    BY <2>2, <2>a DEF Release, GiveUp, RowTypes
  <2>3. ASSUME NEW p \in Processes, NEW j \in Jobs, DeleteJob(p, j)
        PROVE  state'[i] = "gone"
    BY <2>3, <2>a DEF DeleteJob, RowTypes
  <2>4. ASSUME NEW p \in Processes, NEW j \in Jobs, Run(p, j)
        PROVE  owner' = owner \/ Acquire(p, j) \/ Release(p, j)
    BY <2>4 DEF Run, Contended, ReadEpoch, RowVanished, Look, Resume, Stop, StartStep,
                SaveRows, CheckLease, Replace, Finalize, HandOver, Transition, Raise, Finished
  <2>5. CASE owner' = owner
    BY <2>5
  <2>6. ASSUME NEW p \in Processes, NEW j \in Jobs, Run(p, j)
        PROVE  lapsed[i] \/ pc[owner[i]][i] = "ending"
    BY <2>1, <2>2, <2>4, <2>5, <2>6
  <2> HIDE DEF vars
  <2>7. ASSUME NEW p \in Processes, Purge(p)
        PROVE  owner' = owner \/ \E j \in Jobs : DeleteJob(p, j)
    BY <2>7 DEF Purge, ListExpired, PurgeFiles
  <2>8. CASE UNCHANGED vars \/ Faults
    BY <2>5, <2>8 DEF vars, Faults, Crash, Vanish, Shutdown, Stall, ReleaseFails, PurgeFails
  <2>9. ASSUME NEW p \in Processes,
               NEW j \in Jobs, Heartbeat(p, j) \/ ResumeRequest(p, j)
        PROVE  owner' = owner
    BY <2>9 DEF Heartbeat, ResumeRequest, Submit
  <2>10. ASSUME NEW p \in Processes, Sweep(p) \/ Exit(p) \/ Start(p)
        PROVE  owner' = owner
    BY <2>10 DEF Sweep, Submit, Exit, Vanish, Start
  <2>11. ASSUME NEW j \in Jobs, Expire(j) PROVE owner' = owner
    BY <2>11 DEF Expire
  <2> QED  BY <2>3, <2>5, <2>6, <2>7, <2>8, <2>9, <2>10, <2>11 DEF Next
<1> QED  BY <1>1, Invariance, PTL DEF Spec, LeaseKept
=============================================================================
