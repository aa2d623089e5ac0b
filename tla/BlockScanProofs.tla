-------------------------- MODULE BlockScanProofs ---------------------------
(***************************************************************************)
(* ReasoningIsRegistered and SuccessIsExamined of BlockScan, for any       *)
(* blocks, batches and deaths.                                             *)
(***************************************************************************)
EXTENDS BlockScan, FiniteSetTheorems, TLAPS

Writes ==
    [audited |-> {"private", "issues", "decide", "claims", "mark"},
     swept |-> {"issues", "coverage", "decide", "mark"},
     final_semantic |-> {"round", "issues", "decide", "mark"}]
Writing == stage \notin {"idle", "requeue"}

(* Where the worker is fits its phase, and it is at a write exactly while it
   has results.                                                              *)
Places ==
    /\ Writing => phase \in Phases /\ stage \in Writes[phase] /\ todo # {}
    /\ ~Writing => todo = {}
    /\ stage = "requeue" => phase \in Phases

(* The findings on record rest on reasoning no newer than the row's, the row's
   is no newer than the registry's, and that none of a scan yet to come.     *)
Chain ==
    \A b \in Blocks :
        /\ issues["audited"][b].text <= private[b]
        /\ private[b] <= registry[b]
        /\ registry[b] <= short["audited"][b] + 1
(* The registry holds the reasoning of every result, and the row that of the
   result whose findings are about to be opened.                             *)
Held ==
    phase = "audited" =>
        /\ \A r \in todo : r.answer.text = registry[r.block]
        /\ stage = "issues" => private[First.block] = registry[First.block]

IInv == TypeOK /\ Places /\ Chain /\ Held

-----------------------------------------------------------------------------
(* The next result to be persisted is one of them. *)
LEMMA FirstIsOne ==
  ASSUME TypeOK, todo # {}
  PROVE  First \in todo /\ First \in ResultType
  <1> DEFINE theirs == {r.block : r \in todo}
  <1>1. todo \subseteq ResultType  BY DEF TypeOK
  <1>2. theirs \in SUBSET Blocks /\ theirs # {}  BY <1>1 DEF ResultType
  <1>3. \E b \in theirs : \A c \in theirs : Place[b] <= Place[c]
    <2> HIDE DEF theirs
    <2> QED  BY <1>2, ScanAssumption DEF ScanAssumption
  <1>5. \E r \in todo : \A q \in todo : Place[r.block] <= Place[q.block]
    BY <1>3
  <1>6. First \in todo  BY <1>5 DEF First
  <1> QED  BY <1>1, <1>6

(* What the results of a call are, whatever the answers were. *)
LEMMA ResultsOfACall ==
  ASSUME TypeOK, phase \in Phases, NEW reply
  PROVE  /\ Results(reply) \subseteq ResultType
         /\ \A r \in Results(reply) :
                r.block \in Usable(reply) /\ r.answer.text = Scan(r.block)
         /\ Usable(reply) \subseteq Batch /\ Batch \subseteq Blocks
         /\ \A b \in Blocks : Scan(b) \in Nat
  <1>1. Usable(reply) \subseteq Batch /\ Batch \subseteq Blocks
    BY DEF Usable, Batch, Pending
  <1>2. \A b \in Blocks : Scan(b) \in Nat
    BY DEF Scan, TypeOK, Phases
  <1>3. \A b \in Blocks : Result(reply, b) \in ResultType /\ Result(reply, b).block = b
                          /\ Result(reply, b).answer.text = Scan(b)
    <2> TAKE b \in Blocks
    <2> DEFINE g == Gaps(b, ResultOf(reply, b).seen) # {}
               k == phase = "swept" /\ Recorded(ResultOf(reply, b))
               c == Contradicts(b, ResultOf(reply, b))
               u == ResultOf(reply, b).says = "unsound"
               f == Examines(reply, b)
    <2>1. g \in BOOLEAN /\ k \in BOOLEAN /\ u \in BOOLEAN  OBVIOUS
    <2>2. c \in BOOLEAN  BY DEF Contradicts
    <2>3. f \in BOOLEAN  BY DEF Examines
    <2>4. Result(reply, b) = [block |-> b, gaps |-> g, recorded |-> k, contradicts |-> c,
                              unsound |-> u, answer |-> [text |-> Scan(b), full |-> f]]
      BY DEF Result
    <2> HIDE DEF g, k, c, u, f
    <2> QED  BY <2>1, <2>2, <2>3, <2>4, <1>2 DEF ResultType
  <1>4. \A r \in Results(reply) : \E b \in Usable(reply) : r = Result(reply, b)
    BY DEF Results
  <1> QED  BY <1>1, <1>2, <1>3, <1>4

-----------------------------------------------------------------------------
(* A job starts with nothing scanned and nothing claimed (council.py: run).  *)
THEOREM InitIInv == Init => IInv
  <1> SUFFICES ASSUME Init PROVE IInv  OBVIOUS
  <1>1. TypeOK
    BY ScanAssumption DEF Init, TypeOK, Phases, NoAnswer, ScanAssumption
  <1>2. Places /\ Held  BY DEF Init, Places, Held, Writing
  <1>3. Chain  BY DEF Init, Chain, NoAnswer, Phases
  <1> QED  BY <1>1, <1>2, <1>3 DEF IInv

(* A call: its results carry reasoning that entered the registry with them. *)
LEMMA DispatchKeeps == IInv /\ Dispatch => IInv'
  <1> SUFFICES ASSUME IInv, Dispatch PROVE IInv'  OBVIOUS
  <1>1. PICK reply \in Replies :
           /\ todo' = Results(reply)
           /\ requeued' = Batch \ Usable(reply)
           /\ registry' = [b \in Blocks |-> IF b \in Registers(reply) THEN Scan(b) ELSE registry[b]]
    BY DEF Dispatch
  <1>2. /\ phase \in Phases /\ phase' = phase /\ stage = "idle"
        /\ steps' = steps + 1 /\ steps < StepBudget
        /\ stage' = IF todo' = {} THEN "requeue" ELSE FirstWrite[phase]
        /\ UNCHANGED <<done, short, never, rounds, private, issues, doubted, claims,
                       outcome, crashes>>
    BY DEF Dispatch, Working
  <1> USE DEF IInv
  <1>3. /\ Results(reply) \subseteq ResultType
        /\ \A r \in Results(reply) :
               r.block \in Usable(reply) /\ r.answer.text = Scan(r.block)
        /\ Usable(reply) \subseteq Batch /\ Batch \subseteq Blocks
        /\ \A b \in Blocks : Scan(b) \in Nat
    BY <1>2, ResultsOfACall
  <1>4. registry' \in [Blocks -> Nat]  BY <1>1, <1>3 DEF TypeOK
  <1>5. stage' = "requeue" \/ stage' \in {"private", "issues", "round"}
    BY <1>2 DEF FirstWrite, Phases
  <1>6. steps' \in 0..StepBudget
    BY <1>2, ScanAssumption DEF TypeOK, ScanAssumption
  <1>7. todo' \subseteq ResultType /\ requeued' \subseteq Blocks  BY <1>1, <1>3
  <1>8. TypeOK'
    BY <1>2, <1>4, <1>5, <1>6, <1>7 DEF TypeOK
  <1>9. Places'
    BY <1>2 DEF Places, Writing, FirstWrite, Writes, Phases
  <1>10. \A b \in Blocks : registry[b] <= registry'[b] /\ registry'[b] <= short["audited"][b] + 1
    <2> TAKE b \in Blocks
    <2>1. registry[b] <= short["audited"][b] + 1 /\ registry[b] \in Nat
          /\ short["audited"][b] \in Nat
      BY DEF Chain, TypeOK, Phases
    <2>2. CASE b \in Registers(reply)
      <3>1. phase = "audited"  BY <2>2 DEF Registers
      <3>2. registry'[b] = short["audited"][b] + 1  BY <1>1, <2>2, <3>1 DEF Scan
      <3> QED  BY <2>1, <3>2
    <2>3. CASE b \notin Registers(reply)
      BY <1>1, <2>1, <2>3
    <2> QED  BY <2>2, <2>3
  <1>11. Chain'
    <2> SUFFICES ASSUME NEW b \in Blocks
                 PROVE  /\ issues["audited"][b].text <= private[b]
                        /\ private[b] <= registry'[b]
                        /\ registry'[b] <= short["audited"][b] + 1
      BY <1>2 DEF Chain
    <2>1. private[b] \in Nat /\ registry[b] \in Nat /\ registry'[b] \in Nat
      BY <1>4 DEF TypeOK
    <2> QED  BY <1>10, <2>1 DEF Chain
  <1>12. Held'
    <2> SUFFICES ASSUME phase = "audited"
                 PROVE  /\ \A r \in todo' : r.answer.text = registry'[r.block]
                        /\ stage' # "issues"
      BY <1>2 DEF Held
    <2>1. stage' # "issues"  BY <1>2 DEF FirstWrite
    <2>2. Usable(reply) \subseteq Registers(reply)
      BY <1>3 DEF Registers
    <2>3. ASSUME NEW r \in todo' PROVE r.answer.text = registry'[r.block]
      BY <1>1, <1>3, <2>2
    <2> QED  BY <2>1, <2>3
  <1> QED  BY <1>8, <1>9, <1>11, <1>12

-----------------------------------------------------------------------------
(* What the writes leave alone. *)
Kept == UNCHANGED <<phase, steps, outcome, crashes>>

(* A write that keeps its result leaves the worker at the next write of it. *)
LEMMA SameResultKeeps ==
  ASSUME IInv, Writing, SameResult, phase' = phase,
         stage \in {"private", "issues", "coverage", "round"} \/ (stage = "decide")
  PROVE  /\ Places' /\ todo' = todo /\ requeued' = requeued
         /\ First' = First /\ First \in ResultType /\ First \in todo
         /\ stage' \in {"issues", "coverage", "decide", "claims", "mark"}
         /\ stage' = "issues" /\ phase = "audited" => stage = "private"
  <1>1. phase \in Phases /\ stage \in Writes[phase] /\ todo # {}
    BY DEF IInv, Places
  <1>2. todo' = todo /\ requeued' = requeued /\ stage' = After[phase][stage]
    BY DEF SameResult
  <1>3. First \in ResultType /\ First \in todo  BY <1>1, FirstIsOne DEF IInv
  <1>4. First' = First  BY <1>2 DEF First
  <1>5. CASE phase = "audited"
    BY <1>1, <1>2, <1>3, <1>4, <1>5 DEF After, Writes, Places, Writing, Phases
  <1>6. CASE phase = "swept"
    BY <1>1, <1>2, <1>3, <1>4, <1>6 DEF After, Writes, Places, Writing, Phases
  <1>7. CASE phase = "final_semantic"
    BY <1>1, <1>2, <1>3, <1>4, <1>7 DEF After, Writes, Places, Writing, Phases
  <1> QED  BY <1>1, <1>5, <1>6, <1>7 DEF Phases

(* A write that is the last of its result leaves it to the next one. *)
LEMMA NextResultKeeps ==
  ASSUME IInv, Writing, NextResult, phase' = phase
  PROVE  /\ Places' /\ todo' \subseteq todo /\ requeued' = requeued
         /\ First \in ResultType /\ First \in todo
         /\ stage' \in {"idle", "requeue", "private", "issues", "round"}
         /\ phase = "audited" => stage' # "issues"
  <1>1. phase \in Phases /\ stage \in Writes[phase] /\ todo # {}
    BY DEF IInv, Places
  <1>2. /\ todo' = todo \ {First} /\ requeued' = requeued
        /\ stage' = IF todo' # {} THEN FirstWrite[phase]
                    ELSE IF requeued = {} THEN "idle" ELSE "requeue"
    BY DEF NextResult
  <1>3. First \in ResultType /\ First \in todo  BY <1>1, FirstIsOne DEF IInv
  <1>4. FirstWrite[phase] \in Writes[phase] /\ FirstWrite[phase] \in {"private", "issues", "round"}
        /\ (phase = "audited" => FirstWrite[phase] = "private")
    BY <1>1 DEF FirstWrite, Writes, Phases
  <1>5. Places'  BY <1>1, <1>2, <1>4 DEF Places, Writing
  <1> QED  BY <1>2, <1>3, <1>4, <1>5

LEMMA KeepPrivateKeeps == IInv /\ KeepPrivate => IInv'
  <1> SUFFICES ASSUME IInv, KeepPrivate PROVE IInv'  OBVIOUS
  <1>1. /\ stage = "private" /\ SameResult /\ Kept
        /\ registry' = [registry EXCEPT ![First.block] = First.answer.text]
        /\ private' = [private EXCEPT ![First.block] = First.answer.text]
        /\ UNCHANGED <<done, short, never, rounds, issues, doubted, claims>>
    BY DEF KeepPrivate, Replacing, At, Rest, Kept
  <1>2. Writing /\ phase' = phase /\ phase = "audited"
    BY <1>1 DEF Writing, Kept, IInv, Places, Writes, Phases
  <1>3. /\ Places' /\ todo' = todo /\ requeued' = requeued
        /\ First' = First /\ First \in ResultType /\ First \in todo
        /\ stage' \in {"issues", "coverage", "decide", "claims", "mark"}
    BY <1>1, <1>2, SameResultKeeps
  <1>4. First.answer.text = registry[First.block]
    BY <1>2, <1>3 DEF IInv, Held
  <1>5. registry' = registry
    BY <1>1, <1>4 DEF IInv, TypeOK
  <1>6. First.block \in Blocks /\ First.answer.text \in Nat
    BY <1>3 DEF ResultType
  <1>7. TypeOK'
    BY <1>1, <1>3, <1>5, <1>6 DEF IInv, TypeOK, Kept
  <1>8. Chain'
    <2> SUFFICES ASSUME NEW b \in Blocks
                 PROVE  /\ issues["audited"][b].text <= private'[b]
                        /\ private'[b] <= registry[b]
                        /\ registry[b] <= short["audited"][b] + 1
      BY <1>1, <1>5 DEF Chain
    <2>1. /\ issues["audited"][b].text <= private[b] /\ private[b] <= registry[b]
          /\ registry[b] <= short["audited"][b] + 1
      BY DEF IInv, Chain
    <2>2. issues["audited"][b].text \in Nat /\ private[b] \in Nat /\ registry[b] \in Nat
      BY DEF IInv, TypeOK, Phases
    <2>3. private'[b] = IF b = First.block THEN registry[b] ELSE private[b]
      BY <1>1, <1>4 DEF IInv, TypeOK
    <2> QED  BY <2>1, <2>2, <2>3
  <1>9. Held'
    BY <1>1, <1>2, <1>3, <1>4, <1>5, <1>6 DEF Held, IInv, TypeOK
  <1> QED  BY <1>3, <1>7, <1>8, <1>9 DEF IInv

LEMMA OpenIssuesKeeps == IInv /\ OpenIssues => IInv'
  <1> SUFFICES ASSUME IInv, OpenIssues PROVE IInv'  OBVIOUS
  <1>1. /\ stage = "issues" /\ SameResult /\ Kept
        /\ issues' = [issues EXCEPT ![phase][First.block] = First.answer]
        /\ UNCHANGED <<registry, done, short, never, rounds, private, doubted, claims>>
    BY DEF OpenIssues, At, Rest, Kept
  <1>2. Writing /\ phase' = phase /\ phase \in Phases
    BY <1>1 DEF Writing, Kept, IInv, Places
  <1>3. /\ Places' /\ todo' = todo /\ requeued' = requeued
        /\ First' = First /\ First \in ResultType /\ First \in todo
        /\ stage' \in {"issues", "coverage", "decide", "claims", "mark"}
        /\ (stage' = "issues" /\ phase = "audited" => stage = "private")
    BY <1>1, <1>2, SameResultKeeps
  <1>4. First.block \in Blocks /\ First.answer \in [text : Nat, full : BOOLEAN]
    BY <1>3 DEF ResultType
  <1>5. issues \in [Phases -> [Blocks -> [text : Nat, full : BOOLEAN]]]
    BY DEF IInv, TypeOK
  <1>6. issues' \in [Phases -> [Blocks -> [text : Nat, full : BOOLEAN]]]
    BY <1>1, <1>2, <1>4, <1>5
  <1>7. TypeOK'
    BY <1>1, <1>3, <1>6 DEF IInv, TypeOK, Kept
  <1>8. \A b \in Blocks : issues'["audited"][b].text <= private[b]
    <2> TAKE b \in Blocks
    <2>1. issues["audited"][b].text <= private[b]  BY DEF IInv, Chain
    <2>2. CASE phase = "audited" /\ b = First.block
      <3>1. issues'["audited"][b] = First.answer  BY <1>1, <1>2, <1>5, <2>2
      <3>2. First.answer.text = registry[First.block] /\ private[First.block] = registry[First.block]
        BY <1>1, <1>3, <2>2 DEF IInv, Held
      <3> QED  BY <2>2, <3>1, <3>2 DEF IInv, TypeOK
    <2>3. CASE ~(phase = "audited" /\ b = First.block)
      <3>1. issues'["audited"][b] = issues["audited"][b]
        BY <1>1, <1>2, <1>5, <2>3 DEF Phases
      <3> QED  BY <2>1, <3>1
    <2> QED  BY <2>2, <2>3
  <1>9. Chain'  BY <1>1, <1>8 DEF IInv, Chain
  <1>10. Held'  BY <1>1, <1>2, <1>3 DEF IInv, Held
  <1> QED  BY <1>3, <1>7, <1>9, <1>10 DEF IInv

(* A re-scan that is owed raises the number of the next one. *)
LEMMA RescanKeeps == IInv /\ Rescan => IInv'
  <1> SUFFICES ASSUME IInv, Rescan PROVE IInv'  OBVIOUS
  <1>1. /\ stage = "decide" /\ NextResult /\ Kept
        /\ short' = [short EXCEPT ![phase][First.block] = @ + 1]
        /\ UNCHANGED <<registry, done, never, rounds, private, issues, doubted, claims>>
    BY DEF Rescan, At, Rest, Kept
  <1>2. Writing /\ phase' = phase /\ phase \in Phases
    BY <1>1 DEF Writing, Kept, IInv, Places
  <1>3. /\ Places' /\ todo' \subseteq todo /\ requeued' = requeued
        /\ First \in ResultType
        /\ stage' \in {"idle", "requeue", "private", "issues", "round"}
        /\ (phase = "audited" => stage' # "issues")
    BY <1>1, <1>2, NextResultKeeps
  <1>4. First.block \in Blocks  BY <1>3 DEF ResultType
  <1>5. short \in [Phases -> [Blocks -> Nat]]  BY DEF IInv, TypeOK
  <1>6. short' \in [Phases -> [Blocks -> Nat]]  BY <1>1, <1>2, <1>4, <1>5
  <1>7. TypeOK'
    BY <1>1, <1>3, <1>6 DEF IInv, TypeOK, Kept
  <1>8. \A b \in Blocks : short["audited"][b] <= short'["audited"][b]
    BY <1>1, <1>2, <1>4, <1>5 DEF Phases
  <1>9. Chain'
    <2> SUFFICES ASSUME NEW b \in Blocks PROVE registry[b] <= short'["audited"][b] + 1
      BY <1>1 DEF IInv, Chain
    <2>1. registry[b] <= short["audited"][b] + 1 /\ registry[b] \in Nat
      BY DEF IInv, Chain, TypeOK
    <2>2. short["audited"][b] \in Nat /\ short'["audited"][b] \in Nat
      BY <1>5, <1>6 DEF Phases
    <2> QED  BY <1>8, <2>1, <2>2
  <1>10. Held'  BY <1>1, <1>2, <1>3 DEF IInv, Held
  <1> QED  BY <1>3, <1>7, <1>9, <1>10 DEF IInv

(* The writes that touch no reasoning and no finding. *)
LEMMA QuietKeeps ==
  ASSUME IInv, Kept, UNCHANGED <<registry, short, private, issues>>,
         done' \in [Phases -> SUBSET Blocks], never' \subseteq Phases \X Blocks,
         rounds' \in [Blocks -> Nat], doubted' \subseteq Blocks, claims' \subseteq Blocks,
         requeued' \subseteq Blocks, todo' \subseteq todo, Places',
         stage' \in {"idle", "requeue", "private", "issues", "coverage", "round", "decide",
                    "claims", "mark"},
         phase = "audited" => stage' # "issues"
  PROVE  IInv'
  <1>1. TypeOK'  BY DEF IInv, TypeOK, Kept
  <1>2. Chain'  BY DEF IInv, Chain
  <1>3. Held'  BY DEF IInv, Held, Kept
  <1> QED  BY <1>1, <1>2, <1>3 DEF IInv

Quiet == PersistCoverage \/ CountRound \/ GiveUpRows \/ Withhold \/ RecordClaims \/ Mark \/ Requeue
LEMMA QuietWrites == IInv /\ Quiet => IInv'
  <1> SUFFICES ASSUME IInv, Quiet PROVE IInv'  OBVIOUS
  <1> DEFINE Typed ==
        /\ done' \in [Phases -> SUBSET Blocks] /\ never' \subseteq Phases \X Blocks
        /\ rounds' \in [Blocks -> Nat] /\ doubted' \subseteq Blocks /\ claims' \subseteq Blocks
      Moved ==
        /\ requeued' \subseteq Blocks /\ todo' \subseteq todo /\ Places'
        /\ stage' \in {"idle", "requeue", "private", "issues", "coverage", "round", "decide",
                       "claims", "mark"}
        /\ (phase = "audited" => stage' # "issues")
  <1>1. Kept /\ UNCHANGED <<registry, short, private, issues>>
    BY DEF Quiet, PersistCoverage, CountRound, GiveUpRows, Withhold, RecordClaims, Mark, Requeue,
           Rest, Kept
  <1>2. /\ done \in [Phases -> SUBSET Blocks] /\ never \subseteq Phases \X Blocks
        /\ rounds \in [Blocks -> Nat] /\ doubted \subseteq Blocks /\ claims \subseteq Blocks
        /\ requeued \subseteq Blocks
    BY DEF IInv, TypeOK
  <1>3. Writing => phase \in Phases /\ First.block \in Blocks
    BY FirstIsOne DEF IInv, Places, ResultType
  <1>4. phase' = phase  BY <1>1 DEF Kept
  <1>5. CASE PersistCoverage
    <2>1. stage = "coverage" /\ Writing  BY <1>5 DEF PersistCoverage, At, Writing
    <2>2. SameResult  BY <1>5 DEF PersistCoverage
    <2>3. Moved  BY <1>2, <1>4, <2>1, <2>2, SameResultKeeps
    <2>4. Typed  BY <1>2, <1>3, <1>5, <2>1 DEF PersistCoverage, Latest
    <2> QED  BY <1>1, <2>3, <2>4, QuietKeeps
  <1>6. CASE CountRound
    <2>1. stage = "round" /\ Writing  BY <1>6 DEF CountRound, At, Writing
    <2>2. SameResult  BY <1>6 DEF CountRound
    <2>3. Moved  BY <1>2, <1>4, <2>1, <2>2, SameResultKeeps
    <2>4. Typed  BY <1>2, <1>3, <1>6, <2>1 DEF CountRound
    <2> QED  BY <1>1, <2>3, <2>4, QuietKeeps
  <1>7. CASE GiveUpRows
    <2>1. stage = "decide" /\ Writing  BY <1>7 DEF GiveUpRows, At, Writing
    <2>2. SameResult  BY <1>7 DEF GiveUpRows
    <2>3. Moved  BY <1>2, <1>4, <2>1, <2>2, SameResultKeeps
    <2>4. Typed  BY <1>2, <1>3, <1>7, <2>1 DEF GiveUpRows
    <2> QED  BY <1>1, <2>3, <2>4, QuietKeeps
  <1>8. CASE Withhold
    <2>1. Writing /\ NextResult  BY <1>8 DEF Withhold, At, Writing
    <2>2. Moved  BY <1>2, <1>4, <2>1, NextResultKeeps
    <2>3. Typed  BY <1>2, <1>8 DEF Withhold
    <2> QED  BY <1>1, <2>2, <2>3, QuietKeeps
  <1>9. CASE RecordClaims
    <2>1. /\ Writing /\ stage' = "mark" /\ todo' = todo /\ requeued' = requeued
          /\ stage = "claims" \/ After[phase].decide = "claims"
          /\ stage \in {"claims", "decide"}
      BY <1>9 DEF RecordClaims, Reached, Stands, At, Writing
    <2>2. phase = "audited"
      BY <1>3, <2>1 DEF IInv, Places, After, Writes, Phases
    <2>3. Places'  BY <1>4, <2>1, <2>2 DEF IInv, Places, Writing, Writes, Phases
    <2>4. Typed  BY <1>2, <1>3, <1>9, <2>1 DEF RecordClaims
    <2>5. Moved  BY <1>2, <2>1, <2>3
    <2> QED  BY <1>1, <2>4, <2>5, QuietKeeps
  <1>10. CASE Mark
    <2>1. Writing /\ NextResult  BY <1>10 DEF Mark, Reached, Stands, At, Writing
    <2>2. Moved  BY <1>2, <1>4, <2>1, NextResultKeeps
    <2>3. Typed
      <3>1. done' = [done EXCEPT ![phase] = @ \cup {First.block}]  BY <1>10 DEF Mark
      <3>2. done' \in [Phases -> SUBSET Blocks]  BY <1>2, <1>3, <2>1, <3>1
      <3> QED  BY <1>2, <1>10, <3>2 DEF Mark
    <2> QED  BY <1>1, <2>2, <2>3, QuietKeeps
  <1>11. CASE Requeue
    <2>1. /\ stage = "requeue" /\ todo' = todo
          /\ stage' = IF requeued' = {} THEN "idle" ELSE "requeue"
      BY <1>11 DEF Requeue, At
    <2>2. requeued' \subseteq requeued /\ rounds' \in [Blocks -> Nat]
      BY <1>2, <1>11 DEF Requeue
    <2>3. Places'  BY <1>4, <2>1 DEF IInv, Places, Writing
    <2>4. Typed  BY <1>2, <1>11, <2>2 DEF Requeue
    <2>5. Moved  BY <1>2, <2>1, <2>2, <2>3
    <2> QED  BY <1>1, <2>4, <2>5, QuietKeeps
  <1> QED  BY <1>5, <1>6, <1>7, <1>8, <1>9, <1>10, <1>11 DEF Quiet

(* Between the steps: a phase ends, the job ends, the worker dies. *)
LEMMA EndPhaseKeeps == IInv /\ EndPhase => IInv'
  <1> SUFFICES ASSUME IInv, EndPhase PROVE IInv'  OBVIOUS
  <1>1. /\ stage = "idle" /\ phase \in Phases /\ phase' = NextPhase[phase]
        /\ steps' = steps + 1 /\ steps < StepBudget
        /\ UNCHANGED <<done, short, never, rounds, private, issues, doubted, claims,
                       registry, todo, requeued, stage, outcome, crashes>>
    BY DEF EndPhase, Working, memory
  <1>2. phase' \in {"swept", "final_semantic", "over"}
    BY <1>1 DEF NextPhase, Phases
  <1>3. steps' \in 0..StepBudget
    BY <1>1, ScanAssumption DEF IInv, TypeOK, ScanAssumption
  <1>4. TypeOK'  BY <1>1, <1>2, <1>3 DEF IInv, TypeOK, Phases
  <1>5. Places'  BY <1>1 DEF IInv, Places, Writing
  <1>6. Chain' /\ Held'  BY <1>1, <1>2 DEF IInv, Chain, Held
  <1> QED  BY <1>4, <1>5, <1>6 DEF IInv

LEMMA EndKeeps == IInv /\ (Exhausted \/ Finalize) => IInv'
  <1> SUFFICES ASSUME IInv, Exhausted \/ Finalize PROVE IInv'  OBVIOUS
  <1>1. /\ UNCHANGED <<phase, steps, done, short, never, rounds, private, issues, doubted,
                       claims, registry, todo, requeued, stage, crashes>>
        /\ outcome' \in {"running", "succeeded", "attention", "failed"}
    BY DEF Exhausted, Finalize, durable, memory
  <1>2. TypeOK'  BY <1>1 DEF IInv, TypeOK
  <1>3. Places' /\ Chain'  BY <1>1 DEF IInv, Places, Writing, Chain
  <1>4. Held'  BY <1>1 DEF IInv, Held, First
  <1> QED  BY <1>2, <1>3, <1>4 DEF IInv

LEMMA CrashKeeps == IInv /\ Crash => IInv'
  <1> SUFFICES ASSUME IInv, Crash PROVE IInv'  OBVIOUS
  <1>1. /\ UNCHANGED <<phase, steps, done, short, never, rounds, private, issues, doubted,
                       claims, outcome>>
        /\ registry' = private /\ todo' = {} /\ requeued' = {} /\ stage' = "idle"
    BY DEF Crash, durable, Rebuilt
  <1>2. TypeOK'  BY <1>1 DEF IInv, TypeOK
  <1>3. Places' /\ Held'  BY <1>1 DEF Places, Writing, Held
  <1>4. Chain'
    <2> SUFFICES ASSUME NEW b \in Blocks
                 PROVE  /\ issues["audited"][b].text <= private[b] /\ private[b] <= private[b]
                        /\ private[b] <= short["audited"][b] + 1
      BY <1>1 DEF Chain
    <2>1. private[b] \in Nat /\ registry[b] \in Nat /\ short["audited"][b] \in Nat
      BY DEF IInv, TypeOK, Phases
    <2> QED  BY <2>1 DEF IInv, Chain
  <1> QED  BY <1>2, <1>3, <1>4 DEF IInv

LEMMA StepKeeps == IInv /\ [Next]_vars => IInv'
  <1> SUFFICES ASSUME IInv, [Next]_vars PROVE IInv'  OBVIOUS
  <1>1. CASE UNCHANGED vars
    <2>1. TypeOK' /\ Places' /\ Chain'
      BY <1>1 DEF IInv, TypeOK, Places, Writing, Chain, vars, durable, memory
    <2>2. Held'  BY <1>1 DEF IInv, Held, First, vars, durable, memory
    <2> QED  BY <2>1, <2>2 DEF IInv
  <1> QED
    BY <1>1, DispatchKeeps, KeepPrivateKeeps, OpenIssuesKeeps, RescanKeeps, QuietWrites,
       EndPhaseKeeps, EndKeeps, CrashKeeps DEF Next, Persist, Quiet

-----------------------------------------------------------------------------
(* The record of what was examined and the worker's memory keep their types. *)
THEOREM TypeCorrect == Spec => []TypeOK
  <1>1. IInv => TypeOK  BY DEF IInv
  <1> QED  BY InitIInv, StepKeeps, <1>1, PTL DEF Spec

(* No call goes out in a worker whose registry lacks reasoning behind findings
   on record, wherever the workers before it died: _keep_private,
   TaintRegistry.rebuilt.                                                    *)
THEOREM ReasoningStaysRegistered == Spec => []ReasoningIsRegistered
  <1>1. IInv => ReasoningIsRegistered
    <2> SUFFICES ASSUME IInv, NEW b \in Blocks
                 PROVE  issues["audited"][b].text <= registry[b]
      BY DEF ReasoningIsRegistered
    <2>1. issues["audited"][b].text \in Nat /\ private[b] \in Nat /\ registry[b] \in Nat
      BY DEF IInv, TypeOK, Phases
    <2> QED  BY <2>1 DEF IInv, Chain
  <1> QED  BY InitIInv, StepKeeps, <1>1, PTL DEF Spec

-----------------------------------------------------------------------------
(* What was examined.                                                       *)

(* A result that holds nothing against its block is the block's own and
   complete, or there is another place where it tells.                       *)
Vouched(r) ==
    Graded[r.block] # {} /\ ~r.gaps =>
        \/ r.answer.full
        \/ phase = "swept" /\ r.block \notin Changed /\ r.recorded /\ r.contradicts
        \/ phase = "final_semantic" /\ (r.unsound \/ r.contradicts)

(* The results of a call are of blocks that are not done, one of each.       *)
Owed == \A r \in todo :
    /\ r.block \notin done[phase] /\ Vouched(r)
    /\ \A q \in todo : q.block = r.block => q = r

(* Which writes came before the one the worker is at.                        *)
Opened ==
    stage \in {"coverage", "decide", "claims", "mark"} => issues[phase][First.block] = First.answer
Doubts ==
    phase = "swept" /\ stage \in {"decide", "mark"} /\ First.recorded /\ First.contradicts =>
        First.block \in doubted
Decided ==
    stage \in {"claims", "mark"} =>
        phase # "final_semantic" /\ (First.gaps => <<phase, First.block>> \in never)
Claimed ==
    /\ done["audited"] \subseteq claims
    /\ phase = "audited" /\ stage = "mark" => First.block \in claims

(* A phase ends when all its blocks are marked, and a marked block was examined
   in the answer whose findings are open, or one of two notes says it was not. *)
Emptied ==
    /\ phase # "audited" => done["audited"] = Blocks
    /\ phase \in {"final_semantic", "over"} => done["swept"] = Blocks
MarkMeans(p, b) ==
    Graded[b] # {} =>
        issues[p][b].full \/ <<p, b>> \in never \/ (p = "swept" /\ b \in doubted \ Changed)
Marked == \A p \in Phases : \A b \in done[p] : MarkMeans(p, b)

Success ==
    outcome = "succeeded" =>
        /\ phase = "over" /\ never = {} /\ doubted \subseteq Changed
        /\ Changed \subseteq done["final_semantic"]

XInv == Owed /\ Opened /\ Doubts /\ Decided /\ Claimed /\ Emptied /\ Marked /\ Success

(* The places in which something is said of the first result.                *)
Said == {"coverage", "decide", "claims", "mark"}

(* What the code takes for an examination of a block is one.                 *)
LEMMA ResultsAreVouched ==
  ASSUME IInv, phase \in Phases, NEW reply \in Replies
  PROVE  \A r \in Results(reply) :
             /\ r.block \notin done[phase] /\ Vouched(r)
             /\ \A q \in Results(reply) : q.block = r.block => q = r
  <1> SUFFICES ASSUME NEW b \in Usable(reply)
               PROVE  b \notin done[phase] /\ Vouched(Result(reply, b))
    BY DEF Results, Result, Vouched
  <1>1. b \in Batch /\ b \in Blocks /\ b \notin done[phase]
    BY DEF Usable, Batch, Pending, Waiting
  <1> DEFINE result == ResultOf(reply, b)
             r == Result(reply, b)
  <1> SUFFICES ASSUME Graded[b] # {}, Gaps(b, result.seen) = {}
               PROVE  \/ Examines(reply, b)
                      \/ phase = "swept" /\ b \notin Changed /\ Recorded(result) /\ Contradicts(b, result)
                      \/ phase = "final_semantic" /\ (result.says = "unsound" \/ Contradicts(b, result))
    BY <1>1 DEF Vouched, Result
  <1>2. PICK c \in Under(reply, b) : c = CHOOSE x \in Under(reply, b) : TRUE
    <2>1. Under(reply, b) # {}
      BY FS_EmptySet DEF Usable, Attributed
    <2> QED  BY <2>1
  <1>3. c \in Batch /\ c \in Blocks /\ result = reply[c]
    BY <1>2 DEF Under, ResultOf, Batch, Pending
  <1>4. \A row \in Graded[b] : row \in DOMAIN result.seen /\ result.seen[row] = 1
    BY DEF Gaps
  <1>5. result \in Answers(c)
    <2>1. result \in AnswersOrNone(c)  BY <1>3 DEF Replies
    <2>2. result # Omitted
      <3> SUFFICES ASSUME result = Omitted PROVE FALSE  OBVIOUS
      <3>1. result.seen = <<>>  BY DEF Omitted
      <3> HIDE DEF result
      <3>2. DOMAIN result.seen = {}  BY <3>1
      <3> QED  BY <1>4, <3>2
    <2> QED  BY <2>1, <2>2 DEF AnswersOrNone
  <1>6. /\ result.seen \in [Graded[c] -> 0..2] /\ result.says \in Says[phase]
        /\ result.id \in Batch
    BY <1>5 DEF Answers
  <1> HIDE DEF result
  <1>7. b = c
    <2>1. \E row \in Graded[b] : row \in Graded[c]  BY <1>4, <1>6
    <2> QED  BY <1>1, <1>3, <2>1, ScanAssumption DEF ScanAssumption
  <1>8. (Alone \/ reply[b].id = b) /\ reply[b] = result
    BY <1>2, <1>3, <1>7 DEF Under
  <1>9. result.says # "stray"
    BY DEF Usable, Strays, result
  <1>10. (\E row \in DOMAIN result.seen \cap Graded[b] : result.seen[row] > 0) /\ Recorded(result)
    BY <1>4 DEF Recorded
  <1>11. CASE result.says = "clean"
    BY <1>4, <1>8, <1>11 DEF Examines
  <1>12. CASE result.says # "clean"
    <2>1. phase # "audited"  BY <1>6, <1>9, <1>12 DEF Says, Phases
    <2>2. result.says = "contradicts" => Contradicts(b, result)  BY <1>10 DEF Contradicts
    <2>3. CASE phase = "swept"
      <3>1. result.says = "contradicts"  BY <1>6, <1>9, <1>12, <2>3 DEF Says
      <3> QED  BY <1>4, <1>8, <1>10, <2>2, <2>3, <3>1 DEF Examines
    <2>4. CASE phase = "final_semantic"
      <3>1. result.says \in {"contradicts", "unsound"}  BY <1>6, <1>9, <1>12, <2>4 DEF Says
      <3> QED  BY <2>2, <2>4, <3>1
    <2> QED  BY <2>1, <2>3, <2>4 DEF Phases
  <1> QED  BY <1>11, <1>12

(* And with no block examined in any phase (council.py: run).                *)
THEOREM InitXInv == Init => XInv
  BY DEF Init, XInv, Owed, Opened, Doubts, Decided, Claimed, Emptied, Marked, Success, Phases

(* The first result and its place.                                           *)
LEMMA AtFirst ==
  ASSUME IInv, Writing
  PROVE  /\ phase \in Phases /\ stage \in Writes[phase] /\ First \in todo
         /\ First \in ResultType /\ First.block \in Blocks
  <1>1. phase \in Phases /\ stage \in Writes[phase] /\ todo # {}  BY DEF IInv, Places
  <1> QED  BY <1>1, FirstIsOne DEF IInv, ResultType

(* A step after which the worker is at nothing that says something of its
   result, and that marks nothing.                                           *)
LEMMA Unsaid ==
  ASSUME IInv, XInv, outcome = "running", outcome' = "running", phase' = phase,
         stage' \notin Said, todo' \subseteq todo,
         UNCHANGED <<done, never, issues, doubted, claims>>
  PROVE  XInv'
  <1>1. Owed'  BY DEF XInv, Owed, Vouched
  <1>2. Opened' /\ Doubts' /\ Decided'  BY DEF Opened, Doubts, Decided, Said
  <1>3. Claimed' /\ Emptied'  BY DEF XInv, Claimed, Emptied, Said
  <1>4. Marked' /\ Success'  BY DEF XInv, Marked, MarkMeans, Success
  <1> QED  BY <1>1, <1>2, <1>3, <1>4 DEF XInv

LEMMA NextUnsaid ==
  ASSUME IInv, Writing, NextResult, phase' = phase
  PROVE  stage' \notin Said /\ todo' = todo \ {First}
  BY NextResultKeeps DEF Said, NextResult

LEMMA DispatchExamines == IInv /\ XInv /\ Dispatch => XInv'
  <1> SUFFICES ASSUME IInv, XInv, Dispatch PROVE XInv'  OBVIOUS
  <1>1. PICK reply \in Replies : todo' = Results(reply)
    BY DEF Dispatch
  <1>2. /\ phase \in Phases /\ phase' = phase /\ outcome = "running"
        /\ stage' \in {"requeue", "private", "issues", "round"}
        /\ UNCHANGED <<done, short, never, issues, doubted, claims, outcome>>
    BY DEF Dispatch, Working, FirstWrite, Phases
  <1>3. Owed'  BY <1>1, <1>2, ResultsAreVouched DEF Owed, Vouched
  <1>4. Opened' /\ Doubts' /\ Decided'  BY <1>2 DEF Opened, Doubts, Decided
  <1>5. Claimed' /\ Emptied'  BY <1>2 DEF XInv, Claimed, Emptied
  <1>6. Marked' /\ Success'  BY <1>2 DEF XInv, Marked, MarkMeans, Success
  <1> QED  BY <1>3, <1>4, <1>5, <1>6 DEF XInv

(* Findings are opened for a block that is not marked.                       *)
LEMMA OpenIssuesExamines == IInv /\ XInv /\ OpenIssues => XInv'
  <1> SUFFICES ASSUME IInv, XInv, OpenIssues PROVE XInv'  OBVIOUS
  <1>1. /\ stage = "issues" /\ SameResult /\ outcome = "running" /\ outcome' = outcome /\ phase' = phase
        /\ issues' = [issues EXCEPT ![phase][First.block] = First.answer]
        /\ UNCHANGED <<done, never, doubted, claims>>
    BY DEF OpenIssues, At, Rest
  <1>2. Writing  BY <1>1 DEF Writing
  <1>3. /\ phase \in Phases /\ stage \in Writes[phase] /\ First \in todo
        /\ First.block \in Blocks /\ todo' = todo /\ First' = First
    BY <1>1, <1>2, AtFirst, SameResultKeeps
  <1>4. stage' \in {"coverage", "decide"} /\ (phase = "swept" => stage' = "coverage")
    BY <1>1, <1>3 DEF SameResult, After, Phases
  <1>5. issues \in [Phases -> [Blocks -> [text : Nat, full : BOOLEAN]]]
    BY DEF IInv, TypeOK
  <1>6. issues'[phase][First.block] = First.answer  BY <1>1, <1>3, <1>5
  <1>7. Opened' /\ Doubts' /\ Decided'
    BY <1>1, <1>3, <1>4, <1>6 DEF Opened, Doubts, Decided
  <1>8. Owed'  BY <1>1, <1>3 DEF XInv, Owed, Vouched
  <1>9. Claimed' /\ Emptied' /\ Success'  BY <1>1, <1>4 DEF XInv, Claimed, Emptied, Success
  <1>10. Marked'
    <2> SUFFICES ASSUME NEW p \in Phases, NEW b \in done[p] PROVE issues'[p][b] = issues[p][b]
      BY <1>1 DEF XInv, Marked, MarkMeans
    <2>1. b \in Blocks  BY DEF IInv, TypeOK
    <2>2. ~(p = phase /\ b = First.block)  BY <1>3 DEF XInv, Owed
    <2> QED  BY <1>1, <1>3, <1>5, <2>1, <2>2
  <1> QED  BY <1>7, <1>8, <1>9, <1>10 DEF XInv

(* A doubt is settled by the block's own next sweep only.                    *)
LEMMA CoverageExamines == IInv /\ XInv /\ PersistCoverage => XInv'
  <1> SUFFICES ASSUME IInv, XInv, PersistCoverage PROVE XInv'  OBVIOUS
  <1>1. /\ stage = "coverage" /\ SameResult /\ outcome = "running" /\ outcome' = outcome /\ phase' = phase
        /\ doubted' = Latest /\ UNCHANGED <<done, never, issues, claims>>
    BY DEF PersistCoverage, At, Rest
  <1>2. Writing  BY <1>1 DEF Writing
  <1>3. /\ phase \in Phases /\ stage \in Writes[phase] /\ First \in todo
        /\ First.block \in Blocks /\ todo' = todo /\ First' = First
    BY <1>1, <1>2, AtFirst, SameResultKeeps
  <1>4. phase = "swept"  BY <1>1, <1>3 DEF Writes, Phases
  <1>5. stage' = "decide"  BY <1>1, <1>4 DEF SameResult, After
  <1>6. Opened' /\ Doubts' /\ Decided'
    BY <1>1, <1>3, <1>4, <1>5 DEF XInv, Opened, Doubts, Decided, Latest
  <1>7. Owed'  BY <1>1, <1>3 DEF XInv, Owed, Vouched
  <1>8. Claimed' /\ Emptied' /\ Success'  BY <1>1, <1>5 DEF XInv, Claimed, Emptied, Success
  <1>9. Marked'
    <2> SUFFICES ASSUME NEW p \in Phases, NEW b \in done[p] PROVE MarkMeans(p, b)'
      BY <1>1 DEF Marked
    <2>1. MarkMeans(p, b)  BY DEF XInv, Marked
    <2>2. p = "swept" => b # First.block  BY <1>3, <1>4 DEF XInv, Owed
    <2>3. p = "swept" /\ b \in doubted => b \in doubted'  BY <1>1, <2>2 DEF Latest
    <2> QED  BY <1>1, <2>1, <2>3 DEF MarkMeans
  <1> QED  BY <1>6, <1>7, <1>8, <1>9 DEF XInv

(* Rows that stay unread are noted before the block goes on.                 *)
LEMMA GiveUpExamines == IInv /\ XInv /\ GiveUpRows => XInv'
  <1> SUFFICES ASSUME IInv, XInv, GiveUpRows PROVE XInv'  OBVIOUS
  <1>1. /\ stage = "decide" /\ SameResult /\ outcome = "running" /\ outcome' = outcome /\ phase' = phase
        /\ phase # "final_semantic"
        /\ never' = never \cup {<<phase, First.block>>}
        /\ UNCHANGED <<done, issues, doubted, claims>>
    BY DEF GiveUpRows, At, Rest
  <1>2. Writing  BY <1>1 DEF Writing
  <1>3. /\ phase \in Phases /\ First \in todo
        /\ First.block \in Blocks /\ todo' = todo /\ First' = First
    BY <1>1, <1>2, AtFirst, SameResultKeeps
  <1>4. stage' \in {"claims", "mark"} /\ (phase = "audited" => stage' = "claims")
    BY <1>1, <1>3 DEF SameResult, After, Phases
  <1>5. Opened' /\ Doubts' /\ Decided'
    BY <1>1, <1>3, <1>4 DEF XInv, Opened, Doubts, Decided
  <1>6. Owed'  BY <1>1, <1>3 DEF XInv, Owed, Vouched
  <1>7. Claimed' /\ Emptied' /\ Success'  BY <1>1, <1>4 DEF XInv, Claimed, Emptied, Success
  <1>8. Marked'  BY <1>1 DEF XInv, Marked, MarkMeans
  <1> QED  BY <1>5, <1>6, <1>7, <1>8 DEF XInv

LEMMA ClaimsExamines == IInv /\ XInv /\ RecordClaims => XInv'
  <1> SUFFICES ASSUME IInv, XInv, RecordClaims PROVE XInv'  OBVIOUS
  <1>1. /\ stage \in {"claims", "decide"} /\ stage' = "mark" /\ todo' = todo
        /\ stage = "decide" => Stands /\ After[phase].decide = "claims"
        /\ outcome = "running" /\ outcome' = outcome /\ phase' = phase
        /\ claims' = claims \cup {First.block}
        /\ UNCHANGED <<done, never, issues, doubted>>
    BY DEF RecordClaims, Reached, Stands, At, Rest
  <1>2. Writing  BY <1>1 DEF Writing
  <1>3. /\ phase \in Phases /\ stage \in Writes[phase] /\ First \in todo
        /\ First.block \in Blocks /\ First' = First
    BY <1>1, <1>2, AtFirst DEF First
  <1>4. phase = "audited"  BY <1>1, <1>3 DEF Writes, After, Phases
  <1>5. First.gaps => <<phase, First.block>> \in never
    BY <1>1, <1>4 DEF XInv, Decided, Stands
  <1>6. Opened' /\ Doubts' /\ Decided'
    BY <1>1, <1>3, <1>4, <1>5 DEF XInv, Opened, Doubts, Decided
  <1>7. Owed'  BY <1>1 DEF XInv, Owed, Vouched
  <1>8. Claimed' /\ Emptied' /\ Success'  BY <1>1, <1>3 DEF XInv, Claimed, Emptied, Success
  <1>9. Marked'  BY <1>1 DEF XInv, Marked, MarkMeans
  <1> QED  BY <1>6, <1>7, <1>8, <1>9 DEF XInv

(* A block is marked when its result stands or was given up.                 *)
LEMMA MarkExamines == IInv /\ XInv /\ Mark => XInv'
  <1> SUFFICES ASSUME IInv, XInv, Mark PROVE XInv'  OBVIOUS
  <1>1. /\ stage \in {"mark", "decide"} /\ NextResult
        /\ stage = "decide" => Stands /\ After[phase].decide = "mark"
        /\ outcome = "running" /\ outcome' = outcome /\ phase' = phase
        /\ done' = [done EXCEPT ![phase] = @ \cup {First.block}]
        /\ UNCHANGED <<never, issues, doubted, claims>>
    BY DEF Mark, Reached, Stands, At, Rest
  <1>2. Writing  BY <1>1 DEF Writing
  <1>3. /\ phase \in Phases /\ stage \in Writes[phase] /\ First \in todo
        /\ First.block \in Blocks /\ First \in ResultType
    BY <1>2, AtFirst
  <1>4. stage' \notin Said /\ todo' = todo \ {First}  BY <1>1, <1>2, NextUnsaid
  <1>5. /\ done'[phase] = done[phase] \cup {First.block}
        /\ \A p \in Phases : p # phase => done'[p] = done[p]
        /\ \A p \in Phases : done[p] \subseteq Blocks
    BY <1>1, <1>3 DEF IInv, TypeOK
  <1>6. Opened' /\ Doubts' /\ Decided'  BY <1>4 DEF Said, Opened, Doubts, Decided
  <1>7. Owed'
    <2> SUFFICES ASSUME NEW r \in todo'
                 PROVE  /\ r.block \notin done'[phase] /\ Vouched(r)
                        /\ \A q \in todo' : q.block = r.block => q = r
      BY <1>1 DEF Owed, Vouched
    <2>1. r \in todo /\ r # First  BY <1>4
    <2>2. r.block # First.block /\ r.block \notin done[phase]  BY <1>3, <2>1 DEF XInv, Owed
    <2> QED  BY <1>4, <1>5, <2>1, <2>2 DEF XInv, Owed
  <1>8. phase = "audited" => First.block \in claims
    BY <1>1 DEF After, XInv, Claimed
  <1>9. Claimed'
    BY <1>1, <1>3, <1>4, <1>5, <1>8 DEF XInv, Claimed, Said, Phases
  <1>10. Emptied'
    <2>1. "audited" \in Phases /\ "swept" \in Phases  BY DEF Phases
    <2> QED  BY <1>1, <1>3, <1>5, <2>1 DEF XInv, Emptied
  <1>11. MarkMeans(phase, First.block)
    <2> SUFFICES ASSUME Graded[First.block] # {}, <<phase, First.block>> \notin never,
                        ~First.answer.full
                 PROVE  phase = "swept" /\ First.block \in doubted \ Changed
      BY <1>1 DEF XInv, Opened, MarkMeans
    <2>1. Vouched(First)  BY <1>3 DEF XInv, Owed
    <2>2. CASE stage = "decide"
      <3>1. Stands  BY <1>1, <2>2
      <3>2. ~First.gaps  BY <3>1 DEF Stands, Defective
      <3>3. phase # "final_semantic"
        BY <2>1, <3>1, <3>2 DEF Stands, Defective, Vouched
      <3> QED  BY <2>1, <2>2, <3>2, <3>3 DEF Vouched, XInv, Doubts
    <2>3. CASE stage = "mark"
      <3>1. phase # "final_semantic" /\ ~First.gaps  BY <2>3 DEF XInv, Decided
      <3> QED  BY <2>1, <2>3, <3>1 DEF Vouched, XInv, Doubts
    <2> QED  BY <1>1, <2>2, <2>3
  <1>12. Marked'
    <2> SUFFICES ASSUME NEW p \in Phases, NEW b \in done'[p] PROVE MarkMeans(p, b)
      BY <1>1 DEF Marked, MarkMeans
    <2>1. CASE b \in done[p]  BY <2>1 DEF XInv, Marked
    <2>2. CASE b \notin done[p]
      <3>1. p = phase /\ b = First.block  BY <1>5, <2>2
      <3> QED  BY <1>11, <3>1
    <2> QED  BY <2>1, <2>2
  <1>13. Success'  BY <1>1 DEF Success
  <1> QED  BY <1>6, <1>7, <1>9, <1>10, <1>12, <1>13 DEF XInv

(* The writes that say nothing of a result.                                  *)
LEMMA OthersExamine ==
  IInv /\ XInv /\ (KeepPrivate \/ CountRound \/ Rescan \/ Withhold \/ Requeue \/ Crash) => XInv'
  <1> SUFFICES ASSUME IInv, XInv,
                      KeepPrivate \/ CountRound \/ Rescan \/ Withhold \/ Requeue \/ Crash
               PROVE  XInv'
    OBVIOUS
  <1>1. /\ outcome = "running" /\ outcome' = "running" /\ phase' = phase
        /\ UNCHANGED <<done, never, issues, doubted, claims>>
    BY DEF KeepPrivate, CountRound, Rescan, Withhold, Requeue, Crash, At, Rest, durable
  <1>2. CASE KeepPrivate \/ CountRound
    <2>1. stage \in {"private", "round"} /\ SameResult /\ Writing
      BY <1>2 DEF KeepPrivate, CountRound, At, Writing
    <2>2. phase \in Phases /\ stage \in Writes[phase]  BY <2>1, AtFirst
    <2>3. stage' = "issues" /\ todo' = todo
      BY <2>1, <2>2 DEF SameResult, After, Writes, Phases
    <2> QED  BY <1>1, <2>3, Unsaid DEF Said
  <1>3. CASE Rescan \/ Withhold
    <2>1. NextResult /\ Writing  BY <1>3 DEF Rescan, Withhold, At, Writing
    <2>2. stage' \notin Said /\ todo' = todo \ {First}  BY <1>1, <2>1, NextUnsaid
    <2> QED  BY <1>1, <2>2, Unsaid
  <1>4. CASE Requeue \/ Crash
    <2>1. stage' \in {"idle", "requeue"} /\ todo' \subseteq todo
      BY <1>4 DEF Requeue, Crash
    <2> QED  BY <1>1, <2>1, Unsaid DEF Said
  <1> QED  BY <1>2, <1>3, <1>4

(* A phase is left when none of its blocks waits.                            *)
LEMMA EndPhaseExamines == IInv /\ XInv /\ EndPhase => XInv'
  <1> SUFFICES ASSUME IInv, XInv, EndPhase PROVE XInv'  OBVIOUS
  <1>1. /\ stage = "idle" /\ phase \in Phases /\ phase' = NextPhase[phase] /\ Pending = {}
        /\ outcome = "running"
        /\ UNCHANGED <<done, never, issues, doubted, claims, todo, stage, outcome>>
    BY DEF EndPhase, Working, memory
  <1>2. todo = {}  BY <1>1 DEF IInv, Places, Writing
  <1>3. phase \in {"audited", "swept"} => done[phase] = Blocks
    BY <1>1 DEF Pending, Waiting, IInv, TypeOK
  <1>4. Emptied'
    BY <1>1, <1>3 DEF XInv, Emptied, NextPhase, Phases
  <1>5. Owed' /\ Opened' /\ Doubts' /\ Decided' /\ Success'
    BY <1>1, <1>2 DEF Owed, Opened, Doubts, Decided, Success
  <1>6. Claimed' /\ Marked'  BY <1>1 DEF XInv, Claimed, Marked, MarkMeans
  <1> QED  BY <1>4, <1>5, <1>6 DEF XInv

LEMMA EndExamines == IInv /\ XInv /\ (Exhausted \/ Finalize) => XInv'
  <1> SUFFICES ASSUME IInv, XInv, Exhausted \/ Finalize PROVE XInv'  OBVIOUS
  <1>1. stage = "idle" /\ UNCHANGED <<phase, done, never, issues, doubted, claims, todo, stage>>
    BY DEF Exhausted, Finalize, Working, durable, memory
  <1>2. Success'
    BY <1>1 DEF Exhausted, Finalize, Success, StillContradicted
  <1>3. Owed' /\ Opened' /\ Doubts' /\ Decided'
    BY <1>1 DEF XInv, Owed, Vouched, Opened, Doubts, Decided
  <1>4. Claimed' /\ Emptied' /\ Marked'
    BY <1>1 DEF XInv, Claimed, Emptied, Marked, MarkMeans
  <1> QED  BY <1>2, <1>3, <1>4 DEF XInv

LEMMA StepExamines == IInv /\ XInv /\ [Next]_vars => XInv'
  <1> SUFFICES ASSUME IInv, XInv, [Next]_vars PROVE XInv'  OBVIOUS
  <1>1. CASE UNCHANGED vars
    <2>1. UNCHANGED <<phase, done, never, issues, doubted, claims, todo, stage, outcome>>
      BY <1>1 DEF vars, durable, memory
    <2>2. First' = First  BY <2>1 DEF First
    <2>3. Owed' /\ Opened' /\ Doubts' /\ Decided'
      BY <2>1, <2>2 DEF XInv, Owed, Vouched, Opened, Doubts, Decided
    <2>4. Claimed' /\ Emptied' /\ Marked' /\ Success'
      BY <2>1, <2>2 DEF XInv, Claimed, Emptied, Marked, MarkMeans, Success
    <2> QED  BY <2>3, <2>4 DEF XInv
  <1> QED
    BY <1>1, DispatchExamines, OpenIssuesExamines, CoverageExamines, GiveUpExamines,
       ClaimsExamines, MarkExamines, OthersExamine, EndPhaseExamines, EndExamines
       DEF Next, Persist

(* Success means that every graded row was examined in an answer of the block's
   own whose findings are on record: attribute, coverage_gaps,
   self_contradicting, the marks and the conditions of _finalize together,
   whatever the models answer and wherever workers die.                      *)
THEOREM ExaminedBeforeSuccess == Spec => []SuccessIsExamined
  <1>1. IInv /\ XInv => SuccessIsExamined
    <2> SUFFICES ASSUME IInv, XInv, outcome = "succeeded" PROVE SuccessIsExamined
      BY DEF SuccessIsExamined
    <2>1. /\ phase = "over" /\ never = {} /\ doubted \subseteq Changed
          /\ Changed \subseteq done["final_semantic"]
      BY DEF XInv, Success
    <2>2. done["audited"] = Blocks /\ done["swept"] = Blocks
      BY <2>1 DEF XInv, Emptied
    <2>3. \A p \in Phases : \A b \in done[p] : Graded[b] # {} => issues[p][b].full
      BY <2>1 DEF XInv, Marked, MarkMeans
    <2>4. Blocks \subseteq claims  BY <2>2 DEF XInv, Claimed
    <2> QED  BY <2>1, <2>2, <2>3, <2>4 DEF SuccessIsExamined, Phases
  <1> QED  BY InitIInv, StepKeeps, InitXInv, StepExamines, <1>1, PTL DEF Spec
=============================================================================
