-------------------------- MODULE ModelCallProofs --------------------------
(***************************************************************************)
(* What a job's model calls cost, for any number of workers, settings and  *)
(* bounds: CallsArePaid and OneCallOvershoots of ModelCall.  Then what one *)
(* call leaves behind, for any process, request, pipe and cap: CliProcess. *)
(***************************************************************************)
EXTENDS ModelCall, CliProcess, FiniteSetTheorems, TLAPS

InCall(w) == Charged(w) \/ Physical(w)
ChargedSet == {w \in Workers : Charged(w)}
PhysicalSet == {w \in Workers : Physical(w)}
CallSet == {w \in Workers : InCall(w)}
StaleSet == {w \in Workers : InCall(w) /\ ~current[w]}

(* The lease has one owner, a worker runs some deployment, and no call is made
   before the pins.                                                         *)
Ownership ==
    /\ \A v, w \in Workers : current[v] /\ current[w] => v = w
    /\ \A w \in Workers : pc[w] # "down" => built[w] \in Deployments
    /\ \A w \in Workers : pc[w] \notin {"down", "ready"} => pins # NoPins
    /\ pins = NoPins => charged = 0 /\ tokens = 0

(* What is started was charged, and what is charged was allowed.            *)
Paid == started + Cardinality(ChargedSet) <= charged
Allowed ==
    /\ pins # NoPins => charged <= pins.calls
    /\ \A w \in Workers : pc[w] = "charge" /\ current[w] => charged + 1 <= pins.calls
Accounted == rows + lost + Cardinality(PhysicalSet) = started

(* Tokens on record and those still to come.                                *)
Coming == tokens + MaxTokens * Cardinality(CallSet)
Bounded ==
    /\ Cardinality(StaleSet) <= overlaps
    /\ pins # NoPins => Coming < pins.tokens + MaxTokens * (1 + overlaps)
    /\ \A w \in Workers : pc[w] = "charge" /\ current[w] =>
           Coming < pins.tokens + MaxTokens * overlaps

IInv == TypeOK /\ Ownership /\ Paid /\ Allowed /\ Accounted /\ Bounded

-----------------------------------------------------------------------------
LEMMA PinsAreReal == NoPins \notin Deployments
  BY CallAssumption DEF NoPins, CallAssumption

LEMMA Sets ==
  /\ IsFiniteSet(ChargedSet) /\ Cardinality(ChargedSet) \in Nat
  /\ IsFiniteSet(PhysicalSet) /\ Cardinality(PhysicalSet) \in Nat
  /\ IsFiniteSet(CallSet) /\ Cardinality(CallSet) \in Nat
  /\ IsFiniteSet(StaleSet) /\ Cardinality(StaleSet) \in Nat
  <1>1. /\ ChargedSet \subseteq Workers /\ PhysicalSet \subseteq Workers
        /\ CallSet \subseteq Workers /\ StaleSet \subseteq Workers
    BY DEF ChargedSet, PhysicalSet, CallSet, StaleSet
  <1>2. IsFiniteSet(Workers)  BY CallAssumption DEF CallAssumption
  <1> QED  BY <1>1, <1>2, FS_Subset, FS_CardinalityType

LEMMA Removed ==
  ASSUME NEW S, IsFiniteSet(S), NEW x \in S
  PROVE  Cardinality(S) = Cardinality(S \ {x}) + 1
  <1>1. Cardinality(S \ {x}) = Cardinality(S) - 1  BY FS_RemoveElement
  <1>2. Cardinality(S) \in Nat  BY FS_CardinalityType
  <1> QED  BY <1>1, <1>2

(* Products grow with their factor.                                         *)
LEMMA Product ==
  ASSUME NEW M \in Nat, NEW a \in Nat, NEW b \in Nat
  PROVE  /\ M * a \in Nat /\ M * (a + 1) = M * a + M
         /\ a <= b => M * a <= M * b
  OBVIOUS

(* A job starts with nothing charged and no call made (llm/base.py).         *)
THEOREM InitIInv == Init => IInv
  <1> SUFFICES ASSUME Init PROVE IInv  OBVIOUS
  <1>1. ChargedSet = {} /\ PhysicalSet = {} /\ CallSet = {} /\ StaleSet = {}
    BY DEF Init, ChargedSet, PhysicalSet, CallSet, StaleSet, InCall, Charged, Physical
  <1>2. Cardinality(ChargedSet) = 0 /\ Cardinality(PhysicalSet) = 0
        /\ Cardinality(CallSet) = 0 /\ Cardinality(StaleSet) = 0
    BY <1>1, FS_EmptySet
  <1>3. TypeOK  BY CallAssumption DEF CallAssumption, Init, TypeOK, Places, Outcomes, Terminal
  <1> QED  BY <1>2, <1>3 DEF Init, IInv, Ownership, Paid, Allowed, Accounted, Bounded

-----------------------------------------------------------------------------
(* Steps that take no call in or out and leave the counts alone.            *)
Quiet(w) ==
    \/ Migrate(w) \/ BeginCall(w) \/ StopWorker(w) \/ Finish(w)
    \/ BudgetExhausted(w) \/ (\E r \in Outcomes \ {"none"} : ProcessEnds(w, r))
    \/ Retry(w) \/ AskAgain(w) \/ Use(w) \/ GiveUp(w) \/ ProviderFailed(w) \/ Misconfigured(w)

LEMMA StepKinds ==
  ASSUME Next
  PROVE  \/ \E w \in Workers : \/ Quiet(w) \/ Pin(w) \/ CheckBudget(w) \/ Charge(w)
                               \/ StartProcess(w) \/ (\E n \in 0..MaxTokens : Record(w, n))
                               \/ Crash(w) \/ (\E d \in Deployments : Start(w, d))
         \/ Resume
  BY DEF Next, Step, Begins, Pays, Calls, Decides, Quiet

LEMMA QuietFrame ==
  ASSUME TypeOK, NEW w \in Workers, Quiet(w)
  PROVE  /\ UNCHANGED <<charged, rows, tokens, started, lost, overlaps, pins, built, current>>
         /\ UNCHANGED <<ChargedSet, PhysicalSet, CallSet, StaleSet>>
         /\ \A v \in Workers : pc'[v] = "charge" => pc[v] = "charge"
         /\ \A v \in Workers : pc'[v] # "down" => pc[v] # "down"
         /\ \A v \in Workers : pc'[v] \notin {"down", "ready"} =>
                pc[v] \notin {"down", "ready"} \/ pins # NoPins
  <1>1. /\ UNCHANGED <<charged, rows, tokens, started, lost, overlaps, pins, built, current>>
        /\ \E place \in Places : pc' = [pc EXCEPT ![w] = place]
    BY DEF Quiet, Migrate, BeginCall, StopWorker, Finish, BudgetExhausted, ProcessEnds, Retry,
           AskAgain, Use, GiveUp, ProviderFailed, Misconfigured, FailJob, Goto, Stay, Places,
           job, worker, history, Call
  <1>2. /\ Charged(w)' = Charged(w) /\ Physical(w)' = Physical(w)
        /\ pc'[w] # "charge" /\ (pc'[w] # "down" => pc[w] # "down")
        /\ pc'[w] \notin {"down", "ready"} => pc[w] \notin {"down", "ready"} \/ pins # NoPins
    BY DEF TypeOK, Quiet, Migrate, BeginCall, StopWorker, Finish, BudgetExhausted, ProcessEnds,
           Retry, AskAgain, Use, GiveUp, ProviderFailed, Misconfigured, FailJob, Goto,
           Charged, Physical
  <1>3. \A v \in Workers : v # w => pc'[v] = pc[v]
    BY <1>1 DEF TypeOK
  <1>4. \A v \in Workers : Charged(v)' = Charged(v) /\ Physical(v)' = Physical(v)
    BY <1>2, <1>3 DEF Charged, Physical
  <1>5. UNCHANGED <<ChargedSet, PhysicalSet, CallSet, StaleSet>>
    BY <1>1, <1>4 DEF ChargedSet, PhysicalSet, CallSet, StaleSet, InCall
  <1> QED  BY <1>1, <1>2, <1>3, <1>5

-----------------------------------------------------------------------------
(* The type of every variable.                                              *)
LEMMA TypeKept ==
  ASSUME IInv, [Next]_vars PROVE TypeOK'
  <1> USE CallAssumption DEF CallAssumption, IInv
  <1>0. CASE UNCHANGED vars
    BY <1>0 DEF TypeOK, vars, job, worker, history
  <1>1. CASE Resume
    BY <1>1 DEF TypeOK, Resume, worker
  <1>2. ASSUME NEW w \in Workers, Begins(w) PROVE TypeOK'
    BY <1>2 DEF Ownership, TypeOK, Begins, Migrate, Pin, BeginCall, StopWorker, Finish, FailJob, Goto, Stay,
           Places, Terminal, Call, worker, history, job
  <1>3. ASSUME NEW w \in Workers, Pays(w) PROVE TypeOK'
    BY <1>3 DEF TypeOK, Pays, CheckBudget, BudgetExhausted, Charge, FailJob, Goto, Stay,
           Places, Terminal, Call, worker, history, job
  <1>4. ASSUME NEW w \in Workers, Calls(w) PROVE TypeOK'
    BY <1>4 DEF Ownership, TypeOK, Calls, ToldModel, StartProcess, ProcessEnds, Record, Goto, Stay, Places, Call,
           worker, history, job, Deployment
  <1>5. ASSUME NEW w \in Workers, Decides(w) PROVE TypeOK'
    BY <1>5 DEF TypeOK, Decides, Retry, AskAgain, Use, GiveUp, ProviderFailed, Misconfigured,
           FailJob, Goto, Stay, Places, Terminal, Call, worker, history, job
  <1>6. ASSUME NEW w \in Workers, Crash(w) PROVE TypeOK'
    BY <1>6 DEF TypeOK, Crash, Goto, Stay, Places, Call, job
  <1>7. ASSUME NEW w \in Workers, NEW d \in Deployments, Start(w, d) PROVE TypeOK'
    <2>1. Cardinality({v \in Workers : current[v] /\ (Charged(v) \/ Physical(v))}) \in Nat
      <3>1. {v \in Workers : current[v] /\ (Charged(v) \/ Physical(v))} \subseteq Workers
        OBVIOUS
      <3> QED  BY <3>1, FS_Subset, FS_CardinalityType
    <2> QED  BY <1>7, <2>1 DEF TypeOK, Start, Goto, Places, Call, job
  <1> QED
    BY <1>0, <1>1, <1>2, <1>3, <1>4, <1>5, <1>6, <1>7 DEF Next, Step

LEMMA OwnershipKept ==
  ASSUME IInv, Next PROVE Ownership'
  <1> USE CallAssumption DEF CallAssumption, IInv
  <1>1. CASE Resume  BY <1>1 DEF Ownership, Resume, worker
  <1>2. ASSUME NEW w \in Workers, Quiet(w) PROVE Ownership'
    BY <1>2, QuietFrame DEF Ownership
  <1>3. ASSUME NEW w \in Workers, Pin(w) PROVE Ownership'
    BY <1>3, PinsAreReal DEF Ownership, Pin, worker, TypeOK
  <1>4. ASSUME NEW w \in Workers, CheckBudget(w) \/ Charge(w) PROVE Ownership'
    BY <1>4 DEF Ownership, CheckBudget, Charge, Goto, Stay, job, Call, TypeOK
  <1>5. ASSUME NEW w \in Workers, NEW n \in 0..MaxTokens, StartProcess(w) \/ Record(w, n)
        PROVE Ownership'
    BY <1>5 DEF Ownership, StartProcess, Record, Goto, Stay, job, TypeOK
  <1>6. ASSUME NEW w \in Workers, Crash(w) PROVE Ownership'
    BY <1>6 DEF Ownership, Crash, Goto, Stay, job, TypeOK
  <1>7. ASSUME NEW w \in Workers, NEW d \in Deployments, Start(w, d) PROVE Ownership'
    BY <1>7 DEF Ownership, Start, Goto, job, TypeOK
  <1>8. 0 \in 0..MaxTokens  OBVIOUS
  <1> QED  BY StepKinds, <1>1, <1>2, <1>3, <1>4, <1>5, <1>6, <1>7, <1>8

-----------------------------------------------------------------------------
(* How the sets of calls change.                                            *)
LEMMA ChargeFrame ==
  ASSUME TypeOK, NEW w \in Workers, Charge(w), current[w]
  PROVE  /\ Cardinality(ChargedSet') = Cardinality(ChargedSet) + 1
         /\ PhysicalSet' = PhysicalSet /\ StaleSet' = StaleSet
         /\ Cardinality(CallSet') = Cardinality(CallSet) + 1
  <1>1. /\ w \notin ChargedSet /\ ChargedSet' = ChargedSet \cup {w}
        /\ w \notin CallSet /\ CallSet' = CallSet \cup {w}
        /\ PhysicalSet' = PhysicalSet /\ StaleSet' = StaleSet
    BY DEF TypeOK, Charge, Goto, Stay, ChargedSet, CallSet, PhysicalSet, StaleSet, InCall,
           Charged, Physical
  <1> QED  BY <1>1, Sets, FS_AddElement

LEMMA StartFrame ==
  ASSUME TypeOK, NEW w \in Workers, StartProcess(w)
  PROVE  /\ Cardinality(ChargedSet) = Cardinality(ChargedSet') + 1
         /\ Cardinality(PhysicalSet') = Cardinality(PhysicalSet) + 1
         /\ CallSet' = CallSet /\ StaleSet' = StaleSet
  <1>1. /\ w \in ChargedSet /\ ChargedSet' = ChargedSet \ {w}
        /\ w \notin PhysicalSet /\ PhysicalSet' = PhysicalSet \cup {w}
        /\ CallSet' = CallSet /\ StaleSet' = StaleSet
    BY DEF TypeOK, StartProcess, Goto, Stay, ChargedSet, CallSet, PhysicalSet, StaleSet, InCall,
           Charged, Physical
  <1> QED  BY <1>1, Sets, FS_AddElement, Removed

(* A call leaves: it is recorded, or its worker dies.                       *)
LEMMA LeaveFrame ==
  ASSUME TypeOK, NEW w \in Workers, pc[w] \in {"start", "running", "ended"},
         NEW place \in {"down", "decide"}, Goto(w, place), Stay
  PROVE  /\ Cardinality(CallSet) = Cardinality(CallSet') + 1
         /\ Cardinality(StaleSet') <= Cardinality(StaleSet)
         /\ pc[w] = "start" => /\ Cardinality(ChargedSet) = Cardinality(ChargedSet') + 1
                               /\ PhysicalSet' = PhysicalSet
         /\ pc[w] # "start" => /\ Cardinality(PhysicalSet) = Cardinality(PhysicalSet') + 1
                               /\ ChargedSet' = ChargedSet
  <1>1. /\ w \in CallSet /\ CallSet' = CallSet \ {w}
        /\ StaleSet' \subseteq StaleSet
        /\ pc[w] = "start" => /\ w \in ChargedSet /\ ChargedSet' = ChargedSet \ {w}
                              /\ PhysicalSet' = PhysicalSet
        /\ pc[w] # "start" => /\ w \in PhysicalSet /\ PhysicalSet' = PhysicalSet \ {w}
                              /\ ChargedSet' = ChargedSet
    BY DEF TypeOK, Goto, Stay, ChargedSet, CallSet, PhysicalSet, StaleSet, InCall, Charged, Physical
  <1>2. Cardinality(StaleSet') <= Cardinality(StaleSet)  BY <1>1, Sets, FS_Subset
  <1> QED  BY <1>1, <1>2, Sets, Removed

LEMMA TakeoverFrame ==
  ASSUME TypeOK, NEW w \in Workers, NEW d \in Deployments, Start(w, d)
  PROVE  /\ ChargedSet' = ChargedSet /\ PhysicalSet' = PhysicalSet /\ CallSet' = CallSet
         /\ Cardinality(StaleSet') <= Cardinality(StaleSet) + (overlaps' - overlaps)
         /\ overlaps' \in Nat /\ overlaps <= overlaps'
  <1> DEFINE Owned == {v \in Workers : current[v] /\ (Charged(v) \/ Physical(v))}
  <1>1. /\ ChargedSet' = ChargedSet /\ PhysicalSet' = PhysicalSet /\ CallSet' = CallSet
        /\ StaleSet' \subseteq StaleSet \cup Owned
    BY DEF TypeOK, Start, Goto, ChargedSet, CallSet, PhysicalSet, StaleSet, InCall, Charged, Physical
  <1>2. IsFiniteSet(Owned) /\ Cardinality(Owned) \in Nat
    <2>1. Owned \subseteq Workers  OBVIOUS
    <2> QED  BY <2>1, CallAssumption, FS_Subset, FS_CardinalityType DEF CallAssumption
  <1>3. /\ IsFiniteSet(StaleSet \cup Owned)
        /\ Cardinality(StaleSet \cup Owned) <= Cardinality(StaleSet) + Cardinality(Owned)
    <2>1. /\ IsFiniteSet(StaleSet \cup Owned) /\ IsFiniteSet(StaleSet \cap Owned)
          /\ Cardinality(StaleSet \cup Owned) =
                 Cardinality(StaleSet) + Cardinality(Owned) - Cardinality(StaleSet \cap Owned)
      BY <1>2, Sets, FS_Union, FS_Intersection
    <2>2. Cardinality(StaleSet \cap Owned) \in Nat  BY <2>1, FS_CardinalityType
    <2> QED  BY <2>1, <2>2, <1>2, Sets
  <1>4. overlaps' = overlaps + Cardinality(Owned)  BY DEF Start
  <1>5. Cardinality(StaleSet') <= Cardinality(StaleSet \cup Owned)
        /\ Cardinality(StaleSet') \in Nat
    BY <1>1, <1>3, FS_Subset, FS_CardinalityType
  <1> QED
    BY <1>1, <1>2, <1>3, <1>4, <1>5, Sets, FS_CardinalityType DEF TypeOK

-----------------------------------------------------------------------------
LEMMA CountsKept ==
  ASSUME IInv, Next PROVE Paid' /\ Allowed' /\ Accounted'
  <1> USE CallAssumption, Sets DEF CallAssumption, IInv
  <1>1. CASE Resume
    <2>1. ChargedSet' = ChargedSet /\ PhysicalSet' = PhysicalSet
      BY <1>1 DEF Resume, worker, ChargedSet, PhysicalSet, Charged, Physical
    <2> QED  BY <1>1, <2>1 DEF Resume, worker, Paid, Allowed, Accounted
  <1>2. ASSUME NEW w \in Workers, Quiet(w) PROVE Paid' /\ Allowed' /\ Accounted'
    BY <1>2, QuietFrame DEF Paid, Allowed, Accounted
  <1>3. ASSUME NEW w \in Workers, Pin(w) PROVE Paid' /\ Allowed' /\ Accounted'
    <2>1. ChargedSet' = ChargedSet /\ PhysicalSet' = PhysicalSet
      BY <1>3 DEF Pin, worker, ChargedSet, PhysicalSet, Charged, Physical
    <2>2. \A v \in Workers : pc[v] # "charge"
      BY <1>3 DEF Pin, Ownership
    <2>3. charged = 0 /\ (pins' # NoPins => pins'.calls \in Nat)
      BY <1>3 DEF Pin, Ownership, TypeOK
    <2> QED  BY <1>3, <2>1, <2>2, <2>3 DEF Pin, worker, history, Paid, Allowed, Accounted
  <1>4. ASSUME NEW w \in Workers, CheckBudget(w) PROVE Paid' /\ Allowed' /\ Accounted'
    <2>1. ChargedSet' = ChargedSet /\ PhysicalSet' = PhysicalSet
      BY <1>4 DEF CheckBudget, Goto, ChargedSet, PhysicalSet, Charged, Physical, TypeOK
    <2> QED
      BY <1>4, <2>1 DEF CheckBudget, WithinBudgets, CallsLeft, Settings, Ownership, Goto, Stay, job, history, Paid, Allowed,
                        Accounted, TypeOK
  <1>5. ASSUME NEW w \in Workers, Charge(w) PROVE Paid' /\ Allowed' /\ Accounted'
    <2>1. CASE current[w]
      <3>1. charged' = charged + 1 /\ pins' = pins /\ current' = current
            /\ UNCHANGED <<started, rows, lost>>
        BY <1>5, <2>1 DEF Charge, Stay, history
      <3>2. \A v \in Workers : ~(pc'[v] = "charge" /\ current'[v])
        BY <1>5, <2>1 DEF Charge, Goto, Stay, Ownership, TypeOK
      <3>3. charged + 1 <= pins.calls  BY <1>5, <2>1 DEF Charge, Allowed
      <3> QED
        BY <1>5, <2>1, <3>1, <3>2, <3>3, ChargeFrame DEF Paid, Allowed, Accounted, TypeOK
    <2>2. CASE ~current[w]
      <3>1. ChargedSet' = ChargedSet /\ PhysicalSet' = PhysicalSet
        BY <1>5, <2>2 DEF Charge, Goto, ChargedSet, PhysicalSet, Charged, Physical, TypeOK
      <3> QED
        BY <1>5, <2>2, <3>1 DEF Charge, Goto, Stay, history, Paid, Allowed, Accounted, TypeOK
    <2> QED  BY <2>1, <2>2
  <1>6. ASSUME NEW w \in Workers, StartProcess(w) PROVE Paid' /\ Allowed' /\ Accounted'
    <2>1. Cardinality(ChargedSet') \in Nat
      BY <1>6, FS_Subset, FS_CardinalityType DEF ChargedSet
    <2>2. started' = started + 1 /\ UNCHANGED <<pins, charged, rows, lost, current>>
      BY <1>6 DEF StartProcess, Stay, job
    <2>3. \A v \in Workers : pc'[v] = "charge" => pc[v] = "charge"
      BY <1>6 DEF StartProcess, Goto, TypeOK
    <2>4. /\ Cardinality(ChargedSet) = Cardinality(ChargedSet') + 1
          /\ Cardinality(PhysicalSet') = Cardinality(PhysicalSet) + 1
      BY <1>6, StartFrame
    <2>5. Paid' /\ Accounted'
      BY <2>1, <2>2, <2>4 DEF Paid, Accounted, TypeOK
    <2>6. Allowed'  BY <2>2, <2>3 DEF Allowed
    <2> QED  BY <2>5, <2>6
  <1>7. ASSUME NEW w \in Workers, NEW n \in 0..MaxTokens, Record(w, n)
        PROVE Paid' /\ Allowed' /\ Accounted'
    <2>1. /\ Cardinality(PhysicalSet) = Cardinality(PhysicalSet') + 1
          /\ ChargedSet' = ChargedSet
      BY <1>7, LeaveFrame DEF Record
    <2>2. Cardinality(PhysicalSet') \in Nat
      BY FS_Subset, FS_CardinalityType DEF PhysicalSet
    <2> QED
      BY <1>7, <2>1, <2>2 DEF Record, Goto, Stay, history, Paid, Allowed, Accounted, TypeOK
  <1>8. ASSUME NEW w \in Workers, Crash(w) PROVE Paid' /\ Allowed' /\ Accounted'
    <2>0. Cardinality(PhysicalSet') \in Nat /\ Cardinality(ChargedSet') \in Nat
      BY FS_Subset, FS_CardinalityType DEF PhysicalSet, ChargedSet
    <2>1. CASE pc[w] \in {"start", "running", "ended"}
      <3>1. /\ pc[w] = "start" => /\ Cardinality(ChargedSet) = Cardinality(ChargedSet') + 1
                                  /\ PhysicalSet' = PhysicalSet
            /\ pc[w] # "start" => /\ Cardinality(PhysicalSet) = Cardinality(PhysicalSet') + 1
                                  /\ ChargedSet' = ChargedSet
        BY <1>8, <2>1, LeaveFrame DEF Crash
      <3> QED
        BY <1>8, <2>0, <2>1, <3>1
        DEF Crash, Goto, Stay, job, Physical, Paid, Allowed, Accounted, TypeOK
    <2>2. CASE pc[w] \notin {"start", "running", "ended"}
      <3>1. ChargedSet' = ChargedSet /\ PhysicalSet' = PhysicalSet
        BY <1>8, <2>2 DEF Crash, Goto, ChargedSet, PhysicalSet, Charged, Physical, TypeOK
      <3> QED
        BY <1>8, <2>2, <3>1
        DEF Crash, Goto, Stay, job, Physical, Paid, Allowed, Accounted, TypeOK
    <2> QED  BY <2>1, <2>2
  <1>9. ASSUME NEW w \in Workers, NEW d \in Deployments, Start(w, d)
        PROVE Paid' /\ Allowed' /\ Accounted'
    <2>1. \A v \in Workers : ~(pc'[v] = "charge" /\ current'[v])
      BY <1>9 DEF Start, Goto, TypeOK
    <2> QED
      BY <1>9, <2>1, TakeoverFrame DEF Start, job, Paid, Allowed, Accounted
  <1> QED  BY StepKinds, <1>1, <1>2, <1>3, <1>4, <1>5, <1>6, <1>7, <1>8, <1>9

LEMMA BoundedKept ==
  ASSUME IInv, Next PROVE Bounded'
  <1> USE CallAssumption, Sets DEF CallAssumption, IInv
  <1>0. /\ MaxTokens \in Nat /\ overlaps \in Nat /\ tokens \in Nat
        /\ pins # NoPins => pins.tokens \in Nat
        /\ MaxTokens * Cardinality(CallSet) \in Nat
        /\ MaxTokens * overlaps \in Nat
        /\ MaxTokens * (1 + overlaps) = MaxTokens * overlaps + MaxTokens
    BY Product DEF TypeOK
  <1>1. CASE Resume
    <2>1. CallSet' = CallSet /\ StaleSet' = StaleSet
      BY <1>1 DEF Resume, worker, CallSet, StaleSet, InCall, Charged, Physical
    <2> QED  BY <1>1, <2>1 DEF Resume, worker, Bounded, Coming
  <1>2. ASSUME NEW w \in Workers, Quiet(w) PROVE Bounded'
    BY <1>2, QuietFrame DEF Bounded, Coming
  <1>3. ASSUME NEW w \in Workers, Pin(w) PROVE Bounded'
    <2>1. CallSet' = CallSet /\ StaleSet' = StaleSet
      BY <1>3 DEF Pin, worker, CallSet, StaleSet, InCall, Charged, Physical
    <2>2. CallSet = {}
      BY <1>3 DEF Pin, Ownership, CallSet, InCall, Charged, Physical
    <2>3. Cardinality(CallSet) = 0  BY <2>2, FS_EmptySet
    <2>4. tokens = 0 /\ pins'.tokens \in Nat \ {0}
      BY <1>3 DEF Pin, Ownership, TypeOK
    <2>5. \A v \in Workers : pc[v] # "charge"
      BY <1>3 DEF Pin, Ownership
    <2>6. MaxTokens * 0 = 0 /\ MaxTokens * (1 + overlaps) \in Nat  BY <1>0
    <2> QED
      BY <1>0, <1>3, <2>1, <2>3, <2>4, <2>5, <2>6 DEF Pin, worker, history, Bounded, Coming
  <1>4. ASSUME NEW w \in Workers, CheckBudget(w) PROVE Bounded'
    <2>1. CallSet' = CallSet /\ StaleSet' = StaleSet
      BY <1>4 DEF CheckBudget, Goto, Stay, CallSet, StaleSet, InCall, Charged, Physical, TypeOK
    <2>2. ASSUME current[w] PROVE Coming < pins.tokens + MaxTokens * overlaps
      <3>1. CallSet = StaleSet
        BY <1>4, <2>2 DEF CheckBudget, CallSet, StaleSet, InCall, Charged, Physical, Ownership
      <3>2. MaxTokens * Cardinality(CallSet) <= MaxTokens * overlaps
        BY <3>1, Product DEF Bounded, TypeOK
      <3>3. tokens < pins.tokens /\ pins # NoPins
        BY <1>4 DEF CheckBudget, WithinBudgets, TokensLeft, Settings, Ownership
      <3> QED  BY <1>0, <3>2, <3>3 DEF Coming
    <2>3. \A v \in Workers : pc'[v] = "charge" /\ current'[v] =>
              (v = w /\ current[w]) \/ (pc[v] = "charge" /\ current[v])
      BY <1>4 DEF CheckBudget, Goto, Stay, TypeOK
    <2> QED
      BY <1>4, <2>1, <2>2, <2>3 DEF CheckBudget, Stay, job, history, Bounded, Coming
  <1>5. ASSUME NEW w \in Workers, Charge(w) PROVE Bounded'
    <2>1. CASE current[w]
      <3>1. /\ tokens' = tokens /\ pins' = pins /\ overlaps' = overlaps
            /\ Coming < pins.tokens + MaxTokens * overlaps
        BY <1>5, <2>1 DEF Charge, history, Bounded
      <3>2. \A v \in Workers : ~(pc'[v] = "charge" /\ current'[v])
        BY <1>5, <2>1 DEF Charge, Goto, Stay, Ownership, TypeOK
      <3>3. /\ Cardinality(CallSet') = Cardinality(CallSet) + 1 /\ StaleSet' = StaleSet
        BY <1>5, <2>1, ChargeFrame
      <3>4. MaxTokens * Cardinality(CallSet') = MaxTokens * Cardinality(CallSet) + MaxTokens
        BY <3>3, Product
      <3>5. pins # NoPins  BY <1>5 DEF Charge, Ownership
      <3> QED  BY <1>0, <3>1, <3>2, <3>3, <3>4, <3>5 DEF Bounded, Coming
    <2>2. CASE ~current[w]
      <3>1. CallSet' = CallSet /\ StaleSet' = StaleSet
        BY <1>5, <2>2 DEF Charge, Goto, Stay, CallSet, StaleSet, InCall, Charged, Physical, TypeOK
      <3> QED
        BY <1>5, <2>2, <3>1 DEF Charge, Goto, Stay, history, Bounded, Coming, TypeOK
    <2> QED  BY <2>1, <2>2
  <1>6. ASSUME NEW w \in Workers, StartProcess(w) PROVE Bounded'
    <2>1. CallSet' = CallSet /\ StaleSet' = StaleSet  BY <1>6, StartFrame
    <2> QED
      BY <1>6, <2>1 DEF StartProcess, Goto, Stay, job, Bounded, Coming, TypeOK
  <1>7. ASSUME NEW w \in Workers, NEW n \in 0..MaxTokens, Record(w, n) PROVE Bounded'
    <2>1. /\ Cardinality(CallSet) = Cardinality(CallSet') + 1
          /\ Cardinality(StaleSet') <= Cardinality(StaleSet)
      BY <1>7, LeaveFrame DEF Record
    <2>2. Cardinality(CallSet') \in Nat /\ Cardinality(StaleSet') \in Nat
      BY FS_Subset, FS_CardinalityType DEF CallSet, StaleSet
    <2>3. MaxTokens * Cardinality(CallSet) = MaxTokens * Cardinality(CallSet') + MaxTokens
          /\ MaxTokens * Cardinality(CallSet') \in Nat
      BY <2>1, <2>2, Product
    <2>4. tokens' = tokens + n /\ UNCHANGED <<pins, overlaps, current>>
      BY <1>7 DEF Record, Stay, history
    <2>5. Coming' <= Coming /\ Coming' \in Nat /\ Coming \in Nat
      BY <1>0, <2>3, <2>4 DEF Coming
    <2>6. \A v \in Workers : pc'[v] = "charge" => pc[v] = "charge"
      BY <1>7 DEF Record, Goto, TypeOK
    <2>7. Cardinality(StaleSet') <= overlaps'
      BY <1>0, <2>1, <2>2, <2>4 DEF Bounded
    <2>8. pins' # NoPins => Coming' < pins'.tokens + MaxTokens * (1 + overlaps')
      BY <1>0, <2>4, <2>5 DEF Bounded
    <2>9. ASSUME NEW v \in Workers, pc'[v] = "charge", current'[v]
          PROVE  Coming' < pins'.tokens + MaxTokens * overlaps'
      <3>1. Coming < pins.tokens + MaxTokens * overlaps /\ pins # NoPins
        BY <2>4, <2>6, <2>9 DEF Bounded, Ownership
      <3> QED  BY <1>0, <2>4, <2>5, <3>1
    <2> QED  BY <2>7, <2>8, <2>9 DEF Bounded
  <1>8. ASSUME NEW w \in Workers, Crash(w) PROVE Bounded'
    <2>0. UNCHANGED <<tokens, pins, overlaps, current>>
      BY <1>8 DEF Crash, Stay, job
    <2>1. Cardinality(CallSet') \in Nat /\ Cardinality(StaleSet') \in Nat
      BY FS_Subset, FS_CardinalityType DEF CallSet, StaleSet
    <2>2. /\ Cardinality(CallSet') <= Cardinality(CallSet)
          /\ Cardinality(StaleSet') <= Cardinality(StaleSet)
      <3>1. CASE pc[w] \in {"start", "running", "ended"}
        BY <1>8, <3>1, <2>1, LeaveFrame DEF Crash
      <3>2. CASE pc[w] \notin {"start", "running", "ended"}
        <4>1. CallSet' = CallSet /\ StaleSet' = StaleSet
          BY <1>8, <3>2 DEF Crash, Goto, Stay, CallSet, StaleSet, InCall, Charged, Physical, TypeOK
        <4> QED  BY <4>1
      <3> QED  BY <3>1, <3>2
    <2>3. MaxTokens * Cardinality(CallSet') <= MaxTokens * Cardinality(CallSet)
          /\ MaxTokens * Cardinality(CallSet') \in Nat
      BY <2>1, <2>2, Product
    <2>4. Coming' <= Coming /\ Coming' \in Nat /\ Coming \in Nat
      BY <1>0, <2>0, <2>3 DEF Coming
    <2>5. \A v \in Workers : pc'[v] = "charge" => pc[v] = "charge"
      BY <1>8 DEF Crash, Goto, TypeOK
    <2>6. Cardinality(StaleSet') <= overlaps'
      BY <1>0, <2>0, <2>1, <2>2 DEF Bounded
    <2>7. pins' # NoPins => Coming' < pins'.tokens + MaxTokens * (1 + overlaps')
      BY <1>0, <2>0, <2>4 DEF Bounded
    <2>8. ASSUME NEW v \in Workers, pc'[v] = "charge", current'[v]
          PROVE  Coming' < pins'.tokens + MaxTokens * overlaps'
      <3>1. Coming < pins.tokens + MaxTokens * overlaps /\ pins # NoPins
        BY <2>0, <2>5, <2>8 DEF Bounded, Ownership
      <3> QED  BY <1>0, <2>0, <2>4, <3>1
    <2> QED  BY <2>6, <2>7, <2>8 DEF Bounded
  <1>9. ASSUME NEW w \in Workers, NEW d \in Deployments, Start(w, d) PROVE Bounded'
    <2>1. \A v \in Workers : ~(pc'[v] = "charge" /\ current'[v])
      BY <1>9 DEF Start, Goto, TypeOK
    <2>2. tokens' = tokens /\ pins' = pins  BY <1>9 DEF Start, job
    <2>3. /\ CallSet' = CallSet /\ overlaps' \in Nat /\ overlaps <= overlaps'
          /\ Cardinality(StaleSet') <= Cardinality(StaleSet) + (overlaps' - overlaps)
      BY <1>9, TakeoverFrame
    <2>4. Cardinality(StaleSet') \in Nat
      BY FS_Subset, FS_CardinalityType DEF StaleSet
    <2>5. MaxTokens * overlaps <= MaxTokens * overlaps' /\ MaxTokens * overlaps' \in Nat
          /\ MaxTokens * (1 + overlaps') = MaxTokens * overlaps' + MaxTokens
      <3>1. MaxTokens * overlaps <= MaxTokens * overlaps'
        BY <1>0, <2>3, Product
      <3>2. MaxTokens * overlaps' \in Nat
            /\ MaxTokens * (overlaps' + 1) = MaxTokens * overlaps' + MaxTokens
        BY <1>0, <2>3, Product
      <3>3. 1 + overlaps' = overlaps' + 1  BY <2>3
      <3> QED  BY <3>1, <3>2, <3>3
    <2>6. Cardinality(StaleSet') <= overlaps'  BY <1>0, <2>3, <2>4 DEF Bounded
    <2>7. pins # NoPins => Coming' < pins.tokens + MaxTokens * (1 + overlaps')
      BY <1>0, <2>2, <2>3, <2>5 DEF Bounded, Coming
    <2> QED  BY <2>1, <2>2, <2>6, <2>7 DEF Bounded
  <1> QED  BY StepKinds, <1>1, <1>2, <1>3, <1>4, <1>5, <1>6, <1>7, <1>8, <1>9

-----------------------------------------------------------------------------
LEMMA StutterIInv ==
  ASSUME IInv, UNCHANGED vars PROVE IInv'
  <1>1. /\ ChargedSet' = ChargedSet /\ PhysicalSet' = PhysicalSet
        /\ CallSet' = CallSet /\ StaleSet' = StaleSet
    BY DEF vars, worker, ChargedSet, PhysicalSet, CallSet, StaleSet, InCall, Charged, Physical
  <1> QED
    BY <1>1, TypeKept DEF IInv, vars, job, worker, history, Ownership, Paid, Allowed, Accounted,
                          Bounded, Coming

(* The inductive invariant behind both results.                             *)
THEOREM Invariance == Spec => []IInv
  <1>1. IInv /\ [Next]_vars => IInv'
    <2> SUFFICES ASSUME IInv, [Next]_vars PROVE IInv'  OBVIOUS
    <2>1. CASE UNCHANGED vars  BY <2>1, StutterIInv
    <2>2. CASE Next
      BY <2>2, TypeKept, OwnershipKept, CountsKept, BoundedKept DEF IInv
    <2> QED  BY <2>1, <2>2
  <1> QED  BY InitIInv, <1>1, PTL DEF Spec

(* The calls of a job, its counters and its place keep their types.         *)
THEOREM TypeCorrect == Spec => []TypeOK
  <1>1. IInv => TypeOK  BY DEF IInv
  <1> QED  BY Invariance, <1>1, PTL

(* audit.py: every call was charged within the allowance, and has its row.  *)
THEOREM CallsPaid == Spec => []CallsArePaid
  <1>1. IInv => CallsArePaid
    BY Sets DEF IInv, Paid, Allowed, Accounted, CallsArePaid, TypeOK, PhysicalSet
  <1> QED  BY Invariance, <1>1, PTL

(* The output-token fuse is overshot by one call for each owner.            *)
THEOREM OvershootBounded == Spec => []OneCallOvershoots
  <1>1. IInv => OneCallOvershoots
    <2> SUFFICES ASSUME IInv, pins # NoPins
                 PROVE  tokens < pins.tokens + MaxTokens * (1 + overlaps)
      BY DEF OneCallOvershoots
    <2>1. MaxTokens * Cardinality(CallSet) \in Nat /\ MaxTokens * (1 + overlaps) \in Nat
      BY Sets, Product, CallAssumption DEF CallAssumption, IInv, TypeOK
    <2>2. pins.tokens \in Nat /\ tokens \in Nat
      BY CallAssumption DEF CallAssumption, IInv, TypeOK
    <2> QED  BY <2>1, <2>2 DEF IInv, Bounded, Coming
  <1> QED  BY Invariance, <1>1, PTL

-----------------------------------------------------------------------------
(* One physical call, the step Physical stands for: what a CLI process leaves
   behind, for any request, pipe, cap, output and text.                     *)

(* A chunk is in its pipe or was read.                                      *)
CliFlow == \A p \in Pipes : total[p] + buffer[p] + pipe[p] = wrote[p]

(* A reader keeps what it reads until it goes past the cap.                 *)
CliKept == \A p \in Pipes :
            (reader[p] = "reading" \/ ~overflowed) => kept[p] = total[p]

(* Unless one did, a reader stops at the end of its pipe only.              *)
CliDrained == ~overflowed => \A p \in Pipes :
               /\ reader[p] # "ending"
               /\ reader[p] = "done" => pipe[p] = 0 /\ buffer[p] = 0

(* A thread that ended the group did so to the end, and the caller goes on
   when that is done, by whichever thread.                                  *)
CliOver == \A t \in Threads : ending[t] = "over" => leader = "reaped"
CliGone == main \in {"joining", "returned"} => leader = "reaped"

(* An envelope was written before the CLI ended with it.                    *)
CliSaid == exit.how \in {"ok", "error"} => wrote["out"] > 0

CliInv == CliTypeOK /\ CliFlow /\ CliKept /\ CliDrained /\ CliOver /\ CliGone /\ CliSaid

-----------------------------------------------------------------------------
LEMMA InitCliInv == ASSUME CliInit PROVE CliInv
  <1>1. /\ 0 \in 0..PipeSize /\ 0 \in 0..MaxOutput /\ 0 \in 0..Cap /\ 0 \in 0..Chunk
        /\ Payload \in 0..Payload
    BY CliAssumption DEF CliAssumption
  <1>2. CliTypeOK  BY <1>1 DEF CliInit, CliTypeOK, NoExit
  <1>3. CliFlow /\ CliKept /\ CliDrained /\ CliOver
    BY DEF CliInit, CliFlow, CliKept, CliDrained, CliOver
  <1>4. CliGone /\ CliSaid  BY DEF CliInit, CliGone, CliSaid, NoExit
  <1> QED  BY <1>2, <1>3, <1>4 DEF CliInv

(* The child: a write adds a piece to its pipe, an exit comes before the
   reaping.                                                                 *)
LEMMA ChildKeepsCliInv == ASSUME CliInv, ChildStep PROVE CliInv'
  <1> USE CliAssumption DEF CliAssumption, pipes, threads, caller, child
  <1>1. CASE ChildReads \/ ChildForks \/ HelperExits
    <2>1. /\ stdin' \in 0..PipeSize /\ helper' \in {"none", "alive", "dead"}
          /\ UNCHANGED <<leader, deaf, exit, pipe, wrote, noise, unsent, reader, buffer, total, kept,
                         overflowed, ending, main, outcome>>
      BY <1>1 DEF CliInv, CliTypeOK, ChildReads, ChildForks, HelperExits
    <2> QED
      BY <2>1 DEF CliInv, CliTypeOK, CliFlow, CliKept, CliDrained, CliOver, CliGone, CliSaid
  <1>2. ASSUME NEW p \in Pipes, LeaderWrites(p) \/ HelperWrites(p) PROVE CliInv'
    <2>1. /\ pipe' = [pipe EXCEPT ![p] = @ + 1] /\ wrote' = [wrote EXCEPT ![p] = @ + 1]
          /\ pipe[p] < PipeSize /\ wrote[p] < MaxOutput /\ reader[p] # "done"
          /\ noise' \in BOOLEAN
          /\ UNCHANGED <<leader, helper, deaf, exit, stdin, unsent, reader, buffer, total, kept,
                         overflowed, ending, main, outcome>>
      BY <1>2 DEF LeaderWrites, HelperWrites, ChildWrites, CliInv, CliTypeOK
    <2>2. CliTypeOK'  BY <2>1 DEF CliInv, CliTypeOK
    <2>3. CliFlow' /\ CliSaid'  BY <2>1 DEF CliInv, CliTypeOK, CliFlow, CliSaid
    <2>4. CliKept' /\ CliDrained' /\ CliOver' /\ CliGone'
      BY <2>1 DEF CliInv, CliTypeOK, CliKept, CliDrained, CliOver, CliGone
    <2> QED  BY <2>2, <2>3, <2>4 DEF CliInv
  <1>3. ASSUME NEW S \in Signals, NEW how \in {"ok", "error", "garbled", "failed"},
               ChildExits(how, S)
        PROVE  CliInv'
    <2>1. /\ leader = "alive" /\ leader' = "dead" /\ exit' = [how |-> how, signals |-> S]
          /\ how \in {"ok", "error"} => wrote["out"] > 0
          /\ UNCHANGED <<helper, deaf, stdin, pipe, wrote, noise, unsent, reader, buffer, total, kept,
                         overflowed, ending, main, outcome>>
      BY <1>3 DEF ChildExits
    <2>2. S \subseteq Signal  BY CliAssumption DEF CliAssumption
    <2>3. CliTypeOK'  BY <2>1, <2>2 DEF CliInv, CliTypeOK
    <2>4. CliFlow' /\ CliKept' /\ CliDrained' /\ CliOver' /\ CliGone' /\ CliSaid'
      BY <2>1 DEF CliInv, CliFlow, CliKept, CliDrained, CliOver, CliGone, CliSaid
    <2> QED  BY <2>3, <2>4 DEF CliInv
  <1> QED  BY <1>1, <1>2, <1>3 DEF ChildStep

(* The threads at the pipes.                                                *)
LEMMA ReaderKeepsCliInv ==
  ASSUME CliInv, NEW p \in Pipes, ReaderStep(p)
  PROVE  CliInv'
  <1> USE CliAssumption DEF CliAssumption, pipes, threads, caller, child
  <1>t. p \in Threads  BY DEF Threads
  <1>0. CASE Fill(p)
    <2>1. /\ reader[p] = "reading" /\ pipe[p] > 0 /\ buffer[p] < Chunk
          /\ pipe' = [pipe EXCEPT ![p] = @ - 1] /\ buffer' = [buffer EXCEPT ![p] = @ + 1]
          /\ UNCHANGED <<leader, helper, deaf, exit, stdin, wrote, noise, unsent, reader, total,
                         kept, overflowed, ending, main, outcome>>
      BY <1>0 DEF Fill
    <2>2. CliTypeOK'  BY <2>1 DEF CliInv, CliTypeOK
    <2>3. CliFlow' /\ CliDrained'  BY <2>1 DEF CliInv, CliTypeOK, CliFlow, CliDrained
    <2>4. CliKept' /\ CliOver' /\ CliGone' /\ CliSaid'
      BY <2>1 DEF CliInv, CliKept, CliOver, CliGone, CliSaid
    <2> QED  BY <2>2, <2>3, <2>4 DEF CliInv
  <1>1. CASE Read(p)
    <2>1. /\ reader[p] = "reading" /\ ChunkRead(p)
          /\ buffer' = [buffer EXCEPT ![p] = 0] /\ total' = [total EXCEPT ![p] = @ + buffer[p]]
          /\ UNCHANGED <<leader, helper, deaf, exit, stdin, pipe, wrote, noise, unsent, main, outcome>>
      BY <1>1 DEF Read, ChunkRead
    <2>2. total[p] + buffer[p] \in 0..MaxOutput  BY <2>1 DEF CliInv, CliTypeOK, CliFlow
    <2>3. CliFlow' /\ CliSaid'  BY <2>1 DEF CliInv, CliTypeOK, CliFlow, CliSaid
    <2>4. kept[p] = total[p]  BY <2>1 DEF CliInv, CliKept
    <2>5. CASE total[p] + buffer[p] > Cap
      <3>1. /\ overflowed' = TRUE /\ reader' = [reader EXCEPT ![p] = "ending"]
            /\ ending' = [ending EXCEPT ![p] = "term"] /\ kept' = kept
        BY <1>1, <2>2, <2>5 DEF Read
      <3>2. CliTypeOK'  BY <2>1, <2>2, <3>1, <1>t DEF CliInv, CliTypeOK
      <3>3. CliKept' /\ CliDrained' /\ CliOver' /\ CliGone'
        BY <2>1, <3>1, <1>t
        DEF CliInv, CliTypeOK, CliKept, CliDrained, CliOver, CliGone
      <3> QED  BY <2>3, <3>2, <3>3 DEF CliInv
    <2>6. CASE ~(total[p] + buffer[p] > Cap)
      <3>1. /\ kept' = [kept EXCEPT ![p] = @ + buffer[p]]
            /\ UNCHANGED <<reader, overflowed, ending>>
        BY <1>1, <2>6 DEF Read
      <3>2. CliTypeOK'  BY <2>1, <2>2, <2>4, <2>6, <3>1 DEF CliInv, CliTypeOK
      <3>3. CliKept'  BY <2>1, <2>4, <3>1 DEF CliInv, CliTypeOK, CliKept
      <3>4. CliDrained' /\ CliOver' /\ CliGone'
        BY <2>1, <3>1 DEF CliInv, CliTypeOK, CliDrained, CliOver, CliGone
      <3> QED  BY <2>3, <3>2, <3>3, <3>4 DEF CliInv
    <2> QED  BY <2>5, <2>6
  <1>2. CASE EndOfFile(p) \/ ReaderStops(p)
    <2>1. /\ reader' = [reader EXCEPT ![p] = "done"]
          /\ (reader[p] = "reading" /\ pipe[p] = 0 /\ buffer[p] = 0) \/ reader[p] = "ending"
          /\ UNCHANGED <<leader, helper, deaf, exit, stdin, pipe, wrote, noise, unsent, buffer, total,
                         kept, overflowed, ending, main, outcome>>
      BY <1>2 DEF EndOfFile, ReaderStops, ReaderEnds, AtEnd
    <2>2. CliTypeOK'  BY <2>1 DEF CliInv, CliTypeOK
    <2>3. CliKept' /\ CliDrained'  BY <2>1 DEF CliInv, CliTypeOK, CliKept, CliDrained
    <2>4. CliFlow' /\ CliOver' /\ CliGone' /\ CliSaid'
      BY <2>1 DEF CliInv, CliFlow, CliOver, CliGone, CliSaid
    <2> QED  BY <2>2, <2>3, <2>4 DEF CliInv
  <1> QED  BY <1>0, <1>1, <1>2 DEF ReaderStep

(* The end of the group: signals kill, and only a wait is the end of it.    *)
LEMMA EndingKeepsCliInv == ASSUME CliInv, NEW t \in Threads, EndingStep(t) PROVE CliInv'
  <1> USE DEF Ending
  <1>1. /\ UNCHANGED <<deaf, stdin, pipe, wrote, noise, unsent, reader, buffer, total, kept,
                       overflowed, main, outcome>>
        /\ \E s \in {"wait", "kill", "over"} :
              /\ ending' = [ending EXCEPT ![t] = s]
              /\ s = "over" => leader' = "reaped"
    BY DEF EndingStep, SendTerm, Reap, WaitLapses, SendKill,
           pipes, caller
  <1>2. /\ leader' \in {"alive", "dead", "reaped"} /\ helper' \in {"none", "alive", "dead"}
        /\ leader = "reaped" => leader' = "reaped" /\ exit' = exit
        /\ exit' = exit \/ exit' = [how |-> "killed", signals |-> {}]
    BY DEF CliInv, CliTypeOK, EndingStep, SendTerm, Reap, WaitLapses,
           SendKill, Dies, Killed
  <1>3. CliTypeOK'  BY <1>1, <1>2 DEF CliInv, CliTypeOK
  <1>4. CliFlow' /\ CliKept' /\ CliDrained'
    BY <1>1 DEF CliInv, CliFlow, CliKept, CliDrained
  <1>5. CliOver' /\ CliGone' /\ CliSaid'
    BY <1>1, <1>2 DEF CliInv, CliTypeOK, CliOver, CliGone, CliSaid
  <1> QED  BY <1>3, <1>4, <1>5 DEF CliInv

(* The caller: it joins what has been waited for.                           *)
LEMMA MainKeepsCliInv == ASSUME CliInv, MainStep PROVE CliInv'
  <1> USE DEF pipes, threads, caller, child
  <1>1. CASE LeaderWaited
    BY <1>1
    DEF LeaderWaited, CliInv, CliTypeOK, CliFlow, CliKept, CliDrained, CliOver,
        CliGone, CliSaid
  <1>2. CASE TimeoutExpires
    BY <1>2
    DEF TimeoutExpires, CliInv, CliTypeOK, CliFlow, CliKept, CliDrained, CliOver,
        CliGone, CliSaid, Threads
  <1>3. CASE GroupTerminated
    BY <1>3
    DEF GroupTerminated, CliInv, CliTypeOK, CliFlow, CliKept, CliDrained, CliOver,
        CliGone, CliSaid, Threads
  <1>4. CASE Return
    <2>1. /\ main = "joining" /\ main' = "returned"
          /\ UNCHANGED <<leader, helper, deaf, exit, stdin, pipe, wrote, noise, unsent, reader,
                         buffer, total, kept, overflowed, ending>>
      BY <1>4, Zenon DEF Return
    <2> QED  BY <2>1
             DEF CliInv, CliTypeOK, CliFlow, CliKept, CliDrained, CliOver, CliGone, CliSaid
  <1> QED  BY <1>1, <1>2, <1>3, <1>4 DEF MainStep

LEMMA StepCliInv ==
  ASSUME CliInv, [CliNext]_cliVars
  PROVE  CliInv'
  <1>1. CASE WriteStdin
    BY <1>1, CliAssumption
    DEF CliAssumption, WriteStdin, pipes, threads, caller, child,
        CliInv, CliTypeOK, CliFlow, CliKept, CliDrained, CliOver, CliGone, CliSaid
  <1>2. CASE UNCHANGED cliVars
    BY <1>2
    DEF cliVars, pipes, threads, caller, child, CliInv, CliTypeOK,
        CliFlow, CliKept, CliDrained, CliOver, CliGone, CliSaid
  <1> QED  BY <1>1, <1>2, ChildKeepsCliInv, ReaderKeepsCliInv, EndingKeepsCliInv, MainKeepsCliInv
           DEF CliNext

(* What a call has read, kept and reaped stays consistent whatever the process
   and its helpers do (llm/claude_cli.py).                                  *)
THEOREM CliInvariance == CliSpec => []CliInv
  BY InitCliInv, StepCliInv, PTL DEF CliSpec

-----------------------------------------------------------------------------
(* The process, its pipes and the threads keep their types; no reader keeps
   more than the cap.                                                       *)
THEOREM CliTypeCorrect == CliSpec => []CliTypeOK
  <1>1. CliInv => CliTypeOK  BY DEF CliInv
  <1> QED  BY CliInvariance, <1>1, PTL

(* _run_process never returns with the CLI alive or not waited for, whoever
   of the three threads ended the group.                                    *)
THEOREM NoProcessLeft == CliSpec => []LeaderGone
  <1>1. CliInv => LeaderGone  BY DEF CliInv, CliGone, LeaderGone
  <1> QED  BY CliInvariance, <1>1, PTL

(* Only one step returns.                                                   *)
LEMMA OnlyReturnReturns ==
  ASSUME CliNext, main # "returned", main' = "returned"
  PROVE  Return
  BY DEF CliNext, ChildStep, ReaderStep, EndingStep, MainStep,
         ChildReads, ChildForks, HelperExits, ChildWrites, LeaderWrites, HelperWrites,
         ChildExits, WriteStdin, Fill, ChunkRead, Read, EndOfFile, ReaderStops, ReaderEnds,
         SendTerm, Reap, WaitLapses, SendKill, Ending,
         LeaderWaited, TimeoutExpires, GroupTerminated, pipes,
         threads, caller, child

(* When the joins are over and no reader overflowed, a reader is at the end of
   its pipe, or a helper keeps it waiting for the rest of a chunk.          *)
LEMMA JoinedIsWhole ==
  ASSUME CliInv, main = "joining", Joined, ~overflowed, NEW p \in Pipes
  PROVE  kept[p] = wrote[p] \/ CutShort(p)
  <1>1. kept[p] = total[p] /\ reader[p] # "ending" /\ leader = "reaped"
        /\ (reader[p] = "done" => pipe[p] = 0 /\ buffer[p] = 0)
    BY DEF CliInv, CliKept, CliDrained, CliGone
  <1>2. /\ kept[p] \in Nat /\ buffer[p] \in Nat /\ pipe[p] \in Nat /\ Chunk \in Nat
        /\ kept[p] + buffer[p] + pipe[p] = wrote[p]
    BY <1>1, CliAssumption DEF CliAssumption, CliInv, CliTypeOK, CliFlow
  <1>3. CASE reader[p] = "done"  BY <1>1, <1>2, <1>3
  <1>4. CASE reader[p] # "done"
    <2>1. buffer[p] < Chunk /\ pipe[p] = 0 /\ ~Closed  BY <1>1, <1>4 DEF Joined, Blocked
    <2>2. helper = "alive"  BY <1>1, <2>1 DEF Closed, Holders
    <2> QED  BY <1>2, <2>1, <2>2 DEF CutShort
  <1> QED  BY <1>3, <1>4

(* classify_cli_failure and classify_envelope_failure: a text that mentions a
   spent allowance is never taken for one worth a retry.                    *)
LEMMA UsageIsFinal ==
  ASSUME NEW S, "usage" \in S
  PROVE  FailureOf(S) \in {"config", "usage_limited"} /\ EnvelopeFailureOf(S) = "usage_limited"
  <1>1. CASE "auth" \in S  BY <1>1 DEF FailureOf, EnvelopeFailureOf
  <1>2. CASE "auth" \notin S  BY <1>2 DEF FailureOf, EnvelopeFailureOf
  <1> QED  BY <1>1, <1>2

(* An exit or an envelope that reports a spent allowance is not followed by a
   retry, unless the time-out came first or a helper kept part of the text or
   wrote into it (llm/claude_cli.py: _interpret; llm/base.py: retryable).   *)
THEOREM LimitStays == CliSpec => LimitIsFinal
  <1> DEFINE Final == Returns(Retryable) /\ exit.how \in {"failed", "error"} /\ "usage" \in exit.signals
                      => outcome' = "timeout" \/ helper = "alive" \/ noise
  <1>1. CliInv /\ [CliNext]_cliVars => [Final]_cliVars
    <2> SUFFICES ASSUME CliInv, CliNext, main # "returned", main' = "returned",
                        outcome' \in Retryable, exit.how \in {"failed", "error"},
                        "usage" \in exit.signals, outcome' # "timeout", helper # "alive", ~noise
                 PROVE  FALSE
      BY DEF Returns
    <2>1. Return  BY OnlyReturnReturns
    <2>2. main = "joining" /\ Joined /\ ~overflowed /\ outcome' \in Interpreted
      <3>1. /\ main = "joining" /\ Joined
            /\ \/ outcome = "timeout" /\ outcome' \in {"timeout"}
               \/ outcome # "timeout" /\ overflowed /\ outcome' \in {"too_large"}
               \/ outcome # "timeout" /\ ~overflowed /\ outcome' \in Interpreted
        BY <2>1, Zenon DEF Return
      <3> QED  BY <3>1 DEF Retryable
    <2>3. \A p \in Pipes : kept[p] = wrote[p]  BY <2>2, JoinedIsWhole DEF CutShort
    <2>4. kept = wrote  BY <2>3 DEF CliInv, CliTypeOK
    <2>5. CASE exit.how = "failed"
      <3>1. Interpreted = {FailureOf(exit.signals)}  BY <2>4, <2>5 DEF Interpreted, Kept
      <3>2. outcome' \in {"config", "usage_limited"}  BY <2>2, <3>1, UsageIsFinal
      <3> QED  BY <3>2 DEF Retryable
    <2>6. CASE exit.how = "error"
      <3>1. Whole  BY <2>3, <2>6 DEF Whole, CliInv, CliSaid, Pipes
      <3>2. Interpreted = {EnvelopeFailureOf(exit.signals)}
        BY <2>6, <3>1 DEF Interpreted, Envelope
      <3>3. outcome' = "usage_limited"  BY <2>2, <3>2, UsageIsFinal
      <3> QED  BY <3>3 DEF Retryable
    <2> QED  BY <2>5, <2>6
  <1> QED  BY <1>1, CliInvariance, PTL DEF CliSpec, LimitIsFinal

(* What the call takes for the CLI's text is all that was written, but for
   less than a chunk that a helper with the pipes in hand holds back
   (llm/claude_cli.py: _run_process, _read_capped).                         *)
THEOREM WholeAnswer == CliSpec => AnswerIsWhole
  <1> DEFINE Complete == main # "returned" /\ main' = "returned"
                             /\ outcome' \notin {"timeout", "too_large"}
                         => \A p \in Pipes : kept[p] = wrote[p] \/ CutShort(p)
  <1>1. CliInv /\ [CliNext]_cliVars => [Complete]_cliVars
    <2> SUFFICES ASSUME CliInv, CliNext, main # "returned", main' = "returned",
                        outcome' \notin {"timeout", "too_large"}
                 PROVE  \A p \in Pipes : kept[p] = wrote[p] \/ CutShort(p)
      OBVIOUS
    <2>1. Return  BY OnlyReturnReturns
    <2>2. main = "joining" /\ Joined /\ ~overflowed
      <3>1. /\ main = "joining" /\ Joined
            /\ \/ outcome' \in {"timeout"} \/ outcome' \in {"too_large"} \/ ~overflowed
        BY <2>1, Zenon DEF Return
      <3> QED  BY <3>1
    <2> QED  BY <2>2, JoinedIsWhole
  <1> QED  BY <1>1, CliInvariance, PTL DEF CliSpec, AnswerIsWhole
=============================================================================
