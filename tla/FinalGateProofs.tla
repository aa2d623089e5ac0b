--------------------------- MODULE FinalGateProofs ---------------------------
(***************************************************************************)
(* What a workbook that passes the gate is, for any submitted workbook,    *)
(* any batches, take-overs and damage: proofs about FinalGate.  Then what  *)
(* the gate of a patch promises of the file, for any sheet: PatchGate.     *)
(***************************************************************************)
EXTENDS FinalGate, PatchGate, FiniteSetTheorems, SequenceTheorems, TLAPS

HasBatch(w) == pending[w] \in Batch

(* No record and no batch is from the future.                               *)
Dated ==
    /\ \A i \in DOMAIN ledger : ledger[i].at <= clock
    /\ \A w \in Workers : /\ HasBatch(w) => pending[w].at <= clock
                          /\ w \in Open => intent[w].at <= clock

(* A cell an edit leaves plain stays so, in the file and in what a worker
   loaded, as long as nobody damages the file.                              *)
KeepsPlain(f) ==
    \A c \in Cells : Plain(c) =>
        /\ f.cell[c].wrap = "off" /\ f.cell[c].format = "@"
        /\ f.cell[c].text # "" => f.cell[c].type = "s"
PlainStays ==
    damage = 0 =>
        /\ KeepsPlain(file)
        /\ \A w \in Workers : HasBatch(w) => KeepsPlain(pending[w].base)

IInv == TypeOK /\ Dated /\ PlainStays

-----------------------------------------------------------------------------
(* Sequences of records.                                                    *)

(* SetToSeq lists a finite set.                                             *)
LEMMA Listed ==
  ASSUME NEW S, IsFiniteSet(S)
  PROVE  SetToSeq(S) \in Seq(S)
  <1>1. Cardinality(S) \in Nat /\ ExistsBijection(1..Cardinality(S), S)
    BY FS_CardinalityType
  <1>2. \E f \in [1..Cardinality(S) -> S] : IsInjective(f)
    BY <1>1 DEF ExistsBijection, Bijection, Injection, Surjection
  <1>3. SetToSeq(S) \in [1..Cardinality(S) -> S]
    BY <1>2 DEF SetToSeq
  <1> QED  BY <1>1, <1>3, SeqDef

LEMMA EditTypes ==
  ASSUME NEW e \in Edits
  PROVE  /\ DOMAIN e \subseteq Cells /\ IsFiniteSet(DOMAIN e)
         /\ \A c \in DOMAIN e : e[c] \in Texts /\ e[c] \in AnyText
  <1>1. PICK S \in SUBSET Cells : e \in [S -> Texts]  BY DEF Edits
  <1>2. IsFiniteSet(S)  BY GateAssumption, FS_Subset DEF GateAssumption
  <1> QED  BY <1>1, <1>2 DEF AnyText

(* The records of a batch are change records of its time.                   *)
LEMMA RecordTypes ==
  ASSUME NEW base \in Workbook, NEW e \in Edits, NEW at \in Nat
  PROVE  /\ Records(e, base, at) \in Seq(Change)
         /\ \A i \in DOMAIN Records(e, base, at) : Records(e, base, at)[i].at = at
  <1> DEFINE ch == Changes(e, base, at)
             T == {ch[c] : c \in DOMAIN e}
             R == {r \in Change : r.at = at}
  <1>1. DOMAIN e \subseteq Cells /\ IsFiniteSet(DOMAIN e) /\ \A c \in DOMAIN e : e[c] \in AnyText
    BY EditTypes
  <1>2. \A c \in DOMAIN e : ch[c] \in R
    BY <1>1 DEF Changes, Change, Workbook, AnyCell
  <1>3. IsFiniteSet(T)
    <2>1. ch \in [DOMAIN e -> T]  BY DEF Changes
    <2>2. \A t \in T : \E c \in DOMAIN e : ch[c] = t  OBVIOUS
    <2> HIDE DEF ch, T
    <2>3. ch \in Surjection(DOMAIN e, T)  BY <2>1, <2>2 DEF Surjection
    <2> QED  BY <2>3, <1>1, FS_Surjection
  <1>4. T \subseteq R  BY <1>2
  <1> HIDE DEF ch, T, R
  <1>5. SetToSeq(T) \in Seq(R)  BY <1>3, <1>4, Listed
  <1>6. Records(e, base, at) = SetToSeq(T)  BY DEF Records, T, ch
  <1>7. R \subseteq Change /\ \A r \in R : r.at = at  BY DEF R
  <1> QED  BY <1>5, <1>6, <1>7

LEMMA Appended ==
  ASSUME NEW s \in Seq(Change), NEW t \in Seq(Change), NEW k \in Nat,
         \A i \in DOMAIN s : s[i].at <= k, \A i \in DOMAIN t : t[i].at <= k
  PROVE  s \o t \in Seq(Change) /\ \A i \in DOMAIN (s \o t) : (s \o t)[i].at <= k
  <1>1. s \o t \in Seq(Change)  OBVIOUS
  <1>2. ASSUME NEW i \in DOMAIN (s \o t) PROVE (s \o t)[i].at <= k
    <2>1. CASE i <= Len(s)  BY <2>1
    <2>2. CASE i > Len(s)
      <3>1. (s \o t)[i] = t[i - Len(s)] /\ i - Len(s) \in DOMAIN t  BY <2>2
      <3> QED  BY <3>1
    <2> QED  BY <2>1, <2>2
  <1> QED  BY <1>1, <1>2

-----------------------------------------------------------------------------
(* An edit makes a workbook of a workbook and leaves plain cells plain.     *)
LEMMA EditedTypes ==
  ASSUME NEW base \in Workbook, NEW e, \A c \in DOMAIN e : e[c] \in AnyText
  PROVE  Edited(base, e) \in Workbook /\ (KeepsPlain(base) => KeepsPlain(Edited(base, e)))
  <1> DEFINE W(c) == IF c \in DOMAIN e THEN WrittenCell(base.cell[c], ColumnOf(c), e[c])
                                       ELSE base.cell[c]
             U(c) == Unwrapped(W(c), RowOf(c), e)
  <1>1. ASSUME NEW c \in Cells
        PROVE  /\ W(c) \in AnyCell
               /\ W(c).wrap = base.cell[c].wrap
               /\ base.cell[c].format = "@" => W(c).format = "@"
               /\ (W(c).type = base.cell[c].type /\ W(c).text = base.cell[c].text) \/ W(c).type = "s"
    <2>1. base.cell[c] \in AnyCell  BY DEF Workbook
    <2>2. CASE c \in DOMAIN e
      BY <2>1, <2>2 DEF WrittenCell, AnyCell
    <2> QED  BY <2>1, <2>2
  <1> HIDE DEF W
  <1>2. ASSUME NEW c \in Cells
        PROVE  /\ U(c) \in AnyCell
               /\ U(c).wrap \in {W(c).wrap, "off"} /\ U(c).format = W(c).format
               /\ U(c).type = W(c).type /\ U(c).text = W(c).text
    BY <1>1 DEF Unwrapped, AnyCell
  <1> HIDE DEF U
  <1>3. ASSUME NEW c \in Cells
        PROVE  /\ Saved(U(c)) \in AnyCell
               /\ Saved(U(c)).wrap = U(c).wrap /\ Saved(U(c)).format = U(c).format
               /\ Saved(U(c)).text = U(c).text
               /\ U(c).text # "" => Saved(U(c)).type = U(c).type
    BY <1>2 DEF Saved, AnyCell
  <1>4. /\ Edited(base, e).cell = [c \in Cells |-> Saved(U(c))]
        /\ Edited(base, e).height \in [BookRows -> AnyHeight]
        /\ Edited(base, e) = [base EXCEPT !.cell = Edited(base, e).cell,
                                          !.height = Edited(base, e).height]
    BY DEF Edited, Workbook, AnyHeight, U, W
  <1>5. Edited(base, e).cell \in [Cells -> AnyCell]
    BY <1>3, <1>4
  <1>6. Edited(base, e) \in Workbook
    BY <1>4, <1>5 DEF Workbook
  <1>7. ASSUME KeepsPlain(base) PROVE KeepsPlain(Edited(base, e))
    <2> SUFFICES ASSUME NEW c \in Cells, Plain(c)
                 PROVE  /\ Edited(base, e).cell[c].wrap = "off"
                        /\ Edited(base, e).cell[c].format = "@"
                        /\ Edited(base, e).cell[c].text # "" => Edited(base, e).cell[c].type = "s"
      BY DEF KeepsPlain
    <2>1. Edited(base, e).cell[c] = Saved(U(c))  BY <1>4
    <2>2. /\ base.cell[c].wrap = "off" /\ base.cell[c].format = "@"
          /\ base.cell[c].text # "" => base.cell[c].type = "s"
      BY <1>7 DEF KeepsPlain
    <2> QED  BY <2>1, <2>2, <1>1, <1>2, <1>3
  <1> QED  BY <1>6, <1>7

-----------------------------------------------------------------------------
LEMMA InitIInv == Init => IInv
  <1> SUFFICES ASSUME Init PROVE IInv  OBVIOUS
  <1>1. Source \in Workbook  BY GateAssumption DEF GateAssumption, Source, Workbook
  <1>2. TypeOK  BY <1>1 DEF Init, TypeOK, Workers
  <1>3. Idle \notin Batch  BY DEF Idle, Batch
  <1>4. KeepsPlain(file)  BY DEF Init, KeepsPlain, Plain, Source
  <1>5. Dated /\ PlainStays
    BY <1>3, <1>4 DEF Init, Dated, PlainStays, HasBatch, Open
  <1> QED  BY <1>2, <1>5 DEF IInv

(* A stage other than Idle's is a batch's, and so is an open intent.        *)
LEMMA Pending ==
  ASSUME TypeOK, NEW w \in Workers
  PROVE  /\ pending[w].stage \in {"loaded", "saved", "recorded"} => HasBatch(w)
         /\ pending[w] # Idle => HasBatch(w)
         /\ w \in Open => intent[w] \in Batch
         /\ HasBatch(w) => pending[w].at \in Nat
  BY DEF TypeOK, Idle, HasBatch, Open, Batch

LEMMA RecordDates ==
  ASSUME TypeOK
  PROVE  \A i \in DOMAIN ledger : ledger[i].cell \in Cells /\ ledger[i].at \in Nat
  <1>1. \A i \in DOMAIN ledger : ledger[i] \in Change
    BY ElementOfSeq DEF TypeOK
  <1> QED  BY <1>1 DEF Change

(* What PlainStays says of the next state: the submitted workbook is fixed. *)
LEMMA PlainNext ==
  ASSUME damage' = 0 => KeepsPlain(file'),
         \A v \in Workers : damage' = 0 /\ pending'[v] \in Batch => KeepsPlain(pending'[v].base)
  PROVE  PlainStays'
  BY DEF PlainStays, HasBatch, KeepsPlain, Plain, Source

(* What a batch that begins is.                                             *)
LEMMA Begun ==
  ASSUME IInv, NEW w \in Workers, Begin(w)
  PROVE  /\ pending'[w] \in Batch /\ pending'[w].stage = "loaded"
         /\ pending'[w].base = file /\ pending'[w].at = clock + 1
         /\ pending' = [pending EXCEPT ![w] = pending'[w]]
         /\ intent' = [intent EXCEPT ![w] = pending'[w]]
         /\ clock' = clock + 1 /\ pending[w] = Idle /\ w = owner /\ Open = {}
         /\ intact /\ UNCHANGED <<file, ledger, owner, intact, damage>>
  <1> DEFINE B(edits) == [stage |-> "loaded", base |-> file, edits |-> edits, at |-> clock + 1]
  <1>1. PICK cells \in kSubset(1, Cells) \union kSubset(MaxCells, Cells) :
        \E edits \in [cells -> Texts] : /\ pending' = [pending EXCEPT ![w] = B(edits)]
                                        /\ intent' = [intent EXCEPT ![w] = B(edits)]
    BY DEF Begin
  <1>2. PICK edits \in [cells -> Texts] : /\ pending' = [pending EXCEPT ![w] = B(edits)]
                                          /\ intent' = [intent EXCEPT ![w] = B(edits)]
    BY <1>1
  <1>3. edits \in Edits  BY DEF Edits, kSubset
  <1>4. /\ B(edits) \in Batch /\ B(edits).stage = "loaded"
        /\ B(edits).base = file /\ B(edits).at = clock + 1
    BY <1>3 DEF IInv, TypeOK, Batch
  <1>5. pending'[w] = B(edits)  BY <1>2 DEF IInv, TypeOK
  <1>6. /\ clock' = clock + 1 /\ pending[w] = Idle /\ w = owner /\ Open = {}
        /\ intact /\ UNCHANGED <<file, ledger, owner, intact, damage>>
    BY DEF Begin
  <1> HIDE DEF B
  <1> QED  BY <1>2, <1>4, <1>5, <1>6

LEMMA BeginInv == ASSUME IInv, NEW w \in Workers, Begin(w) PROVE IInv'
  <1> DEFINE b == pending'[w]
  <1>1. /\ b \in Batch /\ b.base = file /\ b.at = clock + 1
        /\ pending' = [pending EXCEPT ![w] = b] /\ intent' = [intent EXCEPT ![w] = b]
        /\ clock' = clock + 1 /\ UNCHANGED <<file, ledger, owner, intact, damage>>
    BY Begun
  <1> HIDE DEF b
  <1>2. TypeOK'  BY <1>1 DEF IInv, TypeOK
  <1>3. /\ \A v \in Workers : pending'[v] \in {pending[v], b}
        /\ \A v \in Workers : intent'[v] \in {intent[v], b}
    BY <1>1 DEF IInv, TypeOK
  <1>4. Dated'
    <2>1. \A i \in DOMAIN ledger : ledger[i].at \in Nat
      BY RecordDates DEF IInv
    <2>2. \A v \in Workers : /\ HasBatch(v) => pending[v].at \in Nat
                             /\ v \in Open => intent[v].at \in Nat
      BY Pending DEF IInv, Batch
    <2>3. clock \in Nat  BY DEF IInv, TypeOK
    <2> QED  BY <1>1, <1>3, <2>1, <2>2, <2>3 DEF IInv, Dated, HasBatch, Open
  <1>5. PlainStays'
    <2>1. damage = 0 => KeepsPlain(file)  BY DEF IInv, PlainStays
    <2>2. \A v \in Workers :
            damage = 0 /\ pending'[v] \in Batch => KeepsPlain(pending'[v].base)
      BY <1>1, <1>3, <2>1 DEF IInv, PlainStays, HasBatch
    <2> QED  BY <1>1, <2>1, <2>2, PlainNext
  <1> QED  BY <1>2, <1>4, <1>5 DEF IInv

(* Saving and recording move a worker's batch to its next stage.            *)
LEMMA Staged ==
  ASSUME IInv, NEW w \in Workers, NEW stage \in {"saved", "recorded"}, HasBatch(w),
         pending' = [pending EXCEPT ![w].stage = stage]
  PROVE  /\ pending'[w] \in Batch /\ pending'[w].stage = stage
         /\ pending'[w].base = pending[w].base /\ pending'[w].edits = pending[w].edits
         /\ pending'[w].at = pending[w].at
         /\ \A v \in Workers \ {w} : pending'[v] = pending[v]
         /\ pending' \in [Workers -> Batch \union {Idle}]
  <1>1. /\ pending'[w] \in Batch /\ pending'[w].stage = stage
        /\ pending'[w].base = pending[w].base /\ pending'[w].edits = pending[w].edits
        /\ pending'[w].at = pending[w].at
    BY DEF HasBatch, Batch, IInv, TypeOK
  <1> QED  BY <1>1 DEF IInv, TypeOK

LEMMA SaveInv == ASSUME IInv, NEW w \in Workers, Save(w) PROVE IInv'
  <1>1. HasBatch(w)  BY Pending DEF Save, IInv
  <1>2. /\ file' = Edited(pending[w].base, pending[w].edits)
        /\ pending' = [pending EXCEPT ![w].stage = "saved"]
        /\ UNCHANGED <<ledger, clock, owner, intent, intact, damage>>
    BY DEF Save
  <1>3. /\ pending[w].base \in Workbook /\ pending[w].edits \in Edits
    BY <1>1 DEF HasBatch, Batch
  <1>4. /\ pending'[w] \in Batch
        /\ pending'[w].base = pending[w].base /\ pending'[w].at = pending[w].at
        /\ \A v \in Workers \ {w} : pending'[v] = pending[v]
        /\ pending' \in [Workers -> Batch \union {Idle}]
    BY <1>1, <1>2, Staged
  <1>5. /\ file' \in Workbook
        /\ KeepsPlain(pending[w].base) => KeepsPlain(file')
    BY <1>2, <1>3, EditTypes, EditedTypes
  <1>6. TypeOK'  BY <1>2, <1>4, <1>5 DEF IInv, TypeOK
  <1>7. Dated'  BY <1>1, <1>2, <1>4 DEF IInv, Dated, HasBatch, Open
  <1>8. PlainStays'
    <2>1. damage = 0 => KeepsPlain(file')  BY <1>1, <1>5 DEF IInv, PlainStays
    <2>2. \A v \in Workers :
            damage = 0 /\ pending'[v] \in Batch => KeepsPlain(pending'[v].base)
      BY <1>1, <1>4 DEF IInv, PlainStays, HasBatch
    <2> QED  BY <1>2, <2>1, <2>2, PlainNext
  <1> QED  BY <1>6, <1>7, <1>8 DEF IInv

LEMMA RecordInv == ASSUME IInv, NEW w \in Workers, Record(w) PROVE IInv'
  <1>1. HasBatch(w)  BY Pending DEF Record, IInv
  <1> DEFINE new == Records(pending[w].edits, pending[w].base, pending[w].at)
  <1>2. /\ ledger' = ledger \o new /\ pending' = [pending EXCEPT ![w].stage = "recorded"]
        /\ UNCHANGED <<file, clock, owner, intent, intact, damage>>
    BY DEF Record
  <1>3. /\ pending[w].base \in Workbook /\ pending[w].edits \in Edits /\ pending[w].at \in Nat
        /\ pending[w].at <= clock
    BY <1>1 DEF HasBatch, Batch, IInv, Dated
  <1>4. new \in Seq(Change) /\ \A i \in DOMAIN new : new[i].at <= clock
    BY <1>3, RecordTypes
  <1> HIDE DEF new
  <1>5. ledger' \in Seq(Change) /\ \A i \in DOMAIN ledger' : ledger'[i].at <= clock
    BY <1>2, <1>4, Appended DEF IInv, TypeOK, Dated
  <1>6. /\ pending'[w] \in Batch
        /\ pending'[w].base = pending[w].base /\ pending'[w].at = pending[w].at
        /\ \A v \in Workers \ {w} : pending'[v] = pending[v]
        /\ pending' \in [Workers -> Batch \union {Idle}]
    BY <1>1, <1>2, Staged
  <1>7. TypeOK'  BY <1>2, <1>5, <1>6 DEF IInv, TypeOK
  <1>8. Dated'  BY <1>1, <1>2, <1>5, <1>6 DEF IInv, Dated, HasBatch, Open
  <1>9. PlainStays'
    <2>1. damage = 0 => KeepsPlain(file)  BY DEF IInv, PlainStays
    <2>2. \A v \in Workers :
            damage = 0 /\ pending'[v] \in Batch => KeepsPlain(pending'[v].base)
      BY <1>1, <1>6 DEF IInv, PlainStays, HasBatch
    <2> QED  BY <1>2, <2>1, <2>2, PlainNext
  <1> QED  BY <1>7, <1>8, <1>9 DEF IInv

(* What is settled or taken over is forgotten or kept as it is.             *)
LEMMA ForgetInv ==
  ASSUME IInv, UNCHANGED <<file, intact, damage>>, owner' \in Workers,
         ledger' \in Seq(Change), clock' \in Nat, clock <= clock',
         \A i \in DOMAIN ledger' : ledger'[i].at <= clock',
         pending' \in [Workers -> Batch \union {Idle}],
         intent' \in [Workers -> Batch \union {Idle}],
         \A v \in Workers : pending'[v] \in {pending[v], Idle},
         \A v \in Workers : intent'[v] \in {intent[v], Idle}
  PROVE  IInv'
  <1>1. Idle \notin Batch  BY DEF Idle, Batch
  <1>2. TypeOK'  BY DEF IInv, TypeOK
  <1>3. Dated'
    <2>1. \A v \in Workers : /\ HasBatch(v) => pending[v].at \in Nat /\ pending[v].at <= clock
                             /\ v \in Open => intent[v].at \in Nat /\ intent[v].at <= clock
      BY Pending DEF IInv, Dated, Batch
    <2>2. clock \in Nat  BY DEF IInv, TypeOK
    <2> QED  BY <1>1, <2>1, <2>2 DEF Dated, HasBatch, Open
  <1>4. PlainStays'
    <2>1. damage = 0 => KeepsPlain(file)  BY DEF IInv, PlainStays
    <2>2. \A v \in Workers :
            damage = 0 /\ pending'[v] \in Batch => KeepsPlain(pending'[v].base)
      BY <1>1 DEF IInv, PlainStays, HasBatch
    <2> QED  BY <2>1, <2>2, PlainNext
  <1> QED  BY <1>2, <1>3, <1>4 DEF IInv

LEMMA SettleInv == ASSUME IInv, NEW w \in Workers, Settle(w) PROVE IInv'
  <1>1. /\ pending' = [pending EXCEPT ![w] = Idle] /\ intent' = [intent EXCEPT ![w] = Idle]
        /\ UNCHANGED <<file, ledger, clock, owner, intact, damage>>
    BY DEF Settle
  <1>2. /\ pending' \in [Workers -> Batch \union {Idle}]
        /\ intent' \in [Workers -> Batch \union {Idle}]
        /\ \A v \in Workers : pending'[v] \in {pending[v], Idle}
        /\ \A v \in Workers : intent'[v] \in {intent[v], Idle}
        /\ ledger' \in Seq(Change) /\ clock' \in Nat /\ clock <= clock' /\ owner' \in Workers
        /\ \A i \in DOMAIN ledger' : ledger'[i].at <= clock'
    BY <1>1 DEF IInv, TypeOK, Dated
  <1> QED  BY <1>1, <1>2, ForgetInv

(* What the recovery does to the log and to the intent.                     *)
LEMMA RecoversMeans ==
  ASSUME IInv, Recovers
  PROVE  /\ ledger' \in Seq(Change) /\ clock' \in Nat /\ clock <= clock'
         /\ \A i \in DOMAIN ledger' : ledger'[i].at <= clock'
         /\ intent' \in [Workers -> Batch \union {Idle}]
         /\ \A v \in Workers : intent'[v] \in {intent[v], Idle}
  <1>0. 1 \in Workers  BY DEF Workers
  <1>1. CASE ~(1 \in Open /\ Holds(intent[1].edits))
    BY <1>0, <1>1 DEF Recovers, IInv, TypeOK, Dated
  <1>2. CASE 1 \in Open /\ Holds(intent[1].edits)
    <2> DEFINE new == Records(intent[1].edits, intent[1].base, clock + 1)
    <2>1. ledger' = ledger \o new /\ clock' = clock + 1 /\ intent' = intent
      BY <1>2 DEF Recovers
    <2>2. intent[1] \in Batch  BY <1>0, <1>2, Pending DEF IInv
    <2>3. /\ intent[1].base \in Workbook /\ intent[1].edits \in Edits
          /\ clock + 1 \in Nat
      BY <2>2 DEF Batch, IInv, TypeOK
    <2>4. new \in Seq(Change) /\ \A i \in DOMAIN new : new[i].at = clock + 1
      BY <2>3, RecordTypes
    <2>5. \A i \in DOMAIN ledger : ledger[i].at <= clock + 1
      BY RecordDates DEF IInv, Dated, TypeOK
    <2> HIDE DEF new
    <2>6. \A i \in DOMAIN new : new[i].at <= clock + 1
      BY <2>4 DEF IInv, TypeOK
    <2> QED  BY <2>1, <2>4, <2>5, <2>6, Appended DEF IInv, TypeOK
  <1> QED  BY <1>1, <1>2

LEMMA RecoveryInv == ASSUME IInv, RecoveryStep PROVE IInv'
  <1>0. 1 \in Workers /\ 2 \in Workers /\ clock \in Nat /\ clock <= clock
        /\ owner \in Workers /\ pending \in [Workers -> Batch \union {Idle}]
    BY DEF Workers, IInv, TypeOK
  <1>1. CASE TakeOver
    <2>1. /\ owner' = 2 /\ UNCHANGED <<file, intact, damage>> /\ Recovers
          /\ pending' \in {pending, [pending EXCEPT ![1] = Idle]}
      BY <1>1 DEF TakeOver
    <2>2. /\ pending' \in [Workers -> Batch \union {Idle}]
          /\ \A v \in Workers : pending'[v] \in {pending[v], Idle}
      BY <1>0, <2>1
    <2> QED  BY <1>0, <2>1, <2>2, RecoversMeans, ForgetInv
  <1>2. CASE RecoverySettles
    <2>1. /\ intent' = [intent EXCEPT ![1] = Idle]
          /\ UNCHANGED <<file, ledger, clock, owner, pending, intact, damage>>
      BY <1>2 DEF RecoverySettles
    <2>2. /\ intent' \in [Workers -> Batch \union {Idle}]
          /\ \A v \in Workers : intent'[v] \in {intent[v], Idle}
          /\ ledger' \in Seq(Change) /\ \A i \in DOMAIN ledger' : ledger'[i].at <= clock'
      BY <2>1 DEF IInv, TypeOK, Dated
    <2> QED  BY <1>0, <2>1, <2>2, ForgetInv
  <1>3. CASE RecoversAgain
    <2>1. UNCHANGED <<file, owner, pending, intact, damage>> /\ Recovers
      BY <1>3 DEF RecoversAgain
    <2> QED  BY <1>0, <2>1, RecoversMeans, ForgetInv
  <1> QED  BY <1>1, <1>2, <1>3 DEF RecoveryStep

(* What is done outside the job touches the file, the source or nothing.    *)
LEMMA OutsideInv == ASSUME IInv, Outside PROVE IInv'
  <1>1. /\ UNCHANGED <<ledger, clock, owner, pending, intent>> /\ damage' = damage + 1
        /\ intact' \in BOOLEAN
    BY DEF Outside, CellDamaged, SheetDamaged, SourceModified, Damaged, OnlyDamage, IInv, TypeOK
  <1>2. file' \in Workbook
    <2>1. CASE CellDamaged
      <3>1. PICK c \in Cells :
              \/ \E text \in Texts : file' = [file EXCEPT !.cell[c].text = text]
              \/ \E type \in {"n", "s"} : file' = [file EXCEPT !.cell[c].type = type]
              \/ \E format \in {"@", "General"} : file' = [file EXCEPT !.cell[c].format = format]
              \/ \E wrap \in {"on", "off"} : file' = [file EXCEPT !.cell[c].wrap = wrap]
        BY <2>1 DEF CellDamaged
      <3>2. file.cell[c] \in AnyCell  BY DEF IInv, TypeOK, Workbook
      <3>3. \E x \in AnyCell : file' = [file EXCEPT !.cell[c] = x]
        BY <3>1, <3>2 DEF AnyCell, AnyText
      <3> QED  BY <3>3 DEF IInv, TypeOK, Workbook
    <2>2. CASE SheetDamaged
      <3> DEFINE Heights == \E r \in BookRows, h \in {"own", "15"} : file' = [file EXCEPT !.height[r] = h]
                 Features == \E d \in Untouchable : file' = [file EXCEPT !.other = @ \union {d}]
      <3>1. CASE Heights
        <4>1. PICK r \in BookRows, h \in AnyHeight : file' = [file EXCEPT !.height[r] = h]
          BY <3>1 DEF AnyHeight
        <4> QED  BY <4>1 DEF IInv, TypeOK, Workbook
      <3>2. CASE Features
        <4>1. PICK d \in Untouchable : file' = [file EXCEPT !.other = file.other \union {d}]
          BY <3>2 DEF IInv, TypeOK, Workbook
        <4>2. file.other \union {d} \in SUBSET Untouchable  BY DEF IInv, TypeOK, Workbook
        <4> QED  BY <4>1, <4>2 DEF IInv, TypeOK, Workbook
      <3>3. CASE file' = [file EXCEPT !.readable = FALSE]
        BY <3>3 DEF IInv, TypeOK, Workbook
      <3> QED  BY <2>2, <3>1, <3>2, <3>3 DEF SheetDamaged
    <2>3. CASE SourceModified
      BY <2>3 DEF SourceModified, IInv, TypeOK
    <2> QED  BY <2>1, <2>2, <2>3 DEF Outside
  <1>3. TypeOK'  BY <1>1, <1>2 DEF IInv, TypeOK
  <1>4. Dated'  BY <1>1 DEF IInv, Dated, HasBatch, Open
  <1>5. PlainStays'  BY <1>1 DEF IInv, TypeOK, PlainStays
  <1> QED  BY <1>3, <1>4, <1>5 DEF IInv

LEMMA StepIInv == IInv /\ [Next]_vars => IInv'
  <1> SUFFICES ASSUME IInv, [Next]_vars PROVE IInv'  OBVIOUS
  <1>1. CASE UNCHANGED vars
    BY <1>1 DEF vars, IInv, TypeOK, Dated, PlainStays, Open, HasBatch, KeepsPlain, Plain, Source
  <1> QED  BY <1>1, BeginInv, SaveInv, RecordInv, SettleInv, RecoveryInv, OutsideInv DEF Next, WorkerStep

(* The file and what each worker loaded of it stay sound cell by cell, whoever
   saves over whom (workbook/writer.py: apply_edits).                       *)
THEOREM Invariance == Spec => []IInv
  BY InitIInv, StepIInv, PTL DEF Spec

(* The working copy stays a workbook and the log a log, whatever is damaged. *)
THEOREM TypeCorrect == Spec => []TypeOK
  <1>1. IInv => TypeOK  BY DEF IInv
  <1> QED  BY Invariance, <1>1, PTL

-----------------------------------------------------------------------------
(* A set of naturals with a bound has a greatest element.                   *)
LEMMA Greatest ==
  ASSUME NEW S \in SUBSET Nat, S # {}, NEW n \in Nat, \A s \in S : s <= n
  PROVE  \E m \in S : \A s \in S : s <= m
  <1> DEFINE T == {n - s : s \in S}
  <1>1. T \subseteq Nat /\ T # {}
    <2>1. \A s \in S : n - s \in Nat  OBVIOUS
    <2> QED  BY <2>1
  <1>2. \E x \in T : \A y \in T : ~(<<y, x>> \in OpToRel(<, Nat))
    <2> HIDE DEF T
    <2> QED  BY <1>1, NatLessThanWellFounded, WFMin
  <1>3. PICK x \in T : \A y \in T : ~(y < x)
    BY <1>1, <1>2 DEF OpToRel
  <1>4. PICK m \in S : x = n - m  OBVIOUS
  <1>5. ASSUME NEW s \in S PROVE s <= m
    <2>1. n - s \in T  OBVIOUS
    <2> HIDE DEF T
    <2>2. ~(n - s < n - m)  BY <1>3, <1>4, <2>1
    <2>3. s \in Nat /\ m \in Nat  OBVIOUS
    <2> QED  BY <2>2, <2>3
  <1> QED  BY <1>5

(* The last record of an edited cell, by its time and then its place.       *)
LEMMA LatestIsLast ==
  ASSUME IInv, NEW c \in EditedCells
  PROVE  /\ Latest(c) \in HistoryOf(c)
         /\ \A j \in HistoryOf(c) \ {Latest(c)} : Earlier(j, Latest(c))
         /\ \A j \in HistoryOf(c) : ledger[j].at <= ledger[Latest(c)].at
  <1> DEFINE H == HistoryOf(c)
             D == {ledger[i].at : i \in H}
  <1>1. /\ H \subseteq 1..Len(ledger) /\ H # {} /\ Len(ledger) \in Nat
        /\ \A i \in H : ledger[i].at \in Nat /\ ledger[i].at <= clock
    BY RecordDates DEF IInv, TypeOK, Dated, HistoryOf, EditedCells
  <1>2. PICK m \in D : \A d \in D : d <= m
    <2>1. D \in SUBSET Nat /\ D # {} /\ \A d \in D : d <= clock  BY <1>1
    <2>2. clock \in Nat  BY DEF IInv, TypeOK
    <2> HIDE DEF D
    <2> QED  BY <2>1, <2>2, Greatest
  <1> DEFINE L == {i \in H : ledger[i].at = m}
  <1>3. PICK k \in L : \A i \in L : i <= k
    <2>1. L \in SUBSET Nat /\ L # {} /\ \A i \in L : i <= Len(ledger)  BY <1>1, <1>2
    <2> HIDE DEF L
    <2> QED  BY <1>1, <2>1, Greatest
  <1>4. ASSUME NEW j \in H \ {k} PROVE Earlier(j, k)
    <2>1. ledger[j].at \in D /\ ledger[j].at <= m  BY <1>2
    <2>2. ledger[k].at = m /\ ledger[j].at \in Nat /\ j \in Nat /\ k \in Nat  BY <1>1, <1>3
    <2>3. CASE ledger[j].at = m
      <3>1. j <= k /\ j # k  BY <1>3, <2>3
      <3> QED  BY <2>2, <2>3, <3>1 DEF Earlier
    <2>4. CASE ledger[j].at # m
      <3>1. m \in Nat  BY <2>2, <1>1, <1>3
      <3> HIDE DEF D
      <3>2. ledger[j].at < ledger[k].at  BY <2>1, <2>2, <2>4, <3>1
      <3> QED  BY <3>2 DEF Earlier
    <2> QED  BY <2>3, <2>4
  <1>5. /\ Latest(c) \in H /\ \A j \in H \ {Latest(c)} : Earlier(j, Latest(c))
    BY <1>3, <1>4 DEF Latest
  <1>6. \A j \in H : ledger[j].at <= ledger[Latest(c)].at
    BY <1>1, <1>5 DEF Earlier
  <1> QED  BY <1>5, <1>6

(* A difference of a cell is among those the gate looks at.                 *)
LEMMA Seen ==
  ASSUME NEW c \in Cells, NEW d \in CellDimensions, Source.cell[c][d] # file.cell[c][d],
         d # "type"
  PROVE  Difference(d, c, Source.cell[c][d], file.cell[c][d]) \in Differences
  <1>1. <<c, d>> \in {p \in Cells \X CellDimensions :
            /\ Source.cell[p[1]][p[2]] # file.cell[p[1]][p[2]]
            /\ ~(p[2] = "type" /\ BothEmpty(p[1]))}
    OBVIOUS
  <1> QED  BY <1>1 DEF Differences, CellDifferences

(* A workbook the gate passes differs from the submitted one as the change
   log says and no otherwise: final_gate.run_final_gate is enough, whatever
   stalled workers wrote and whatever was done to the file.                 *)
THEOREM GateIsSound == Spec => []NothingUnrecorded
  <1>1. IInv => NothingUnrecorded
    <2> SUFFICES ASSUME IInv, Passed PROVE NothingUnrecorded
      BY DEF NothingUnrecorded
    <2>1. \A d \in Differences : Explained(d)
      BY DEF Passed, Unexplained
    <2>2. file.other = {}
      <3> SUFFICES ASSUME NEW o \in file.other PROVE FALSE
        OBVIOUS
      <3> DEFINE d == Difference(o, <<>>, "as submitted", "changed")
      <3>1. Explained(d)
        BY <2>1 DEF Differences, FeatureDifferences
      <3>2. d.at = <<>> /\ d.after = "changed"  BY DEF Difference
      <3>3. d.at \notin EditedCells
        <4> HIDE DEF d
        <4>1. EditedCells \subseteq Cells  BY RecordDates DEF EditedCells, IInv
        <4>2. <<>> \notin Cells  BY DEF Cells
        <4> QED  BY <3>2, <4>1, <4>2
      <3> QED  BY <3>1, <3>2, <3>3 DEF Explained
    <2>3. ASSUME NEW c \in Cells, NEW dim \in {"text", "format", "wrap"},
                 file.cell[c][dim] # Source.cell[c][dim]
          PROVE  LET d == Difference(dim, c, Source.cell[c][dim], file.cell[c][dim])
                 IN  Explained(d) /\ d.dimension = dim /\ d.at = c /\ d.after = file.cell[c][dim]
      <3>1. dim \in CellDimensions /\ dim # "type"  BY DEF CellDimensions
      <3>2. Difference(dim, c, Source.cell[c][dim], file.cell[c][dim]) \in Differences
        BY <2>3, <3>1, Seen
      <3> QED  BY <2>1, <3>2 DEF Difference
    <2>4. ASSUME NEW c \in Cells, file.cell[c].text # Source.cell[c].text
          PROVE  \E i \in DOMAIN ledger :
                   /\ ledger[i].cell = c /\ ledger[i].after = file.cell[c].text
                   /\ \A j \in DOMAIN ledger : ledger[j].cell = c => ledger[j].at <= ledger[i].at
      <3> DEFINE d == Difference("text", c, Source.cell[c].text, file.cell[c].text)
      <3>1. Explained(d) /\ d.dimension = "text" /\ d.at = c /\ d.after = file.cell[c].text
        BY <2>3, <2>4
      <3> HIDE DEF d
      <3>2. c \in EditedCells /\ NetChange(c) = [before |-> d.before, after |-> d.after]
        BY <3>1 DEF Explained
      <3>3. ledger[Latest(c)].after = file.cell[c].text
        BY <3>1, <3>2 DEF NetChange
      <3>4. /\ Latest(c) \in HistoryOf(c)
            /\ \A j \in HistoryOf(c) \ {Latest(c)} : Earlier(j, Latest(c))
         /\ \A j \in HistoryOf(c) : ledger[j].at <= ledger[Latest(c)].at
        BY <3>2, LatestIsLast
      <3> QED  BY <3>3, <3>4 DEF HistoryOf
    <2>5. ASSUME NEW c \in Cells, file.cell[c].format # Source.cell[c].format
          PROVE  c \in EditedCells /\ ColumnOf(c) \in Forced /\ file.cell[c].format = "@"
      <3> DEFINE d == Difference("format", c, Source.cell[c].format, file.cell[c].format)
      <3>1. Explained(d) /\ d.dimension = "format" /\ d.at = c /\ d.after = file.cell[c].format
        BY <2>3, <2>5
      <3> HIDE DEF d
      <3> QED  BY <3>1 DEF Explained
    <2>6. ASSUME NEW c \in Cells, file.cell[c].wrap # Source.cell[c].wrap
          PROVE  RowOf(c) \in {RowOf(x) : x \in EditedCells}
      <3> DEFINE d == Difference("wrap", c, Source.cell[c].wrap, file.cell[c].wrap)
      <3>1. Explained(d) /\ d.dimension = "wrap" /\ d.at = c
        BY <2>3, <2>6
      <3> HIDE DEF d
      <3> QED  BY <3>1 DEF Explained
    <2> QED  BY <2>2, <2>4, <2>5, <2>6 DEF NothingUnrecorded
  <1> QED  BY <1>1, Invariance, PTL

(* A recorded edit that a stalled save took out again fails the gate, in any
   cell whose appearance and type an edit leaves alone.                     *)
THEOREM LossIsCaught == Spec => []LostWriteCaught
  <1>1. IInv => LostWriteCaught
    <2> SUFFICES ASSUME IInv, damage = 0, NEW c \in Cells, LostAt(c), Plain(c)
                 PROVE  ~Passed
      BY DEF LostWriteCaught
    <2>1. /\ file.cell[c].text = Source.cell[c].text
          /\ file.cell[c].wrap = Source.cell[c].wrap
          /\ file.cell[c].format = Source.cell[c].format
          /\ file.cell[c].type = Source.cell[c].type \/ BothEmpty(c)
      BY DEF IInv, PlainStays, KeepsPlain, Plain, LostAt, BothEmpty
    <2>2. c \notin ChangedCells
      <3> SUFFICES ASSUME NEW d \in CellDifferences, d.at = c PROVE FALSE
        BY DEF ChangedCells
      <3>1. PICK x \in Cells \X CellDimensions :
              /\ Source.cell[x[1]][x[2]] # file.cell[x[1]][x[2]]
              /\ ~(x[2] = "type" /\ BothEmpty(x[1]))
              /\ d = Difference(x[2], x[1], Source.cell[x[1]][x[2]], file.cell[x[1]][x[2]])
        BY DEF CellDifferences
      <3>2. x[1] = c  BY <3>1 DEF Difference
      <3>3. x[2] \in {"text", "type", "format", "wrap"}  BY DEF CellDimensions
      <3> QED  BY <2>1, <3>1, <3>2, <3>3
    <2>3. c \in ChangesNotPresent  BY <2>2 DEF ChangesNotPresent, LostAt
    <2> QED  BY <2>3 DEF Passed
  <1> QED  BY <1>1, Invariance, PTL
-----------------------------------------------------------------------------
(* Where texts come from, as long as nobody damages the file.               *)

(* By the log and the saves that wait for their records, c was written before
   the time k.                                                              *)
WrittenBefore(log, batches, c, k) ==
    \/ \E i \in DOMAIN log : log[i].cell = c /\ log[i].at < k
    \/ \E w \in Workers : /\ batches[w].stage = "saved"
                          /\ c \in DOMAIN batches[w].edits /\ batches[w].at < k

(* A text of f that is not the submitted one was written before k.          *)
Traced(f, log, batches, k) ==
    \A c \in Cells : f.cell[c].text # SourceCell[c].text => WrittenBefore(log, batches, c, k)

TracedRecords(log, batches) ==
    \A i \in DOMAIN log :
        log[i].before # SourceCell[log[i].cell].text
            => WrittenBefore(log, batches, log[i].cell, log[i].at)

(* The file, what a worker loaded, what an open intent found and what a record
   starts from.                                                             *)
Origins ==
    /\ Traced(file, ledger, pending, clock + 1)
    /\ \A w \in Workers : HasBatch(w) => Traced(pending[w].base, ledger, pending, pending[w].at)
    /\ \A w \in Open : Traced(intent[w].base, ledger, pending, intent[w].at)
    /\ TracedRecords(ledger, pending)

(* Until the take-over there is one worker: its intent is open as long as it
   has a batch, no record is younger, and what it saved is in the file.     *)
FirstOwner ==
    owner = 1 =>
        /\ pending[2] = Idle /\ 2 \notin Open
        /\ 1 \in Open => HasBatch(1)
        /\ HasBatch(1) => /\ 1 \in Open
                          /\ intent[1].base = pending[1].base
                          /\ intent[1].edits = pending[1].edits
                          /\ intent[1].at = pending[1].at
                          /\ \A i \in DOMAIN ledger : ledger[i].at <= pending[1].at
                          /\ pending[1].stage = "saved" => Holds(pending[1].edits)

History == damage = 0 => intact /\ Origins /\ FirstOwner

-----------------------------------------------------------------------------
(* SetToSeq leaves nothing out.                                             *)
LEMMA ListedAll ==
  ASSUME NEW S, IsFiniteSet(S), NEW x \in S
  PROVE  \E i \in DOMAIN SetToSeq(S) : SetToSeq(S)[i] = x
  <1> DEFINE n == Cardinality(S)
  <1>1. n \in Nat /\ ExistsBijection(1..n, S)
    BY FS_CardinalityType
  <1>2. \E f \in [1..n -> S] : IsInjective(f)
    BY <1>1 DEF ExistsBijection, Bijection, Injection, Surjection
  <1>3. SetToSeq(S) \in [1..n -> S] /\ IsInjective(SetToSeq(S))
    BY <1>2 DEF SetToSeq
  <1>4. SetToSeq(S) \in Injection(1..n, S)
    BY <1>3 DEF Injection, IsInjective
  <1>5. Cardinality(1..n) = n
    <2> HIDE DEF n
    <2>1. 1 - 1 <= n  BY <1>1
    <2> QED  BY <1>1, FS_Interval
  <1>6. SetToSeq(S) \in Surjection(1..n, S)
    BY <1>4, <1>5, FS_Injection
  <1>7. \E i \in 1..n : SetToSeq(S)[i] = x
    BY <1>6 DEF Surjection
  <1> QED  BY <1>3, <1>7

(* A batch has one record for each of its cells.                            *)
LEMMA RecordsMean ==
  ASSUME NEW base \in Workbook, NEW e \in Edits, NEW at \in Nat
  PROVE  LET R == Records(e, base, at)
         IN  /\ \A j \in DOMAIN R : /\ R[j].cell \in DOMAIN e /\ R[j].at = at
                                    /\ R[j].before = base.cell[R[j].cell].text
             /\ \A c \in DOMAIN e : \E j \in DOMAIN R : R[j].cell = c /\ R[j].at = at
  <1> DEFINE ch == Changes(e, base, at)
             T == {ch[c] : c \in DOMAIN e}
  <1>1. \A c \in DOMAIN e : /\ ch[c].cell = c /\ ch[c].at = at
                            /\ ch[c].before = base.cell[c].text
    BY DEF Changes
  <1>2. IsFiniteSet(T)
    <2>1. IsFiniteSet(DOMAIN e)  BY EditTypes
    <2>2. ch \in [DOMAIN e -> T]  BY DEF Changes
    <2>3. \A t \in T : \E c \in DOMAIN e : ch[c] = t  OBVIOUS
    <2> HIDE DEF ch, T
    <2>4. ch \in Surjection(DOMAIN e, T)  BY <2>2, <2>3 DEF Surjection
    <2> QED  BY <2>1, <2>4, FS_Surjection
  <1>3. Records(e, base, at) = SetToSeq(T)  BY DEF Records
  <1>4. \A t \in T : \E c \in DOMAIN e : t = ch[c]  OBVIOUS
  <1>5. \A c \in DOMAIN e : ch[c] \in T  OBVIOUS
  <1> HIDE DEF T, ch
  <1>6. \A j \in DOMAIN SetToSeq(T) : SetToSeq(T)[j] \in T
    BY <1>2, Listed, ElementOfSeq
  <1>7. \A t \in T : \E j \in DOMAIN SetToSeq(T) : SetToSeq(T)[j] = t
    BY <1>2, ListedAll
  <1>8. ASSUME NEW j \in DOMAIN SetToSeq(T)
        PROVE  LET r == SetToSeq(T)[j]
               IN  r.cell \in DOMAIN e /\ r.at = at /\ r.before = base.cell[r.cell].text
    BY <1>1, <1>4, <1>6
  <1>9. ASSUME NEW c \in DOMAIN e
        PROVE  \E j \in DOMAIN SetToSeq(T) : SetToSeq(T)[j].cell = c /\ SetToSeq(T)[j].at = at
    BY <1>1, <1>5, <1>7
  <1> QED  BY <1>3, <1>8, <1>9

LEMMA Concatenated ==
  ASSUME NEW s \in Seq(Change), NEW t \in Seq(Change)
  PROVE  /\ \A i \in DOMAIN s : i \in DOMAIN (s \o t) /\ (s \o t)[i] = s[i]
         /\ \A j \in DOMAIN t : \E i \in DOMAIN (s \o t) : (s \o t)[i] = t[j]
         /\ \A i \in DOMAIN (s \o t) : i \in DOMAIN s \/ \E j \in DOMAIN t : (s \o t)[i] = t[j]
  <1>1. \A i \in DOMAIN s : i \in DOMAIN (s \o t) /\ (s \o t)[i] = s[i]  OBVIOUS
  <1>2. ASSUME NEW j \in DOMAIN t
        PROVE  \E i \in DOMAIN (s \o t) : (s \o t)[i] = t[j]
    <2>1. Len(s) + j \in DOMAIN (s \o t) /\ (s \o t)[Len(s) + j] = t[j]  OBVIOUS
    <2> QED  BY <2>1
  <1>3. ASSUME NEW i \in DOMAIN (s \o t), i \notin DOMAIN s
        PROVE  \E j \in DOMAIN t : (s \o t)[i] = t[j]
    <2>1. i - Len(s) \in DOMAIN t /\ (s \o t)[i] = t[i - Len(s)]  BY <1>3
    <2> QED  BY <2>1
  <1> QED  BY <1>1, <1>2, <1>3

(* The texts of an edited workbook.                                         *)
LEMMA EditedTexts ==
  ASSUME NEW base \in Workbook, NEW e, NEW c \in Cells
  PROVE  Edited(base, e).cell[c].text = IF c \in DOMAIN e THEN e[c] ELSE base.cell[c].text
  <1> DEFINE W == IF c \in DOMAIN e THEN WrittenCell(base.cell[c], ColumnOf(c), e[c])
                                    ELSE base.cell[c]
             U == Unwrapped(W, RowOf(c), e)
  <1>1. base.cell[c] \in AnyCell /\ DOMAIN base = {"cell", "height", "other", "readable"}
    BY DEF Workbook
  <1>2. Edited(base, e).cell[c] = Saved(U)  BY <1>1 DEF Edited
  <1>3. /\ W.text = IF c \in DOMAIN e THEN e[c] ELSE base.cell[c].text
        /\ DOMAIN W = {"text", "type", "format", "wrap"}
    BY <1>1 DEF WrittenCell, AnyCell
  <1> HIDE DEF W
  <1>4. U.text = W.text /\ DOMAIN U = {"text", "type", "format", "wrap"}
    BY <1>3 DEF Unwrapped
  <1> HIDE DEF U
  <1>5. Saved(U).text = U.text  BY <1>4 DEF Saved
  <1> QED  BY <1>2, <1>3, <1>4, <1>5

(* A later time has more before it.                                         *)
LEMMA Later ==
  ASSUME IInv, NEW c, NEW k \in Nat, NEW m \in Nat, k <= m,
         WrittenBefore(ledger, pending, c, k)
  PROVE  WrittenBefore(ledger, pending, c, m)
  <1>1. \A i \in DOMAIN ledger : ledger[i].at \in Nat  BY RecordDates DEF IInv
  <1>2. \A w \in Workers : pending[w].stage = "saved" => pending[w].at \in Nat
    BY Pending DEF IInv, HasBatch, Batch
  <1>3. CASE \E i \in DOMAIN ledger : ledger[i].cell = c /\ ledger[i].at < k
    BY <1>1, <1>3 DEF WrittenBefore
  <1>4. CASE \E w \in Workers : /\ pending[w].stage = "saved"
                                /\ c \in DOMAIN pending[w].edits /\ pending[w].at < k
    BY <1>2, <1>4 DEF WrittenBefore
  <1> QED  BY <1>3, <1>4 DEF WrittenBefore

(* A step that takes nothing out keeps what is traced.                      *)
LEMMA Carried ==
  ASSUME NEW f, NEW log, NEW batches, NEW log2, NEW batches2, NEW k, NEW m,
         Traced(f, log, batches, k),
         \A c \in Cells : WrittenBefore(log, batches, c, k) => WrittenBefore(log2, batches2, c, m)
  PROVE  Traced(f, log2, batches2, m)
  BY DEF Traced

-----------------------------------------------------------------------------
LEMMA InitHistory == Init => History
  <1> SUFFICES ASSUME Init PROVE History  OBVIOUS
  <1>1. Idle \notin Batch  BY DEF Idle, Batch
  <1>2. /\ ledger = <<>> /\ \A w \in Workers : ~HasBatch(w)
        /\ file.cell = SourceCell /\ pending[2] = Idle /\ Open = {}
    BY <1>1 DEF Init, HasBatch, Source, Workers, Open
  <1>3. Origins  BY <1>2 DEF Origins, Traced, TracedRecords
  <1>4. FirstOwner  BY <1>2 DEF FirstOwner, Workers
  <1> QED  BY <1>3, <1>4 DEF History, Init

(* A step keeps the origins when what was written stays written, and what it
   leaves of batches and intents was there.                                 *)
LEMMA OriginsStay ==
  ASSUME IInv, Origins,
         Traced(file', ledger', pending', clock' + 1),
         \A c \in Cells : \A k : WrittenBefore(ledger, pending, c, k)
                               => WrittenBefore(ledger', pending', c, k),
         \A v \in Workers : pending'[v] \in Batch =>
             HasBatch(v) /\ pending'[v].base = pending[v].base /\ pending'[v].at = pending[v].at,
         \A v \in Workers : intent'[v] \in {intent[v], Idle},
         TracedRecords(ledger', pending')
  PROVE  Origins'
  <1>1. ASSUME NEW v \in Workers, pending'[v] \in Batch
        PROVE  Traced(pending'[v].base, ledger', pending', pending'[v].at)
    <2>1. HasBatch(v) /\ pending'[v].base = pending[v].base /\ pending'[v].at = pending[v].at
      BY <1>1
    <2>2. Traced(pending[v].base, ledger, pending, pending[v].at)
      BY <2>1 DEF Origins
    <2>3. Traced(pending[v].base, ledger', pending', pending[v].at)
      BY <2>2, Carried
    <2> QED  BY <2>1, <2>3
  <1>2. ASSUME NEW v \in Open'
        PROVE  Traced(intent'[v].base, ledger', pending', intent'[v].at)
    <2>1. v \in Open /\ intent'[v] = intent[v]  BY <1>2 DEF Open
    <2>2. Traced(intent[v].base, ledger, pending, intent[v].at)  BY <2>1 DEF Origins
    <2>3. Traced(intent[v].base, ledger', pending', intent[v].at)  BY <2>2, Carried
    <2> QED  BY <2>1, <2>3
  <1> QED  BY <1>1, <1>2 DEF Origins, HasBatch

(* Records that nothing was appended to stay traced.                        *)
LEMMA RecordsStay ==
  ASSUME IInv, TracedRecords(ledger, pending), ledger' = ledger,
         \A c \in Cells : \A k : WrittenBefore(ledger, pending, c, k)
                               => WrittenBefore(ledger', pending', c, k)
  PROVE  TracedRecords(ledger', pending')
  <1>1. \A i \in DOMAIN ledger : ledger[i].cell \in Cells  BY RecordDates DEF IInv
  <1> QED  BY <1>1 DEF TracedRecords

(* The records of a batch b that found what was traced before k.            *)
LEMMA AppendedRecords ==
  ASSUME IInv, TracedRecords(ledger, pending),
         NEW base \in Workbook, NEW edits \in Edits, NEW at \in Nat, NEW k \in Nat, k <= at,
         Traced(base, ledger, pending, k),
         ledger' = ledger \o Records(edits, base, at),
         \A v \in Workers : \/ pending'[v].stage = "saved" /\ pending'[v] = pending[v]
                            \/ pending[v].stage # "saved"
                            \/ pending[v].edits = edits /\ at = pending[v].at
  PROVE  /\ \A c \in Cells : \A m : WrittenBefore(ledger, pending, c, m)
                                  => WrittenBefore(ledger', pending', c, m)
         /\ TracedRecords(ledger', pending')
         /\ \A i \in DOMAIN ledger' : i \in DOMAIN ledger \/ ledger'[i].at = at
         /\ \A i \in DOMAIN ledger : i \in DOMAIN ledger' /\ ledger'[i] = ledger[i]
  <1> DEFINE new == Records(edits, base, at)
  <1>1. /\ new \in Seq(Change) /\ ledger \in Seq(Change)
        /\ \A j \in DOMAIN new : /\ new[j].cell \in DOMAIN edits /\ new[j].at = at
                                 /\ new[j].before = base.cell[new[j].cell].text
        /\ \A c \in DOMAIN edits : \E j \in DOMAIN new : new[j].cell = c /\ new[j].at = at
    <2>1. ledger \in Seq(Change)  BY DEF IInv, TypeOK
    <2>2. new \in Seq(Change)  BY RecordTypes
    <2> QED  BY ONLY <2>1, <2>2, base \in Workbook, edits \in Edits, at \in Nat, RecordsMean DEF new
  <1> HIDE DEF new
  <1>2. ledger' = ledger \o new  BY DEF new
  <1>3. /\ \A i \in DOMAIN ledger : i \in DOMAIN ledger' /\ ledger'[i] = ledger[i]
        /\ \A j \in DOMAIN new : \E i \in DOMAIN ledger' : ledger'[i] = new[j]
        /\ \A i \in DOMAIN ledger' : i \in DOMAIN ledger \/ \E j \in DOMAIN new : ledger'[i] = new[j]
    BY ONLY <1>1, <1>2, Concatenated
  <1>4. ASSUME NEW c \in Cells, NEW m, WrittenBefore(ledger, pending, c, m)
        PROVE  WrittenBefore(ledger', pending', c, m)
    <2>1. CASE \E i \in DOMAIN ledger : ledger[i].cell = c /\ ledger[i].at < m
      BY <1>3, <2>1 DEF WrittenBefore
    <2>2. ASSUME NEW v \in Workers, pending[v].stage = "saved",
                 c \in DOMAIN pending[v].edits, pending[v].at < m
          PROVE  WrittenBefore(ledger', pending', c, m)
      <3>1. CASE pending'[v].stage = "saved" /\ pending'[v] = pending[v]
        BY <2>2, <3>1 DEF WrittenBefore
      <3>2. CASE pending[v].edits = edits /\ at = pending[v].at
        <4>1. PICK j \in DOMAIN new : new[j].cell = c /\ new[j].at = at  BY <1>1, <2>2, <3>2
        <4> QED  BY <1>3, <2>2, <3>2, <4>1 DEF WrittenBefore
      <3> QED  BY <2>2, <3>1, <3>2
    <2> QED  BY <1>4, <2>1, <2>2 DEF WrittenBefore
  <1>5. TracedRecords(ledger', pending')
    <2> SUFFICES ASSUME NEW i \in DOMAIN ledger',
                        ledger'[i].before # SourceCell[ledger'[i].cell].text
                 PROVE  WrittenBefore(ledger', pending', ledger'[i].cell, ledger'[i].at)
      BY DEF TracedRecords
    <2>1. CASE i \in DOMAIN ledger
      <3>1. ledger'[i] = ledger[i] /\ ledger[i].cell \in Cells
        BY <1>3, <2>1, RecordDates DEF IInv
      <3>2. WrittenBefore(ledger, pending, ledger[i].cell, ledger[i].at)
        BY <2>1, <3>1 DEF TracedRecords
      <3> QED  BY <1>4, <3>1, <3>2
    <2>2. CASE i \notin DOMAIN ledger
      <3>1. PICK j \in DOMAIN new : ledger'[i] = new[j]  BY <1>3, <2>2
      <3>2. new[j].cell \in Cells  BY <1>1, EditTypes
      <3>3. WrittenBefore(ledger, pending, new[j].cell, k)  BY <1>1, <3>1, <3>2 DEF Traced
      <3>4. WrittenBefore(ledger, pending, new[j].cell, at)  BY <3>3, Later
      <3> QED  BY <1>1, <1>4, <3>1, <3>2, <3>4
    <2> QED  BY <2>1, <2>2
  <1>6. \A i \in DOMAIN ledger' : i \in DOMAIN ledger \/ ledger'[i].at = at
    BY <1>1, <1>3
  <1> QED  BY <1>3, <1>4, <1>5, <1>6

LEMMA BeginHistory == ASSUME IInv, History, NEW w \in Workers, Begin(w) PROVE History'
  <1> SUFFICES ASSUME damage' = 0 PROVE (intact /\ Origins /\ FirstOwner)'
    BY DEF History
  <1>0. damage = 0 /\ Origins /\ FirstOwner /\ intact  BY Begun DEF History
  <1>1. /\ pending'[w] \in Batch /\ pending'[w].stage = "loaded"
        /\ pending'[w].base = file /\ pending'[w].at = clock + 1
        /\ pending' = [pending EXCEPT ![w] = pending'[w]]
        /\ intent' = [intent EXCEPT ![w] = pending'[w]]
        /\ clock' = clock + 1 /\ pending[w] = Idle /\ w = owner /\ Open = {}
        /\ UNCHANGED <<file, ledger, owner, intact, damage>>
    BY Begun
  <1>2. /\ \A v \in Workers \ {w} : pending'[v] = pending[v] /\ intent'[v] = Idle
        /\ intent'[w] = pending'[w]
    BY <1>1 DEF IInv, TypeOK, Open
  <1>3. \A c \in Cells : \A k : WrittenBefore(ledger, pending, c, k)
                               => WrittenBefore(ledger, pending', c, k)
    BY <1>1, <1>2 DEF WrittenBefore, Idle
  <1>4. clock + 1 \in Nat /\ clock + 2 \in Nat /\ clock + 1 <= clock + 2  BY DEF IInv, TypeOK
  <1>5. Traced(file, ledger, pending', clock + 1)
    BY <1>0, <1>3, Carried DEF Origins
  <1>6. Traced(file, ledger, pending', clock + 2)
    <2>1. \A c \in Cells : WrittenBefore(ledger, pending, c, clock + 1)
                              => WrittenBefore(ledger, pending', c, clock + 2)
      BY <1>3, <1>4, Later
    <2> QED  BY <1>0, <2>1, Carried DEF Origins
  <1>7. ASSUME NEW v \in Workers, pending'[v] \in Batch
        PROVE  Traced(pending'[v].base, ledger, pending', pending'[v].at)
    <2>1. CASE v = w  BY <1>1, <1>5, <2>1
    <2>2. CASE v # w
      <3>1. pending'[v] = pending[v]  BY <1>2, <2>2
      <3>2. Traced(pending[v].base, ledger, pending, pending[v].at)
        BY <1>0, <1>7, <3>1 DEF Origins, HasBatch
      <3>3. Traced(pending[v].base, ledger, pending', pending[v].at)
        BY <1>3, <3>2, Carried
      <3> QED  BY <3>1, <3>3
    <2> QED  BY <2>1, <2>2
  <1>8. ASSUME NEW v \in Open'
        PROVE  Traced(intent'[v].base, ledger, pending', intent'[v].at)
    <2>1. v = w  BY <1>2, <1>8 DEF Open
    <2> QED  BY <1>1, <1>2, <1>5, <2>1
  <1>9. TracedRecords(ledger, pending')
    BY <1>0, <1>1, <1>3, RecordsStay DEF Origins
  <1>10. clock' + 1 = clock + 2  BY <1>1 DEF IInv, TypeOK
  <1>11. Origins'  BY <1>1, <1>6, <1>7, <1>8, <1>9, <1>10 DEF Origins, HasBatch
  <1>12. FirstOwner'
    <2> SUFFICES ASSUME owner = 1 PROVE FirstOwner'  BY <1>1 DEF FirstOwner
    <2>1. w = 1 /\ pending'[2] = Idle /\ intent'[2] = Idle
      BY <1>0, <1>1, <1>2 DEF FirstOwner, Workers
    <2>2. \A i \in DOMAIN ledger : ledger[i].at <= clock + 1
      BY RecordDates DEF IInv, Dated, TypeOK
    <2>3. 1 \in Open' /\ 2 \notin Open'
      <3>1. Idle \notin Batch  BY DEF Idle, Batch
      <3> QED  BY <1>1, <1>2, <2>1, <3>1 DEF Open, Workers
    <2> QED  BY <1>1, <1>2, <2>1, <2>2, <2>3 DEF FirstOwner, HasBatch
  <1> QED  BY <1>0, <1>1, <1>11, <1>12

LEMMA SaveHistory == ASSUME IInv, History, NEW w \in Workers, Save(w) PROVE History'
  <1> SUFFICES ASSUME damage' = 0 PROVE (intact /\ Origins /\ FirstOwner)'
    BY DEF History
  <1>0. damage = 0 /\ Origins /\ FirstOwner /\ intact  BY DEF Save, History
  <1>1. HasBatch(w)  BY Pending DEF Save, IInv
  <1> DEFINE base == pending[w].base
             edits == pending[w].edits
  <1>2. /\ base \in Workbook /\ edits \in Edits /\ pending[w].at \in Nat
        /\ pending[w].at <= clock /\ clock \in Nat
    BY <1>1 DEF HasBatch, Batch, IInv, Dated, TypeOK
  <1>3. /\ file' = Edited(base, edits)
        /\ pending' = [pending EXCEPT ![w].stage = "saved"]
        /\ UNCHANGED <<ledger, clock, owner, intent, intact, damage>>
    BY DEF Save
  <1>4. /\ pending'[w] \in Batch /\ pending'[w].stage = "saved" /\ pending'[w].base = base
        /\ pending'[w].edits = edits /\ pending'[w].at = pending[w].at
        /\ \A v \in Workers \ {w} : pending'[v] = pending[v]
    BY <1>1, <1>3, Staged
  <1>5. \A c \in Cells : \A k : WrittenBefore(ledger, pending, c, k)
                               => WrittenBefore(ledger, pending', c, k)
    <2> SUFFICES ASSUME NEW c \in Cells, NEW k, NEW v \in Workers, pending[v].stage = "saved",
                        c \in DOMAIN pending[v].edits, pending[v].at < k
                 PROVE  WrittenBefore(ledger, pending', c, k)
      BY DEF WrittenBefore
    <2>1. /\ pending'[v].stage = "saved" /\ pending'[v].edits = pending[v].edits
          /\ pending'[v].at = pending[v].at
      BY <1>4
    <2> QED  BY <2>1 DEF WrittenBefore
  <1>6. Traced(file', ledger, pending', clock + 1)
    <2> SUFFICES ASSUME NEW c \in Cells, file'.cell[c].text # SourceCell[c].text
                 PROVE  WrittenBefore(ledger, pending', c, clock + 1)
      BY DEF Traced
    <2>1. CASE c \in DOMAIN edits
      <3>1. pending[w].at < clock + 1  BY <1>2
      <3> QED  BY <1>4, <2>1, <3>1 DEF WrittenBefore
    <2>2. CASE c \notin DOMAIN edits
      <3>1. file'.cell[c].text = base.cell[c].text  BY <1>2, <1>3, <2>2, EditedTexts
      <3>2. WrittenBefore(ledger, pending, c, pending[w].at)
        BY <1>0, <1>1, <3>1 DEF Origins, Traced
      <3>3. WrittenBefore(ledger, pending, c, clock + 1)
        <4>1. clock + 1 \in Nat /\ pending[w].at <= clock + 1  BY <1>2
        <4> QED  BY <1>2, <3>2, <4>1, Later
      <3> QED  BY <1>5, <3>3
    <2> QED  BY <2>1, <2>2
  <1>7. TracedRecords(ledger', pending')
    BY <1>0, <1>3, <1>5, RecordsStay DEF Origins
  <1>8. Origins'
    <2>1. Traced(file', ledger', pending', clock' + 1)  BY <1>3, <1>6
    <2>2. \A v \in Workers : pending'[v] \in Batch =>
              HasBatch(v) /\ pending'[v].base = pending[v].base /\ pending'[v].at = pending[v].at
      BY <1>1, <1>4 DEF HasBatch
    <2> QED  BY <1>0, <1>3, <1>5, <1>7, <2>1, <2>2, OriginsStay
  <1>9. FirstOwner'
    <2> SUFFICES ASSUME owner = 1 PROVE FirstOwner'  BY <1>3 DEF FirstOwner
    <2>1. pending[2] = Idle /\ w = 1 /\ pending'[2] = Idle
      BY <1>0, <1>4 DEF FirstOwner, Workers, Save, Idle
    <2>2. ASSUME NEW c \in DOMAIN edits PROVE file'.cell[c].text = edits[c]
      <3>1. c \in Cells  BY <1>2, EditTypes
      <3> QED  BY <1>2, <1>3, <3>1, EditedTexts
    <2>3. HasBatch(1) /\ HasBatch(1)' /\ Open' = Open
      BY <1>1, <1>3, <1>4, <2>1 DEF HasBatch, Open
    <2> QED  BY <1>0, <1>3, <1>4, <2>1, <2>2, <2>3 DEF FirstOwner, Holds
  <1> QED  BY <1>0, <1>3, <1>8, <1>9

LEMMA RecordHistory == ASSUME IInv, History, NEW w \in Workers, Record(w) PROVE History'
  <1> SUFFICES ASSUME damage' = 0 PROVE (intact /\ Origins /\ FirstOwner)'
    BY DEF History
  <1>0. damage = 0 /\ Origins /\ FirstOwner /\ intact  BY DEF Record, History
  <1>1. HasBatch(w)  BY Pending DEF Record, IInv
  <1> DEFINE base == pending[w].base
             edits == pending[w].edits
             at == pending[w].at
  <1>2. base \in Workbook /\ edits \in Edits /\ at \in Nat /\ at <= at
    BY <1>1 DEF HasBatch, Batch
  <1>3. /\ ledger' = ledger \o Records(edits, base, at)
        /\ pending' = [pending EXCEPT ![w].stage = "recorded"]
        /\ UNCHANGED <<file, clock, owner, intent, intact, damage>>
    BY DEF Record
  <1>4. /\ pending'[w] \in Batch /\ pending'[w].stage = "recorded" /\ pending'[w].base = base
        /\ pending'[w].edits = edits /\ pending'[w].at = at
        /\ \A v \in Workers \ {w} : pending'[v] = pending[v]
    BY <1>1, <1>3, Staged
  <1>5. Traced(base, ledger, pending, at)  BY <1>0, <1>1 DEF Origins
  <1>6. \A v \in Workers : \/ pending'[v].stage = "saved" /\ pending'[v] = pending[v]
                           \/ pending[v].stage # "saved"
                           \/ pending[v].edits = edits /\ at = pending[v].at
    BY <1>2, <1>4
  <1> HIDE DEF base, edits, at
  <1>7. /\ \A c \in Cells : \A m : WrittenBefore(ledger, pending, c, m)
                                 => WrittenBefore(ledger', pending', c, m)
        /\ TracedRecords(ledger', pending')
        /\ \A i \in DOMAIN ledger' : i \in DOMAIN ledger \/ ledger'[i].at = at
        /\ \A i \in DOMAIN ledger : i \in DOMAIN ledger' /\ ledger'[i] = ledger[i]
    <2>1. TracedRecords(ledger, pending)  BY <1>0 DEF Origins
    <2> QED  BY <1>2, <1>3, <1>5, <1>6, <2>1, AppendedRecords
  <1>8. Origins'
    <2>1. Traced(file', ledger', pending', clock' + 1)
      BY <1>0, <1>3, <1>7, Carried DEF Origins
    <2>2. \A v \in Workers : pending'[v] \in Batch =>
              HasBatch(v) /\ pending'[v].base = pending[v].base /\ pending'[v].at = pending[v].at
      BY <1>1, <1>4 DEF HasBatch, base, at
    <2> QED  BY <1>0, <1>3, <1>7, <2>1, <2>2, OriginsStay
  <1>9. FirstOwner'
    <2> SUFFICES ASSUME owner = 1 PROVE FirstOwner'  BY <1>3 DEF FirstOwner
    <2>1. pending[2] = Idle /\ w = 1 /\ pending'[2] = Idle
      BY <1>0, <1>1, <1>4 DEF FirstOwner, Workers, Record, Idle
    <2>2. HasBatch(1) /\ HasBatch(1)' /\ Open' = Open
      BY <1>1, <1>3, <1>4, <2>1 DEF HasBatch, Open
    <2>3. \A i \in DOMAIN ledger' : ledger'[i].at <= at
      BY <1>0, <1>2, <1>7, <2>1, <2>2 DEF FirstOwner, at
    <2> QED  BY <1>0, <1>3, <1>4, <2>1, <2>2, <2>3 DEF FirstOwner, base, edits, at
  <1> QED  BY <1>0, <1>3, <1>8, <1>9

(* Settling forgets what is on record.                                      *)
LEMMA SettledHistory ==
  ASSUME IInv, Origins, UNCHANGED <<file, ledger, clock>>,
         \A v \in Workers : pending'[v] = pending[v] \/ (pending[v].stage # "saved" /\ pending'[v] = Idle),
         \A v \in Workers : intent'[v] \in {intent[v], Idle}
  PROVE  Origins'
  <1>1. Idle \notin Batch  BY DEF Idle, Batch
  <1>2. \A c \in Cells : \A k : WrittenBefore(ledger, pending, c, k)
                               => WrittenBefore(ledger', pending', c, k)
    BY DEF WrittenBefore
  <1>3. Traced(file', ledger', pending', clock' + 1)  BY <1>2, Carried DEF Origins
  <1>4. TracedRecords(ledger', pending')  BY <1>2, RecordsStay DEF Origins
  <1>5. \A v \in Workers : pending'[v] \in Batch =>
            HasBatch(v) /\ pending'[v].base = pending[v].base /\ pending'[v].at = pending[v].at
    BY <1>1 DEF HasBatch
  <1> QED  BY <1>2, <1>3, <1>4, <1>5, OriginsStay

LEMMA SettleHistory == ASSUME IInv, History, NEW w \in Workers, Settle(w) PROVE History'
  <1> SUFFICES ASSUME damage' = 0 PROVE (intact /\ Origins /\ FirstOwner)'
    BY DEF History
  <1>0. damage = 0 /\ Origins /\ FirstOwner /\ intact  BY DEF Settle, History
  <1>1. /\ pending[w].stage = "recorded"
        /\ UNCHANGED <<file, ledger, clock, owner, intact, damage>>
        /\ pending'[w] = Idle /\ intent'[w] = Idle
        /\ \A v \in Workers \ {w} : pending'[v] = pending[v] /\ intent'[v] = intent[v]
    BY DEF Settle, IInv, TypeOK
  <1>2. Origins'  BY <1>0, <1>1, SettledHistory
  <1>3. FirstOwner'
    <2> SUFFICES ASSUME owner = 1 PROVE FirstOwner'  BY <1>1 DEF FirstOwner
    <2>1. pending[2] = Idle /\ 2 \notin Open /\ w = 1 /\ Idle \notin Batch
      BY <1>0, <1>1 DEF FirstOwner, Workers, Idle, Batch
    <2> QED  BY <1>1, <2>1 DEF FirstOwner, HasBatch, Open, Workers
  <1> QED  BY <1>0, <1>1, <1>2, <1>3

(* What the recovery finds open and held it puts on record.                 *)
LEMMA RecoveryRecords ==
  ASSUME IInv, Origins, 1 \in Open, Holds(intent[1].edits), Recovers
  PROVE  /\ intent[1].base \in Workbook /\ intent[1].edits \in Edits
         /\ intent[1].at \in Nat /\ clock + 1 \in Nat /\ intent[1].at <= clock + 1
         /\ Traced(intent[1].base, ledger, pending, intent[1].at)
         /\ ledger' = ledger \o Records(intent[1].edits, intent[1].base, clock + 1)
         /\ clock' = clock + 1 /\ intent' = intent
  <1>1. 1 \in Workers  BY DEF Workers
  <1>2. intent[1] \in Batch /\ intent[1].at <= clock  BY <1>1, Pending DEF IInv, Dated
  <1> QED  BY <1>2 DEF Batch, Origins, Recovers, IInv, TypeOK

(* What the take-over forgets of its predecessor it has recorded.           *)
LEMMA TakeOverHistory == ASSUME IInv, History, TakeOver PROVE History'
  <1> SUFFICES ASSUME damage' = 0 PROVE (intact /\ Origins /\ FirstOwner)'
    BY DEF History
  <1> USE DEF Workers
  <1>0. damage = 0 /\ Origins /\ FirstOwner /\ intact  BY DEF TakeOver, History
  <1>1. /\ owner = 1 /\ owner' = 2 /\ UNCHANGED <<file, intact, damage>> /\ Recovers
        /\ pending' \in {pending, [pending EXCEPT ![1] = Idle]}
    BY DEF TakeOver
  <1>2. /\ pending[2] = Idle /\ Idle \notin Batch /\ Idle.stage = "idle" /\ ~HasBatch(2)
        /\ pending'[2] = Idle /\ pending'[1] \in {pending[1], Idle}
        /\ Open \subseteq {1}
    BY <1>0, <1>1 DEF FirstOwner, Idle, Batch, HasBatch, IInv, TypeOK, Open
  <1>3. clock \in Nat /\ ledger \in Seq(Change)  BY DEF IInv, TypeOK
  <1> DEFINE Rolls == 1 \in Open /\ Holds(intent[1].edits)
  <1>4. CASE Rolls
    <2> DEFINE base == pending[1].base
               edits == pending[1].edits
               at == clock + 1
               new == Records(edits, base, at)
    <2>1. /\ HasBatch(1) /\ intent[1].base = base /\ intent[1].edits = edits
          /\ intent[1].at = pending[1].at
      BY <1>0, <1>1, <1>4 DEF FirstOwner
    <2>2. base \in Workbook /\ edits \in Edits /\ at \in Nat /\ pending[1].at \in Nat
          /\ pending[1].at < at
      BY <1>3, <2>1 DEF HasBatch, Batch, IInv, Dated
    <2>3. ledger' = ledger \o new /\ clock' = clock + 1 /\ intent' = intent
      BY <1>0, <1>1, <1>4, <2>1, RecoveryRecords
    <2>4. /\ new \in Seq(Change)
          /\ \A j \in DOMAIN new : /\ new[j].cell \in DOMAIN edits /\ new[j].at = at
                                   /\ new[j].before = base.cell[new[j].cell].text
          /\ \A c \in DOMAIN edits : \E j \in DOMAIN new : new[j].cell = c /\ new[j].at = at
      <3> HIDE DEF base, edits, at
      <3>1. new \in Seq(Change)  BY <2>2, RecordTypes
      <3> QED  BY ONLY <2>2, <3>1, RecordsMean DEF new
    <2> HIDE DEF new, base, edits, at
    <2>5. /\ \A i \in DOMAIN ledger : i \in DOMAIN ledger' /\ ledger'[i] = ledger[i]
          /\ \A j \in DOMAIN new : \E i \in DOMAIN ledger' : ledger'[i] = new[j]
          /\ \A i \in DOMAIN ledger' :
                i \in DOMAIN ledger \/ \E j \in DOMAIN new : ledger'[i] = new[j]
      BY ONLY <1>3, <2>3, <2>4, Concatenated
    \* The log alone carries what is older than the predecessor's batch.
    <2>6. \A c \in Cells, k \in Nat :
              k <= pending[1].at /\ WrittenBefore(ledger, pending, c, k)
                  => WrittenBefore(ledger', pending', c, k)
      <3> SUFFICES ASSUME NEW c \in Cells, NEW k \in Nat, k <= pending[1].at,
                          WrittenBefore(ledger, pending, c, k)
                   PROVE  WrittenBefore(ledger', pending', c, k)
        OBVIOUS
      <3>1. \E i \in DOMAIN ledger : ledger[i].cell = c /\ ledger[i].at < k
        <4>1. ASSUME NEW v \in Workers, pending[v].stage = "saved", pending[v].at < k
              PROVE  FALSE
          <5>1. v = 1  BY <1>2, <4>1
          <5> QED  BY <2>2, <4>1, <5>1
        <4> QED  BY <4>1 DEF WrittenBefore
      <3> QED  BY <2>5, <3>1 DEF WrittenBefore
    <2>7. \A c \in Cells : WrittenBefore(ledger, pending, c, clock + 1)
                              => WrittenBefore(ledger', pending', c, clock + 2)
      <3> SUFFICES ASSUME NEW c \in Cells, WrittenBefore(ledger, pending, c, clock + 1)
                   PROVE  WrittenBefore(ledger', pending', c, clock + 2)
        OBVIOUS
      <3>1. CASE \E i \in DOMAIN ledger : ledger[i].cell = c /\ ledger[i].at < clock + 1
        <4>1. PICK i \in DOMAIN ledger : ledger[i].cell = c /\ ledger[i].at < clock + 1
          BY <3>1
        <4>2. ledger[i].at \in Nat  BY RecordDates DEF IInv
        <4>3. ledger[i].at < clock + 2  BY <1>3, <4>1, <4>2
        <4> QED  BY <2>5, <4>1, <4>3 DEF WrittenBefore
      <3>2. ASSUME NEW v \in Workers, pending[v].stage = "saved", c \in DOMAIN pending[v].edits
            PROVE  WrittenBefore(ledger', pending', c, clock + 2)
        <4>1. v = 1  BY <1>2, <3>2
        <4>2. PICK j \in DOMAIN new : new[j].cell = c /\ new[j].at = at
          BY <2>4, <3>2, <4>1 DEF edits
        <4>3. at < clock + 2  BY <1>3 DEF at
        <4> QED  BY <2>5, <4>2, <4>3 DEF WrittenBefore
      <3> QED  BY <3>1, <3>2 DEF WrittenBefore
    <2>8. Traced(file', ledger', pending', clock' + 1)
      <3>1. clock' + 1 = clock + 2  BY <1>3, <2>3
      <3> QED  BY <1>0, <1>1, <2>7, <3>1, Carried DEF Origins
    <2>t. Traced(base, ledger, pending, pending[1].at)
      BY <1>0, <2>1 DEF Origins, base
    <2>9. Traced(base, ledger', pending', pending[1].at)
      BY <2>2, <2>6, <2>t, Carried
    <2>10. ASSUME NEW v \in Workers, pending'[v] \in Batch
           PROVE  Traced(pending'[v].base, ledger', pending', pending'[v].at)
      <3>1. v = 1 /\ pending'[v] = pending[1]  BY <1>2, <2>10
      <3> QED  BY <2>9, <3>1 DEF base
    <2>11. TracedRecords(ledger', pending')
      <3> SUFFICES ASSUME NEW i \in DOMAIN ledger',
                          ledger'[i].before # SourceCell[ledger'[i].cell].text
                   PROVE  WrittenBefore(ledger', pending', ledger'[i].cell, ledger'[i].at)
        BY DEF TracedRecords
      <3>1. CASE i \in DOMAIN ledger
        <4>1. ledger'[i] = ledger[i] /\ ledger[i].cell \in Cells /\ ledger[i].at \in Nat
          BY <2>5, <3>1, RecordDates DEF IInv
        <4>2. WrittenBefore(ledger, pending, ledger[i].cell, ledger[i].at)
          BY <1>0, <3>1, <4>1 DEF Origins, TracedRecords
        <4>3. ledger[i].at <= pending[1].at
          BY <1>0, <1>1, <2>1, <2>2, <3>1, <4>1 DEF FirstOwner
        <4> QED  BY <2>6, <4>1, <4>2, <4>3
      <3>2. CASE i \notin DOMAIN ledger
        <4>1. PICK j \in DOMAIN new : ledger'[i] = new[j]  BY <2>5, <3>2
        <4>2. new[j].cell \in Cells /\ new[j].at = at  BY <2>2, <2>4, EditTypes
        <4>3. base.cell[new[j].cell].text # SourceCell[new[j].cell].text  BY <2>4, <3>2, <4>1
        <4>4. WrittenBefore(ledger, pending, new[j].cell, pending[1].at)
          BY <2>t, <4>2, <4>3 DEF Traced
        \* The predecessor's own save is not before its own time.
        <4>5. PICK m \in DOMAIN ledger : ledger[m].cell = new[j].cell /\ ledger[m].at < pending[1].at
          <5>1. ASSUME NEW v \in Workers, pending[v].stage = "saved",
                       pending[v].at < pending[1].at
                PROVE  FALSE
            <6>1. v = 1  BY <1>2, <5>1
            <6> QED  BY <2>2, <5>1, <6>1
          <5> QED  BY <4>4, <5>1 DEF WrittenBefore
        <4>6. ledger[m].at \in Nat /\ ledger[m].at < at  BY <2>2, <4>5, RecordDates DEF IInv
        <4> QED  BY <2>5, <4>1, <4>2, <4>5, <4>6 DEF WrittenBefore
      <3> QED  BY <3>1, <3>2
    <2>12. ASSUME NEW v \in Open' PROVE Traced(intent'[v].base, ledger', pending', intent'[v].at)
      <3>1. v = 1 /\ intent'[v] = intent[1]  BY <1>2, <2>3, <2>12 DEF Open
      <3> QED  BY <2>1, <2>9, <3>1
    <2> QED  BY <1>0, <1>1, <2>8, <2>10, <2>11, <2>12 DEF Origins, HasBatch, FirstOwner
  <1>5. CASE ~Rolls
    <2>1. /\ ledger' = ledger /\ clock' = clock
          /\ \A v \in Workers : intent'[v] \in {intent[v], Idle}
      BY <1>1, <1>5, RecoversMeans DEF Recovers
    \* Nothing is saved and not recorded: what is saved would hold.
    <2>2. \A v \in Workers : pending[v].stage # "saved"
      <3>1. pending[1].stage = "saved" => HasBatch(1)  BY Pending DEF IInv
      <3> QED  BY <1>0, <1>1, <1>2, <1>5, <3>1 DEF FirstOwner
    <2>3. \A v \in Workers : pending'[v] = pending[v] \/ (pending[v].stage # "saved" /\ pending'[v] = Idle)
      BY <1>2, <2>2
    <2>4. Origins'  BY <1>0, <1>1, <2>1, <2>3, SettledHistory
    <2> QED  BY <1>0, <1>1, <2>4 DEF FirstOwner
  <1> QED  BY <1>4, <1>5

LEMMA RecoversAgainHistory == ASSUME IInv, History, RecoversAgain PROVE History'
  <1> SUFFICES ASSUME damage' = 0 PROVE (intact /\ Origins /\ FirstOwner)'
    BY DEF History
  <1>0. damage = 0 /\ Origins /\ intact  BY DEF RecoversAgain, History
  <1>1. /\ owner = 2 /\ 1 \in Open /\ Recovers
        /\ UNCHANGED <<file, owner, pending, intact, damage>>
    BY DEF RecoversAgain
  <1>2. CASE ~Holds(intent[1].edits)
    <2>1. /\ UNCHANGED <<file, ledger, clock>> /\ \A v \in Workers : pending'[v] = pending[v]
          /\ \A v \in Workers : intent'[v] \in {intent[v], Idle}
      BY <1>1, <1>2, RecoversMeans DEF Recovers
    <2>2. Origins'  BY <1>0, <2>1, SettledHistory
    <2> QED  BY <1>0, <1>1, <2>2 DEF FirstOwner
  <1>3. CASE Holds(intent[1].edits)
    <2> DEFINE base == intent[1].base
               edits == intent[1].edits
               k == intent[1].at
               at == clock + 1
    <2>1. /\ base \in Workbook /\ edits \in Edits /\ k \in Nat /\ at \in Nat /\ k <= at
          /\ Traced(base, ledger, pending, k)
          /\ ledger' = ledger \o Records(edits, base, at)
          /\ clock' = clock + 1 /\ intent' = intent
      BY <1>0, <1>1, <1>3, RecoveryRecords
    <2> HIDE DEF base, edits, k, at
    <2>2. TracedRecords(ledger, pending)  BY <1>0 DEF Origins
    <2>3. \A v \in Workers : \/ pending'[v].stage = "saved" /\ pending'[v] = pending[v]
                             \/ pending[v].stage # "saved"
                             \/ pending[v].edits = edits /\ at = pending[v].at
      BY <1>1
    <2>4. /\ \A c \in Cells : \A m : WrittenBefore(ledger, pending, c, m)
                                   => WrittenBefore(ledger', pending', c, m)
          /\ TracedRecords(ledger', pending')
      BY <2>1, <2>2, <2>3, AppendedRecords
    <2>5. Traced(file', ledger', pending', clock' + 1)
      <3>1. clock + 1 \in Nat /\ clock + 2 \in Nat /\ clock + 1 <= clock + 2 /\ clock' + 1 = clock + 2
        BY <2>1 DEF IInv, TypeOK
      <3>2. \A c \in Cells : WrittenBefore(ledger, pending, c, clock + 1)
                                => WrittenBefore(ledger', pending', c, clock + 2)
        BY <2>4, <3>1, Later
      <3> QED  BY <1>0, <1>1, <3>1, <3>2, Carried DEF Origins
    <2>6. /\ \A v \in Workers : pending'[v] \in Batch =>
                HasBatch(v) /\ pending'[v].base = pending[v].base /\ pending'[v].at = pending[v].at
          /\ \A v \in Workers : intent'[v] \in {intent[v], Idle}
      BY <1>1, <2>1 DEF HasBatch
    <2>7. Origins'  BY <1>0, <2>4, <2>5, <2>6, OriginsStay
    <2> QED  BY <1>0, <1>1, <2>7 DEF FirstOwner
  <1> QED  BY <1>2, <1>3

LEMMA RecoveryHistory == ASSUME IInv, History, RecoveryStep PROVE History'
  <1>1. CASE RecoverySettles
    <2> SUFFICES ASSUME damage' = 0 PROVE (intact /\ Origins /\ FirstOwner)'
      BY DEF History
    <2>1. /\ damage = 0 /\ Origins /\ intact /\ owner' = 2 /\ intact'
          /\ UNCHANGED <<file, ledger, clock>>
          /\ \A v \in Workers : pending'[v] = pending[v]
          /\ \A v \in Workers : intent'[v] \in {intent[v], Idle}
      BY <1>1 DEF RecoverySettles, History, IInv, TypeOK
    <2>2. Origins'  BY <2>1, SettledHistory
    <2> QED  BY <2>1, <2>2 DEF FirstOwner
  <1> QED  BY <1>1, TakeOverHistory, RecoversAgainHistory DEF RecoveryStep

LEMMA StepHistory ==
  ASSUME IInv, History, [Next]_vars
  PROVE  History'
  <1>1. CASE Outside
    <2>1. damage' # 0
      BY <1>1 DEF Outside, CellDamaged, SheetDamaged, SourceModified, Damaged, IInv, TypeOK
    <2> QED  BY <2>1 DEF History
  <1>2. CASE UNCHANGED vars
    BY <1>2 DEF vars, History, Origins, Traced, TracedRecords, WrittenBefore, FirstOwner,
                HasBatch, Holds, Open
  <1> QED
    BY <1>1, <1>2, BeginHistory, SaveHistory, RecordHistory, SettleHistory, RecoveryHistory
    DEF Next, WorkerStep

(* Every text of the file has an origin, the source or a record, and a cell's
   first record begins with the source's text (workbook/diff.py: verify).    *)
THEOREM HistoryInvariance == Spec => []History
  BY InitHistory, StepHistory, Invariance, PTL DEF Spec
-----------------------------------------------------------------------------
(* Replaying the log.  Induction over its records is by a least
   counterexample.                                                          *)
LEMMA LeastNumber ==
  ASSUME NEW S \in SUBSET Nat, S # {}
  PROVE  \E n \in S : \A m \in S : n <= m
  <1> DEFINE Less == OpToRel(<, Nat)
  <1>1. \E n \in S : \A m \in S : <<m, n>> \notin Less
    <2> HIDE DEF Less
    <2> QED  BY NatLessThanWellFounded, WFMin DEF Less
  <1>2. PICK n \in S : \A m \in S : <<m, n>> \notin Less  BY <1>1
  <1>3. ASSUME NEW m \in S  PROVE n <= m
    <2>1. <<m, n>> \notin {ss \in Nat \X Nat : ss[1] < ss[2]}  BY <1>2 DEF OpToRel
    <2> QED  BY <2>1
  <1> QED  BY <1>3

LEMMA Induction ==
  ASSUME NEW S \in SUBSET Nat, 0 \in S, \A n \in S : n + 1 \in S
  PROVE  S = Nat
  <1> SUFFICES ASSUME Nat \ S # {} PROVE FALSE  OBVIOUS
  <1>1. PICK n \in Nat \ S : \A m \in Nat \ S : n <= m
    <2> DEFINE T == Nat \ S
    <2>1. T \in SUBSET Nat /\ T # {}  OBVIOUS
    <2>2. \E k \in T : \A m \in T : k <= m
      <3> HIDE DEF T
      <3> QED  BY <2>1, LeastNumber
    <2> QED  BY <2>2
  <1>2. n # 0 /\ n - 1 \in Nat  OBVIOUS
  <1>3. n - 1 \in S  BY <1>1, <1>2
  <1>4. (n - 1) + 1 \in S  BY <1>3
  <1>5. (n - 1) + 1 = n  OBVIOUS
  <1> QED  BY <1>4, <1>5

(* One record made again, after those that f has the workbooks of.          *)
Redo(f, n) == IF n = 0 THEN Source
              ELSE Edited(f[n - 1], [c \in {ledger[n].cell} |-> ledger[n].after])

LEMMA RedoExists == \A k \in Nat : \E f : f = [n \in 0 .. k |-> Redo(f, n)]
  <1> DEFINE D == {k \in Nat : \E f : f = [n \in 0 .. k |-> Redo(f, n)]}
  <1>1. 0 \in D
    <2> DEFINE f == [n \in 0 .. 0 |-> Source]
    <2>1. \A n \in 0 .. 0 : Redo(f, n) = Source  BY DEF Redo
    <2>2. f = [n \in 0 .. 0 |-> Redo(f, n)]  BY <2>1
    <2> QED  BY <2>2
  <1>2. ASSUME NEW k \in D PROVE k + 1 \in D
    <2>1. PICK f : f = [n \in 0 .. k |-> Redo(f, n)]  OBVIOUS
    <2> DEFINE g == [n \in 0 .. (k + 1) |-> IF n <= k THEN f[n] ELSE Redo(f, k + 1)]
    <2>2. \A n \in 0 .. k : g[n] = f[n]  OBVIOUS
    <2>3. ASSUME NEW n \in 0 .. (k + 1) PROVE g[n] = Redo(g, n)
      <3>1. n # 0 => n - 1 \in 0 .. k /\ g[n - 1] = f[n - 1]  BY <2>2
      <3>2. Redo(g, n) = Redo(f, n)
        <4> HIDE DEF g
        <4> QED  BY <3>1 DEF Redo
      <3>3. CASE n <= k
        <4>1. f[n] = Redo(f, n)
          <5> HIDE DEF g
          <5> QED  BY <2>1, <3>3
        <4> QED  BY <3>2, <3>3, <4>1
      <3>4. CASE n = k + 1
        <4>1. g[n] = Redo(f, k + 1)  BY <3>4
        <4> QED  BY <3>2, <3>4, <4>1
      <3> QED  BY <3>3, <3>4
    <2>4. g = [n \in 0 .. (k + 1) |-> g[n]]  OBVIOUS
    <2>5. g = [n \in 0 .. (k + 1) |-> Redo(g, n)]
      <3> HIDE DEF g
      <3> QED  BY <2>3, <2>4
    <2>6. \E h : h = [n \in 0 .. (k + 1) |-> Redo(h, n)]
      <3> HIDE DEF g
      <3> QED  BY <2>5
    <2> QED  BY <2>6
  <1>3. D = Nat
    <2>1. D \in SUBSET Nat  OBVIOUS
    <2> HIDE DEF D
    <2> QED  BY <1>1, <1>2, <2>1, Induction
  <1> QED  BY <1>3

LEMMA ReplaySteps ==
  ASSUME Len(ledger) \in Nat
  PROVE  /\ Replayed[0] = Source
         /\ \A n \in 1 .. Len(ledger) :
               Replayed[n] = Edited(Replayed[n - 1], [c \in {ledger[n].cell} |-> ledger[n].after])
  <1>1. Replayed = CHOOSE f : f = [n \in 0 .. Len(ledger) |-> Redo(f, n)]
    BY DEF Replayed, Redo
  <1>2. Replayed = [n \in 0 .. Len(ledger) |-> Redo(Replayed, n)]
    BY <1>1, RedoExists
  <1>3. \A n \in 0 .. Len(ledger) : Replayed[n] = Redo(Replayed, n)  BY <1>2
  <1>4. 0 \in 0 .. Len(ledger) /\ \A n \in 1 .. Len(ledger) : n \in 0 .. Len(ledger) /\ n # 0
    OBVIOUS
  <1> QED  BY <1>3, <1>4 DEF Redo

(* What an edit of the one cell x to the text t moves.                      *)
Moves(f, g, x, t) ==
    /\ g \in Workbook /\ g.readable = f.readable /\ g.other = f.other
    /\ \A c \in Cells :
          /\ g.cell[c].text = IF c = x THEN t ELSE f.cell[c].text
          /\ c # x => g.cell[c].type = f.cell[c].type \/ g.cell[c].text = ""
          /\ \/ g.cell[c].format = f.cell[c].format
             \/ c = x /\ ColumnOf(c) \in Forced /\ g.cell[c].format = "@"
          /\ \/ g.cell[c].wrap = f.cell[c].wrap
             \/ RowOf(c) = RowOf(x) /\ g.cell[c].wrap = "off"
    /\ \A r \in BookRows : g.height[r] = f.height[r] \/ (r = RowOf(x) /\ g.height[r] = "15")

LEMMA OneEdit ==
  ASSUME NEW f \in Workbook, NEW x \in Cells, NEW t \in AnyText,
         NEW e, DOMAIN e = {x}, e[x] = t
  PROVE  Moves(f, Edited(f, e), x, t)
  <1> DEFINE g == Edited(f, e)
             W(c) == IF c \in DOMAIN e THEN WrittenCell(f.cell[c], ColumnOf(c), e[c])
                                       ELSE f.cell[c]
             U(c) == Unwrapped(W(c), RowOf(c), e)
  <1>1. /\ DOMAIN e = {x} /\ e[x] = t
        /\ EditedRows(e) = {RowOf(x)}
    BY DEF EditedRows
  <1>2. g \in Workbook  BY <1>1, EditedTypes
  <1>3. /\ g.readable = f.readable /\ g.other = f.other
        /\ \A r \in BookRows : g.height[r] = IF r \in {RowOf(x)} THEN "15" ELSE f.height[r]
        /\ \A c \in Cells : g.cell[c] = Saved(U(c))
    BY <1>1 DEF Edited, Workbook
  <1> HIDE DEF g
  <1>4. ASSUME NEW c \in Cells
        PROVE  /\ W(c) \in AnyCell
               /\ c = x => /\ W(c).text = t
                           /\ \/ W(c).format = f.cell[c].format
                              \/ ColumnOf(c) \in Forced /\ W(c).format = "@"
                           /\ W(c).wrap = f.cell[c].wrap
               /\ c # x => W(c) = f.cell[c]
    <2>1. f.cell[c] \in AnyCell  BY DEF Workbook
    <2>2. CASE c = x
      BY <1>1, <2>1, <2>2 DEF WrittenCell, AnyCell
    <2> QED  BY <1>1, <2>1, <2>2
  <1> HIDE DEF W
  <1>5. ASSUME NEW c \in Cells
        PROVE  /\ U(c) \in AnyCell
               /\ U(c).text = W(c).text /\ U(c).type = W(c).type /\ U(c).format = W(c).format
               /\ U(c).wrap = W(c).wrap \/ (RowOf(c) = RowOf(x) /\ U(c).wrap = "off")
    BY <1>1, <1>4 DEF Unwrapped, AnyCell
  <1> HIDE DEF U
  <1>6. ASSUME NEW c \in Cells
        PROVE  /\ Saved(U(c)).text = U(c).text /\ Saved(U(c)).format = U(c).format
               /\ Saved(U(c)).wrap = U(c).wrap
               /\ Saved(U(c)).type = U(c).type \/ U(c).text = ""
    BY <1>5 DEF Saved, AnyCell
  <1>7. ASSUME NEW c \in Cells
        PROVE  /\ g.cell[c].text = IF c = x THEN t ELSE f.cell[c].text
               /\ c # x => g.cell[c].type = f.cell[c].type \/ g.cell[c].text = ""
               /\ \/ g.cell[c].format = f.cell[c].format
                  \/ c = x /\ ColumnOf(c) \in Forced /\ g.cell[c].format = "@"
               /\ \/ g.cell[c].wrap = f.cell[c].wrap
                  \/ RowOf(c) = RowOf(x) /\ g.cell[c].wrap = "off"
    <2>1. /\ g.cell[c].text = W(c).text /\ g.cell[c].format = W(c).format
          /\ g.cell[c].wrap = W(c).wrap \/ (RowOf(c) = RowOf(x) /\ g.cell[c].wrap = "off")
          /\ g.cell[c].type = W(c).type \/ g.cell[c].text = ""
      BY <1>3, <1>5, <1>6
    <2>2. CASE c = x  BY <1>4, <2>1, <2>2
    <2>3. CASE c # x  BY <1>4, <2>1, <2>3
    <2> QED  BY <2>2, <2>3
  <1>8. \A r \in BookRows : g.height[r] = f.height[r] \/ (r = RowOf(x) /\ g.height[r] = "15")
    BY <1>3
  <1> QED  BY <1>2, <1>3, <1>7, <1>8 DEF Moves, g

(* The workbook the first n records make: a text is the last one recorded, and
   the rest moves where an edit moves it.                                   *)
MadeBy(f, n) ==
    /\ f \in Workbook /\ f.readable /\ f.other = {}
    /\ \A c \in Cells :
          /\ (\A i \in 1 .. n : ledger[i].cell # c) => f.cell[c].text = SourceCell[c].text
          /\ \A m \in 1 .. n :
                ledger[m].cell = c /\ (\A i \in 1 .. n : ledger[i].cell = c => i <= m)
                    => f.cell[c].text = ledger[m].after
          /\ f.cell[c].type = SourceCell[c].type \/ c \in EditedCells \/ f.cell[c].text = ""
          /\ \/ f.cell[c].format = SourceCell[c].format
             \/ c \in EditedCells /\ ColumnOf(c) \in Forced /\ f.cell[c].format = "@"
          /\ \/ f.cell[c].wrap = SourceCell[c].wrap
             \/ RowOf(c) \in {RowOf(y) : y \in EditedCells} /\ f.cell[c].wrap = "off"
    /\ \A r \in BookRows : \/ f.height[r] = SourceHeight[r]
                           \/ r \in {RowOf(y) : y \in EditedCells} /\ f.height[r] = "15"

LEMMA ReplayedIsMade ==
  ASSUME IInv
  PROVE  MadeBy(Replayed[Len(ledger)], Len(ledger))
  <1> DEFINE D == {n \in Nat : n <= Len(ledger) => MadeBy(Replayed[n], n)}
  <1>1. Len(ledger) \in Nat /\ ledger \in Seq(Change)  BY DEF IInv, TypeOK
  <1>2. 0 \in D
    <2>1. Source \in Workbook  BY GateAssumption DEF GateAssumption, Source, Workbook
    <2>2. MadeBy(Source, 0)  BY <2>1 DEF MadeBy, Source
    <2> QED  BY <1>1, <2>2, ReplaySteps
  <1>3. ASSUME NEW n \in D PROVE n + 1 \in D
    <2> SUFFICES ASSUME n + 1 <= Len(ledger) PROVE MadeBy(Replayed[n + 1], n + 1)
      OBVIOUS
    <2> DEFINE f == Replayed[n]
               g == Replayed[n + 1]
               x == ledger[n + 1].cell
               t == ledger[n + 1].after
    <2>1. n \in Nat /\ n + 1 \in 1 .. Len(ledger) /\ n + 1 \in DOMAIN ledger  BY <1>1
    <2>2. MadeBy(f, n)  BY <1>1, <2>1
    <2>3. x \in Cells /\ t \in AnyText /\ x \in EditedCells
      <3>1. ledger[n + 1] \in Change  BY <1>1, <2>1, ElementOfSeq
      <3> QED  BY <2>1, <3>1 DEF Change, EditedCells
    <2>4. g = Edited(f, [c \in {x} |-> t])
      <3>1. (n + 1) - 1 = n  BY <2>1
      <3> QED  BY <1>1, <2>1, <3>1, ReplaySteps
    <2>5. ledger[n + 1].cell = x /\ ledger[n + 1].after = t  OBVIOUS
    <2>6. \A i : i \in 1 .. (n + 1) <=> i \in 1 .. n \/ i = n + 1  BY <2>1
    <2> HIDE DEF f, g, x, t, D
    <2>7. f \in Workbook  BY <2>2 DEF MadeBy
    <2>8. Moves(f, g, x, t)
      <3>1. PICK e : e = [c \in {x} |-> t]  OBVIOUS
      <3>2. DOMAIN e = {x} /\ e[x] = t /\ g = Edited(f, e)  BY <2>4, <3>1
      <3> QED  BY ONLY <2>3, <2>7, <3>2, OneEdit
    <2>9. ASSUME NEW c \in Cells
          PROVE  /\ (\A i \in 1 .. (n + 1) : ledger[i].cell # c)
                       => g.cell[c].text = SourceCell[c].text
                 /\ \A m \in 1 .. (n + 1) :
                       ledger[m].cell = c /\ (\A i \in 1 .. (n + 1) : ledger[i].cell = c => i <= m)
                           => g.cell[c].text = ledger[m].after
      <3>1. CASE c = x
        <4> SUFFICES ASSUME NEW m \in 1 .. (n + 1), ledger[m].cell = c,
                            \A i \in 1 .. (n + 1) : ledger[i].cell = c => i <= m
                     PROVE  g.cell[c].text = ledger[m].after
          BY <2>5, <2>6, <3>1
        <4>1. m = n + 1  BY <2>1, <2>5, <2>6, <3>1
        <4> QED  BY <2>5, <2>8, <3>1, <4>1 DEF Moves
      <3>2. CASE c # x
        <4>1. g.cell[c].text = f.cell[c].text  BY <2>8, <3>2 DEF Moves
        <4>2. ASSUME \A i \in 1 .. (n + 1) : ledger[i].cell # c
              PROVE  g.cell[c].text = SourceCell[c].text
          BY <2>2, <2>6, <4>1, <4>2 DEF MadeBy
        <4>3. ASSUME NEW m \in 1 .. (n + 1), ledger[m].cell = c,
                     \A i \in 1 .. (n + 1) : ledger[i].cell = c => i <= m
              PROVE  g.cell[c].text = ledger[m].after
          <5>1. m \in 1 .. n  BY <2>5, <2>6, <3>2, <4>3
          <5> QED  BY <2>2, <2>6, <4>1, <4>3, <5>1 DEF MadeBy
        <4> QED  BY <4>2, <4>3
      <3> QED  BY <3>1, <3>2
    <2>10. ASSUME NEW c \in Cells
           PROVE  g.cell[c].type = SourceCell[c].type \/ c \in EditedCells \/ g.cell[c].text = ""
      BY <2>2, <2>3, <2>8 DEF MadeBy, Moves
    <2>11. ASSUME NEW c \in Cells
           PROVE  /\ \/ g.cell[c].format = SourceCell[c].format
                     \/ c \in EditedCells /\ ColumnOf(c) \in Forced /\ g.cell[c].format = "@"
                  /\ \/ g.cell[c].wrap = SourceCell[c].wrap
                     \/ RowOf(c) \in {RowOf(y) : y \in EditedCells} /\ g.cell[c].wrap = "off"
      <3>1. /\ \/ f.cell[c].format = SourceCell[c].format
               \/ c \in EditedCells /\ ColumnOf(c) \in Forced /\ f.cell[c].format = "@"
            /\ \/ f.cell[c].wrap = SourceCell[c].wrap
               \/ RowOf(c) \in {RowOf(y) : y \in EditedCells} /\ f.cell[c].wrap = "off"
        BY <2>2 DEF MadeBy
      <3>2. /\ \/ g.cell[c].format = f.cell[c].format
               \/ c = x /\ ColumnOf(c) \in Forced /\ g.cell[c].format = "@"
            /\ \/ g.cell[c].wrap = f.cell[c].wrap
               \/ RowOf(c) = RowOf(x) /\ g.cell[c].wrap = "off"
        BY <2>8 DEF Moves
      <3>3. RowOf(x) \in {RowOf(y) : y \in EditedCells}  BY <2>3
      <3> QED  BY ONLY <2>3, <3>1, <3>2, <3>3
    <2>12. \A r \in BookRows : \/ g.height[r] = SourceHeight[r]
                               \/ r \in {RowOf(y) : y \in EditedCells} /\ g.height[r] = "15"
      BY <2>2, <2>3, <2>8 DEF MadeBy, Moves
    <2>13. g.readable /\ g.other = {}  BY <2>2, <2>8 DEF MadeBy, Moves
    <2>14. MadeBy(g, n + 1)
      BY <2>8, <2>9, <2>10, <2>11, <2>12, <2>13 DEF MadeBy, Moves
    <2> QED  BY <2>14 DEF g
  <1>4. D = Nat
    <2>1. D \in SUBSET Nat  OBVIOUS
    <2> HIDE DEF D
    <2> QED  BY <1>2, <1>3, <2>1, Induction
  <1> QED  BY <1>1, <1>4

(* The log is sorted when no two neighbours are out of order.               *)
LEMMA Sorted ==
  ASSUME IInv, Orderly, NEW i \in DOMAIN ledger, NEW j \in DOMAIN ledger, i <= j
  PROVE  ledger[i].at <= ledger[j].at
  <1> DEFINE D == {d \in Nat : i + d \in DOMAIN ledger => ledger[i].at <= ledger[i + d].at}
  <1>1. /\ DOMAIN ledger = 1 .. Len(ledger) /\ Len(ledger) \in Nat
        /\ \A n \in DOMAIN ledger : ledger[n].at \in Nat
    BY RecordDates DEF IInv, TypeOK
  <1>2. 0 \in D  BY <1>1
  <1>3. ASSUME NEW d \in D PROVE d + 1 \in D
    <2> SUFFICES ASSUME i + (d + 1) \in DOMAIN ledger PROVE ledger[i].at <= ledger[i + (d + 1)].at
      OBVIOUS
    <2>1. i + d \in DOMAIN ledger /\ (i + (d + 1)) - 1 = i + d /\ i + (d + 1) > 1  BY <1>1
    <2>2. ledger[i].at <= ledger[i + d].at  BY <2>1
    <2> HIDE DEF D
    <2>3. ledger[i + d].at <= ledger[i + (d + 1)].at  BY <2>1 DEF Orderly
    <2> QED  BY <1>1, <2>1, <2>2, <2>3
  <1>4. D = Nat
    <2>1. D \in SUBSET Nat  OBVIOUS
    <2> HIDE DEF D
    <2> QED  BY <1>2, <1>3, <2>1, Induction
  <1>5. j - i \in D /\ i + (j - i) = j  BY <1>1, <1>4
  <1> QED  BY <1>5

(* The first record of a cell starts from the submitted text; the last one is
   the last committed.                                                      *)
LEMMA Ends ==
  ASSUME IInv, History, Recorded, damage = 0, Orderly, NEW c \in EditedCells
  PROVE  /\ NetChange(c).before = SourceCell[c].text
         /\ Latest(c) \in 1 .. Len(ledger) /\ ledger[Latest(c)].cell = c
         /\ \A i \in 1 .. Len(ledger) : ledger[i].cell = c => i <= Latest(c)
  <1> DEFINE H == HistoryOf(c)
  <1>1. /\ H \subseteq DOMAIN ledger /\ DOMAIN ledger = 1 .. Len(ledger) /\ Len(ledger) \in Nat
        /\ \A i \in DOMAIN ledger : ledger[i].at \in Nat
        /\ \A i \in H : ledger[i].cell = c
        /\ \A i \in DOMAIN ledger : ledger[i].cell = c => i \in H
        /\ H # {}
    BY RecordDates DEF IInv, TypeOK, HistoryOf, EditedCells
  <1> HIDE DEF H
  <1>2. PICK k \in H : \A i \in H : k <= i
    <2>1. H \in SUBSET Nat  BY <1>1
    <2> QED  BY <1>1, <2>1, LeastNumber
  <1>3. \A i \in H \ {k} : Earlier(k, i)
    <2> SUFFICES ASSUME NEW i \in H \ {k} PROVE Earlier(k, i)  OBVIOUS
    <2>1. k < i /\ ledger[k].at <= ledger[i].at  BY <1>1, <1>2, Sorted
    <2> QED  BY <1>1, <2>1 DEF Earlier
  <1>4. First(c) \in H /\ \A i \in H \ {First(c)} : Earlier(First(c), i)
    BY <1>3 DEF First, H
  <1>5. ledger[First(c)].before = SourceCell[c].text
    <2> SUFFICES ASSUME ledger[First(c)].before # SourceCell[c].text PROVE FALSE
      OBVIOUS
    <2>1. WrittenBefore(ledger, pending, c, ledger[First(c)].at)
      BY <1>1, <1>4 DEF History, Origins, TracedRecords
    <2>2. PICK j \in DOMAIN ledger : ledger[j].cell = c /\ ledger[j].at < ledger[First(c)].at
      BY <2>1 DEF WrittenBefore, Recorded
    <2>3. j \in H /\ j # First(c)  BY <1>1, <1>4, <2>2
    <2>4. ledger[First(c)].at <= ledger[j].at  BY <1>1, <1>4, <2>3 DEF Earlier
    <2> QED  BY <1>1, <1>4, <2>2, <2>4
  <1>6. Latest(c) \in H /\ \A i \in H \ {Latest(c)} : Earlier(i, Latest(c))
    BY LatestIsLast DEF H
  <1>7. ASSUME NEW i \in H PROVE i <= Latest(c)
    <2> SUFFICES ASSUME i # Latest(c), Latest(c) < i PROVE FALSE
      BY <1>1, <1>6
    <2>1. Earlier(i, Latest(c))  BY <1>6
    <2>2. ledger[Latest(c)].at <= ledger[i].at  BY <1>1, <1>6, Sorted
    <2> QED  BY <1>1, <1>6, <2>1, <2>2 DEF Earlier
  <1> QED  BY <1>1, <1>5, <1>6, <1>7 DEF NetChange

(* A job that wrote what it recorded, in the order it recorded it, passes the
   gate: diff.reconcile explains every edit, and every edit an edit of it,
   whatever a stalled worker or a recovery repeated.                        *)
THEOREM GateIsFair == Spec => []NoFalseAlarm
  <1>1. IInv /\ History => NoFalseAlarm
    <2> SUFFICES ASSUME IInv, History, Recorded, damage = 0, Orderly,
                        file = Replayed[Len(ledger)]
                 PROVE  Passed
      BY DEF NoFalseAlarm
    <2>1. MadeBy(file, Len(ledger))  BY ReplayedIsMade
    <2>2. \A i \in 1 .. Len(ledger) : ledger[i].cell \in EditedCells
      BY DEF EditedCells, IInv, TypeOK
    <2>3. ASSUME NEW c \in EditedCells
          PROVE  NetChange(c) = [before |-> SourceCell[c].text, after |-> file.cell[c].text]
      <3>1. c \in Cells  BY RecordDates DEF EditedCells, IInv
      <3>2. file.cell[c].text = ledger[Latest(c)].after
        <4>1. /\ Latest(c) \in 1 .. Len(ledger) /\ ledger[Latest(c)].cell = c
              /\ \A i \in 1 .. Len(ledger) : ledger[i].cell = c => i <= Latest(c)
          BY <2>3, Ends
        <4>2. \A m \in 1 .. Len(ledger) :
                ledger[m].cell = c /\ (\A i \in 1 .. Len(ledger) : ledger[i].cell = c => i <= m)
                    => file.cell[c].text = ledger[m].after
          BY <2>1, <3>1 DEF MadeBy
        <4> QED  BY ONLY <4>1, <4>2
      <3> QED  BY <2>3, <3>2, Ends DEF NetChange
    <2>4. \A c \in Cells : c \notin EditedCells => file.cell[c].text = SourceCell[c].text
      BY <2>1, <2>2 DEF MadeBy
    <2>5. Unexplained = {}
      <3> SUFFICES ASSUME NEW d \in Differences PROVE Explained(d)
        BY DEF Unexplained
      <3>1. CASE d \in CellDifferences
        <4>1. PICK c \in Cells, dim \in CellDimensions :
                /\ SourceCell[c][dim] # file.cell[c][dim]
                /\ ~(dim = "type" /\ BothEmpty(c))
                /\ d = Difference(dim, c, SourceCell[c][dim], file.cell[c][dim])
          BY <3>1 DEF CellDifferences, Source
        <4>2. /\ d.dimension = dim /\ d.at = c
              /\ d.before = SourceCell[c][dim] /\ d.after = file.cell[c][dim]
          BY <4>1 DEF Difference
        <4>3. CASE dim = "text"
          <5>1. c \in EditedCells  BY <2>4, <4>1, <4>3
          <5> QED  BY <2>3, <4>2, <4>3, <5>1 DEF Explained
        <4>4. CASE dim = "type"
          <5>1. c \in EditedCells
            <6> SUFFICES ASSUME c \notin EditedCells PROVE FALSE  OBVIOUS
            <6>1. file.cell[c].text = ""  BY <2>1, <4>1, <4>4 DEF MadeBy
            <6>2. SourceCell[c].text = ""  BY <2>4, <6>1
            <6> QED  BY <4>1, <4>4, <6>1, <6>2 DEF BothEmpty, Source
          <5> QED  BY <4>2, <4>4, <5>1 DEF Explained
        <4>5. CASE dim = "format"
          <5>1. c \in EditedCells /\ ColumnOf(c) \in Forced /\ file.cell[c].format = "@"
            BY <2>1, <4>1, <4>5 DEF MadeBy
          <5> QED  BY <4>2, <4>5, <5>1 DEF Explained
        <4>6. CASE dim = "wrap"
          <5>1. RowOf(c) \in {RowOf(y) : y \in EditedCells} /\ file.cell[c].wrap = "off"
            BY <2>1, <4>1, <4>6 DEF MadeBy
          <5> QED  BY <4>2, <4>6, <5>1 DEF Explained
        <4> QED  BY <4>3, <4>4, <4>5, <4>6 DEF CellDimensions
      <3>2. CASE d \in GeometryDifferences
        <4>1. PICK r \in BookRows : /\ SourceHeight[r] # file.height[r]
                                    /\ d = Difference("height", <<r>>, SourceHeight[r], file.height[r])
          BY <3>2 DEF GeometryDifferences, Source
        <4>2. /\ d.dimension = "height" /\ d.after = file.height[r] /\ RowOf(d.at) = r
          BY <4>1 DEF Difference, RowOf
        <4> QED  BY <2>1, <4>1, <4>2 DEF MadeBy, Explained
      <3>3. d \notin FeatureDifferences  BY <2>1 DEF MadeBy, FeatureDifferences
      <3> QED  BY <3>1, <3>2, <3>3 DEF Differences
    <2>6. ChangesNotPresent = {}
      <3> SUFFICES ASSUME NEW c \in EditedCells, c \notin ChangedCells,
                          NetChange(c).before # NetChange(c).after
                   PROVE  FALSE
        BY DEF ChangesNotPresent
      <3>1. c \in Cells  BY RecordDates DEF EditedCells, IInv
      <3>2. SourceCell[c].text # file.cell[c].text  BY <2>3
      <3> DEFINE d == Difference("text", c, SourceCell[c].text, file.cell[c].text)
      <3>3. <<c, "text">> \in {p \in Cells \X CellDimensions :
                /\ Source.cell[p[1]][p[2]] # file.cell[p[1]][p[2]]
                /\ ~(p[2] = "type" /\ BothEmpty(p[1]))}
        BY <3>1, <3>2 DEF CellDimensions, Source
      <3>4. d \in CellDifferences  BY <3>3 DEF CellDifferences, Source
      <3>5. d.at = c  BY DEF Difference
      <3> HIDE DEF d
      <3>6. c \in ChangedCells  BY <3>4, <3>5 DEF ChangedCells
      <3> QED  BY <3>6
    <2> QED  BY <2>1, <2>5, <2>6 DEF Passed, History, MadeBy
  <1> QED  BY <1>1, Invariance, HistoryInvariance, PTL

-----------------------------------------------------------------------------
(* The other gate: what it decides of a patch on a simulated block is what
   the next reader finds in the file, for any sheet, texts and patches.     *)
LEMMA MinIsLeast ==
  ASSUME NEW S \in SUBSET Nat, S # {}
  PROVE  Min(S) \in S /\ \A m \in S : Min(S) <= m
  BY LeastNumber DEF Min

(* The greatest of some numbers below a bound is that far from it.          *)
LEMMA MaxIsGreatest ==
  ASSUME NEW S \in SUBSET Nat, S # {}, NEW n \in Nat, \A m \in S : m <= n
  PROVE  Max(S) \in S /\ \A m \in S : m <= Max(S)
  <1> DEFINE D == {n - m : m \in S}
  <1>1. D \in SUBSET Nat /\ D # {}
    <2>1. \A m \in S : n - m \in Nat  OBVIOUS
    <2> QED  BY <2>1
  <1>2. \E k \in D : \A m \in D : k <= m
    <2> HIDE DEF D
    <2> QED  BY <1>1, LeastNumber
  <1>3. PICK k \in S : \A m \in S : n - k <= n - m  BY <1>2
  <1>4. \A m \in S : k >= m  BY <1>3
  <1>5. \E x \in S : \A y \in S : x >= y  BY <1>4
  <1>6. Max(S) \in S /\ \A y \in S : Max(S) >= y  BY <1>5 DEF Max
  <1> QED  BY <1>6

-----------------------------------------------------------------------------
(* Segmentation. *)

Keys == {"name", "type", "title", "body", "answer", "answerType", "id", "dependency",
         "choices", "license"}

LEMMA KeysAreColumns == Range(Columns) = Keys
  <1>1. DOMAIN Columns = 1 .. 10  BY DEF Columns
  <1>2. /\ Columns[1] = "name" /\ Columns[2] = "type" /\ Columns[3] = "title"
        /\ Columns[4] = "body" /\ Columns[5] = "answer" /\ Columns[6] = "answerType"
        /\ Columns[7] = "id" /\ Columns[8] = "dependency" /\ Columns[9] = "choices"
        /\ Columns[10] = "license"
    BY DEF Columns
  <1>3. 1 .. 10 = {1, 2, 3, 4, 5, 6, 7, 8, 9, 10}  OBVIOUS
  <1>4. {Columns[i] : i \in 1 .. 10} = Keys
    BY <1>2, <1>3 DEF Keys
  <1> QED  BY <1>1, <1>4 DEF Range

(* The rows the reader looks at for the end of a block. *)
Limit(s, start) == Min({x \in Starts(s) : x > start} \union {LastRow + 1})
Kept(s, start) == {r \in start .. (Limit(s, start) - 1) : r = start \/ ~Blank(s, r)}

(* A block reaches at most to the next problem row.                         *)
LEMMA LimitMeans ==
  ASSUME NEW s, NEW start \in Starts(s)
  PROVE  /\ Limit(s, start) \in (start + 1) .. (LastRow + 1)
         /\ \A x \in Starts(s) : x > start => Limit(s, start) <= x
         /\ Limit(s, start) \in Starts(s) \union {LastRow + 1}
  <1> DEFINE S == {x \in Starts(s) : x > start} \union {LastRow + 1}
  <1>1. LastRow \in Nat /\ start \in 1 .. LastRow  BY PatchAssumption DEF PatchAssumption, Starts, Rows
  <1>2. S \in SUBSET Nat /\ S # {} /\ LastRow + 1 \in S  BY <1>1 DEF Starts, Rows
  <1>3. Min(S) \in S /\ \A m \in S : Min(S) <= m
    <2> HIDE DEF S
    <2> QED  BY <1>2, MinIsLeast
  <1>4. Limit(s, start) = Min(S)  BY DEF Limit
  <1>5. \A m \in S : m > start  BY <1>1
  <1> QED  BY <1>1, <1>2, <1>3, <1>4, <1>5 DEF Starts, Rows

(* Past the end of a block, up to the next one, every row is blank.         *)
LEMMA EndMeans ==
  ASSUME NEW s, NEW start \in Starts(s)
  PROVE  /\ EndOf(s, start) = Max(Kept(s, start))
         /\ EndOf(s, start) \in start .. LastRow
         /\ EndOf(s, start) < Limit(s, start)
         /\ EndOf(s, start) \in Kept(s, start)
         /\ \A r \in Rows : EndOf(s, start) < r /\ r < Limit(s, start) => Blank(s, r)
  <1> DEFINE n == Limit(s, start) - 1
  <1>1. LastRow \in Nat /\ start \in 1 .. LastRow  BY PatchAssumption DEF PatchAssumption, Starts, Rows
  <1>2. n \in start .. LastRow  BY <1>1, LimitMeans
  <1>3. EndOf(s, start) = Max(Kept(s, start))  BY DEF EndOf, Kept, Limit
  <1>4. /\ Kept(s, start) \in SUBSET Nat /\ start \in Kept(s, start)
        /\ \A m \in Kept(s, start) : m <= n
    BY <1>1, <1>2 DEF Kept
  <1>5. Max(Kept(s, start)) \in Kept(s, start) /\ \A m \in Kept(s, start) : m <= Max(Kept(s, start))
    <2>1. n \in Nat  BY <1>1, <1>2
    <2>2. \A S \in SUBSET Nat :
             S # {} /\ (\A m \in S : m <= n) => Max(S) \in S /\ \A m \in S : m <= Max(S)
      <3> HIDE DEF n
      <3> QED  BY <2>1, MaxIsGreatest
    <2> QED  BY <1>4, <2>2
  <1>6. EndOf(s, start) \in start .. n  BY <1>3, <1>5 DEF Kept
  <1>7. ASSUME NEW r \in Rows, EndOf(s, start) < r, r < Limit(s, start)
        PROVE  Blank(s, r)
    <2>1. r \in start .. n  BY <1>1, <1>2, <1>6, <1>7, LimitMeans DEF Rows
    <2>2. r \notin Kept(s, start)  BY <1>1, <1>2, <1>3, <1>5, <1>6, <1>7 DEF Rows
    <2> QED  BY <2>1, <2>2, <1>1, <1>6, <1>7 DEF Kept
  <1> QED  BY <1>1, <1>2, <1>3, <1>5, <1>6, <1>7, LimitMeans

(* What one block reaches to, no other block has.                           *)
LEMMA OneBlock ==
  ASSUME NEW s, NEW a \in Starts(s), NEW c \in Starts(s), a # c
  PROVE  \A r \in c .. (Limit(s, c) - 1) : r \notin a .. EndOf(s, a)
  <1>1. LastRow \in Nat /\ a \in 1 .. LastRow /\ c \in 1 .. LastRow
    BY PatchAssumption DEF PatchAssumption, Starts, Rows
  <1>2. /\ Limit(s, a) \in Nat /\ Limit(s, c) \in Nat
        /\ EndOf(s, a) \in Nat /\ EndOf(s, a) < Limit(s, a)
    BY <1>1, LimitMeans, EndMeans
  <1>3. /\ a < c => Limit(s, a) <= c
        /\ c < a => Limit(s, c) <= a
    BY LimitMeans
  <1> QED  BY <1>1, <1>2, <1>3

-----------------------------------------------------------------------------
(* What is found in a block does not depend on blank rows at its end. *)

Trims(t, b) ==
    /\ t.start = b.start /\ b.start \in t.rows /\ t.rows \subseteq b.rows
    /\ \A r \in t.rows : t.cell[r] = b.cell[r]
    /\ \A r \in b.rows \ t.rows : \A k \in Keys : b.cell[r][k] = ""

LEMMA SameOfType ==
  ASSUME NEW t, NEW b, Trims(t, b), NEW T, "" \notin T
  PROVE  OfType(t, T) = OfType(b, T)
  BY DEF OfType, Trims, Keys

LEMMA SameSteps ==
  ASSUME NEW t, NEW b, Trims(t, b)
  PROVE  \A r : StepOf(t, r) = StepOf(b, r)
  <1>1. OfType(t, {"step"}) = OfType(b, {"step"})  BY SameOfType
  <1> QED  BY <1>1 DEF StepOf

LEMMA SameScopeRows ==
  ASSUME NEW t, NEW b, Trims(t, b)
  PROVE  /\ ScopeRows(t) = ScopeRows(b)
         /\ \A r : SameScope(t, r) = SameScope(b, r)
         /\ \A r : SameScope(t, r) \subseteq ScopeRows(t)
         /\ ScopeRows(t) \subseteq t.rows
  <1>1. \A r \in b.rows \ t.rows : Blank(b.cell, r)  BY KeysAreColumns DEF Trims, Blank
  <1>2. \A r \in t.rows : Blank(b.cell, r) <=> Blank(t.cell, r)  BY DEF Trims, Blank
  <1>3. ScopeRows(t) = ScopeRows(b)  BY <1>1, <1>2 DEF ScopeRows, Trims
  <1> QED  BY <1>3, SameSteps DEF SameScope, ScopeRows

LEMMA SameIdentified ==
  ASSUME NEW t, NEW b, Trims(t, b)
  PROVE  /\ Identified(t, t.rows) = Identified(b, b.rows)
         /\ \A S \in SUBSET t.rows : Identified(t, S) = Identified(b, S)
         /\ \A S \in SUBSET t.rows : Hints(t, S) = Hints(b, S)
  <1>1. Identified(t, t.rows) = Identified(b, b.rows)  BY DEF Identified, Trims, Keys
  <1>2. ASSUME NEW S \in SUBSET t.rows
        PROVE  Identified(t, S) = Identified(b, S) /\ Hints(t, S) = Hints(b, S)
    <2>1. \A r \in S : t.cell[r] = b.cell[r]  BY DEF Trims
    <2>2. Identified(t, S) = Identified(b, S)  BY <2>1 DEF Identified
    <2>3. Hints(t, S) = Hints(b, S)
      <3>1. Identified(b, S) \subseteq S  BY DEF Identified
      <3> QED  BY <2>1, <2>2, <3>1 DEF Hints
    <2> QED  BY <2>2, <2>3
  <1> QED  BY <1>1, <1>2

LEMMA SameReferences ==
  ASSUME NEW t, NEW b, Trims(t, b)
  PROVE  /\ References(t) = References(b) /\ References(t) \subseteq t.rows
         /\ \A r \in t.rows : Dependency(t, r) = Dependency(b, r)
         /\ \A r : IdsOf(t, SameScope(t, r)) = IdsOf(b, SameScope(b, r))
         /\ \A r : Identified(t, SameScope(t, r)) = Identified(b, SameScope(b, r))
         /\ \A r : Hints(t, SameScope(t, r)) = Hints(b, SameScope(b, r))
         /\ IdsOf(t, ScopeRows(t)) = IdsOf(b, ScopeRows(b))
         /\ Identified(t, ScopeRows(t)) = Identified(b, ScopeRows(b))
         /\ Hints(t, ScopeRows(t)) = Hints(b, ScopeRows(b))
  <1>1. \A r \in t.rows : t.cell[r] = b.cell[r]  BY DEF Trims
  <1>2. \A r \in t.rows : Dependency(t, r) = Dependency(b, r)  BY <1>1 DEF Dependency
  <1>3. References(t) = References(b) /\ References(t) \subseteq t.rows
    BY <1>2, SameScopeRows DEF References
  <1>4. ASSUME NEW S \in SUBSET t.rows PROVE IdsOf(t, S) = IdsOf(b, S)
    <2>1. Identified(t, S) = Identified(b, S)  BY SameIdentified
    <2>2. Identified(b, S) \subseteq t.rows  BY DEF Identified
    <2> QED  BY <1>1, <2>1, <2>2 DEF IdsOf
  <1>5. \A r : SameScope(t, r) = SameScope(b, r) /\ SameScope(t, r) \in SUBSET t.rows
    BY SameScopeRows
  <1>6. ScopeRows(t) = ScopeRows(b) /\ ScopeRows(t) \in SUBSET t.rows  BY SameScopeRows
  <1>7. \A S \in SUBSET t.rows :
            Identified(t, S) = Identified(b, S) /\ Hints(t, S) = Hints(b, S)
    BY SameIdentified
  <1> QED  BY <1>2, <1>3, <1>4, <1>5, <1>6, <1>7

LEMMA PreviousHintIsOne ==
  ASSUME NEW b, NEW r \in b.rows, b.rows \subseteq Rows, LastRow \in Nat
  PROVE  Max({h \in Hints(b, SameScope(b, r)) : h < r} \union {0})
            \in {h \in Hints(b, SameScope(b, r)) : h < r} \union {0}
  <1> DEFINE S == {h \in Hints(b, SameScope(b, r)) : h < r} \union {0}
  <1>1. S \in SUBSET Nat /\ S # {} /\ \A m \in S : m <= LastRow
    <2>1. SameScope(b, r) \subseteq 1 .. LastRow  BY DEF SameScope, ScopeRows, Rows
    <2>2. Hints(b, SameScope(b, r)) \subseteq 1 .. LastRow  BY <2>1
                                                                DEF Hints, Identified
    <2>3. \A m \in S : m \in Nat /\ m <= LastRow  BY <2>2
    <2> QED  BY <2>3
  <1>2. Max(S) \in S
    <2> HIDE DEF S
    <2> QED  BY <1>1, MaxIsGreatest
  <1> QED  BY <1>2

(* Every rule finds the same in a block without the blank rows at its end:
   what was found when the patch was simulated is found when the file is read. *)
LEMMA SameFindings ==
  ASSUME NEW t, NEW b, Trims(t, b), b.rows \subseteq Rows, NEW v
  PROVE  RuleFindings(t, v) = RuleFindings(b, v)
  <1>1. \A r \in t.rows : t.cell[r] = b.cell[r]  BY DEF Trims
  <1>2. /\ t.rows \subseteq b.rows /\ t.start = b.start /\ b.start \in t.rows
        /\ \A r \in b.rows \ t.rows : \A k \in Keys : b.cell[r][k] = ""
    BY DEF Trims
  <1>3. /\ OfType(t, {"step"}) = OfType(b, {"step"})
        /\ OfType(t, {"hint"}) = OfType(b, {"hint"})
        /\ OfType(t, {"scaffold"}) = OfType(b, {"scaffold"})
        /\ OfType(t, {"hint", "scaffold"}) = OfType(b, {"hint", "scaffold"})
        /\ OfType(t, {"step", "scaffold"}) = OfType(b, {"step", "scaffold"})
        /\ OfType(t, RowTypes) = OfType(b, RowTypes)
    BY SameOfType DEF RowTypes
  <1>4. \A T : OfType(t, T) \subseteq t.rows  BY DEF OfType
  <1>5. /\ Identified(t, t.rows) = Identified(b, b.rows)
        /\ \A S \in SUBSET t.rows : Identified(t, S) = Identified(b, S)
        /\ \A S \in SUBSET t.rows : Hints(t, S) = Hints(b, S)
    BY SameIdentified
  <1>6. \A S : /\ Identified(t, S) \subseteq S /\ Hints(t, S) \subseteq S
               /\ Identified(b, S) \subseteq S
    BY DEF Identified, Hints
  <1>7. "" \notin DOMAIN Identifier /\ "" \notin DOMAIN Several  BY PatchAssumption DEF PatchAssumption
  <1>8. /\ References(t) = References(b) /\ References(t) \subseteq t.rows
        /\ \A r \in t.rows : Dependency(t, r) = Dependency(b, r)
        /\ \A r : IdsOf(t, SameScope(t, r)) = IdsOf(b, SameScope(b, r))
        /\ \A r : Identified(t, SameScope(t, r)) = Identified(b, SameScope(b, r))
        /\ \A r : Hints(t, SameScope(t, r)) = Hints(b, SameScope(b, r))
        /\ IdsOf(t, ScopeRows(t)) = IdsOf(b, ScopeRows(b))
        /\ Identified(t, ScopeRows(t)) = Identified(b, ScopeRows(b))
        /\ Hints(t, ScopeRows(t)) = Hints(b, ScopeRows(b))
    BY SameReferences
  <1>9. /\ ScopeRows(t) = ScopeRows(b) /\ ScopeRows(t) \subseteq t.rows
        /\ \A r : SameScope(t, r) = SameScope(b, r)
        /\ \A r : SameScope(t, r) \subseteq t.rows
    BY SameScopeRows
  <1>10. \A r : StepOf(t, r) = StepOf(b, r)  BY SameSteps
  <1>11. \A k \in Keys : \A r \in t.rows : Has(t, r, k) <=> Has(b, r, k)  BY <1>1 DEF Has
  <1>12. \A k \in Keys : \A r \in b.rows : Has(b, r, k) => r \in t.rows  BY <1>2 DEF Has
  <1>13. \A r : PreviousHint(t, r) = PreviousHint(b, r)  BY <1>8 DEF PreviousHint
  <1>14. \A r \in t.rows : HintId(t, PreviousHint(t, r)) = HintId(b, PreviousHint(b, r))
    <2>1. ASSUME NEW r \in t.rows
          PROVE  PreviousHint(t, r) = 0 \/ PreviousHint(t, r) \in t.rows
      <3>1. PreviousHint(t, r) \in {h \in Hints(t, SameScope(t, r)) : h < r} \union {0}
        BY PatchAssumption, <1>2, PreviousHintIsOne DEF PreviousHint, PatchAssumption
      <3> QED  BY <1>6, <1>9, <3>1
    <2>2. ASSUME NEW r \in t.rows
          PROVE  HintId(t, PreviousHint(t, r)) = HintId(b, PreviousHint(t, r))
      BY <1>1, <2>1 DEF HintId
    <2> QED  BY <1>13, <2>2
  <1>15. McRows(t) = McRows(b) /\ McRows(t) \subseteq t.rows  BY <1>1, <1>2
                                                                    DEF McRows, Has, Keys
  <1>16. \A r \in t.rows : /\ ChoicesIn(t, r) = ChoicesIn(b, r)
                           /\ Decisive(t, r) <=> Decisive(b, r)
    BY <1>1 DEF ChoicesIn, Decisive, Has
  <1>17. IdentifierMissing(t) = IdentifierMissing(b)
    BY <1>1, <1>3, <1>4 DEF IdentifierMissing
  <1>18. IdentifierMalformed(t) = IdentifierMalformed(b)
    BY <1>1, <1>5, <1>6 DEF IdentifierMalformed
  <1>19. DuplicateIdentifier(t, v) = DuplicateIdentifier(b, v)
    <2>1. \A r \in t.rows :
             Identified(t, UniquenessScope(t, v, r)) = Identified(b, UniquenessScope(b, v, r))
      BY <1>5, <1>8 DEF UniquenessScope
    <2>2. \A r \in t.rows : Identified(t, UniquenessScope(t, v, r)) \subseteq t.rows
      BY <1>6, <1>9 DEF UniquenessScope
    <2> DEFINE Other(x, r, y) == y < r /\ x.cell[y]["id"] = x.cell[r]["id"]
    <2>3. ASSUME NEW r \in t.rows
          PROVE  (\E x \in Identified(t, UniquenessScope(t, v, r)) : Other(t, r, x))
                   <=> (\E x \in Identified(b, UniquenessScope(b, v, r)) : Other(b, r, x))
      BY <1>1, <2>1, <2>2
    <2>4. Identified(t, t.rows) \subseteq t.rows  BY <1>6
    <2> QED  BY <1>5, <2>3, <2>4 DEF DuplicateIdentifier
  <1>20. NamespaceDeviation(t) = NamespaceDeviation(b)
    BY <1>1, <1>3, <1>4 DEF NamespaceDeviation
  <1>21. DependencyUnresolved(t) = DependencyUnresolved(b)
    <2>1. {r \in References(t) : Dependency(t, r) \notin IdsOf(t, SameScope(t, r))}
            = {r \in References(b) : Dependency(b, r) \notin IdsOf(b, SameScope(b, r))}
      BY <1>8
    <2> QED  BY <2>1 DEF DependencyUnresolved
  <1>22. DependencyMultiple(t) = DependencyMultiple(b)
    BY <1>1, <1>2, <1>7 DEF DependencyMultiple, Dependency, Keys
  <1>23. DependencyOnLaterRow(t) = DependencyOnLaterRow(b)
    BY <1>1, <1>6, <1>8, <1>9 DEF DependencyOnLaterRow
  <1>24. DependencyCrossesStep(t, v) = DependencyCrossesStep(b, v)
    <2>1. ASSUME NEW x PROVE OwnerStep(t, x) = OwnerStep(b, x)
      <3>1. {r \in Identified(t, ScopeRows(t)) : t.cell[r]["id"] = x}
              = {r \in Identified(b, ScopeRows(b)) : b.cell[r]["id"] = x}
        BY <1>1, <1>6, <1>8, <1>9
      <3> QED  BY <1>10, <3>1 DEF OwnerStep
    <2> QED  BY <1>8, <1>10, <2>1 DEF DependencyCrossesStep
  <1>25. StepHasDependency(t) = StepHasDependency(b)
    BY <1>3, <1>4, <1>8 DEF StepHasDependency
  <1>26. FirstHintHasDependency(t) = FirstHintHasDependency(b)
    <2> DEFINE Bad(x, r) == PreviousHint(x, r) = 0 /\ Dependency(x, r) # ""
    <2>1. /\ Hints(t, ScopeRows(t)) = Hints(b, ScopeRows(b))
          /\ Hints(t, ScopeRows(t)) \subseteq t.rows
      BY <1>6, <1>8, <1>9
    <2>2. \A r \in t.rows : Bad(t, r) <=> Bad(b, r)  BY <1>8, <1>13
    <2>3. {r \in Hints(t, ScopeRows(t)) : Bad(t, r)}
            = {r \in Hints(b, ScopeRows(b)) : Bad(b, r)}
      <3> HIDE DEF Bad
      <3> QED  BY <2>1, <2>2
    <2> QED  BY <2>3 DEF FirstHintHasDependency
  <1>27. HintDependencyNotPrevious(t) = HintDependencyNotPrevious(b)
    <2> DEFINE Bad(x, r) == /\ PreviousHint(x, r) # 0
                            /\ Dependency(x, r) \notin DOMAIN Several
                            /\ Dependency(x, r) # HintId(x, PreviousHint(x, r))
    <2>1. /\ Hints(t, ScopeRows(t)) = Hints(b, ScopeRows(b))
          /\ Hints(t, ScopeRows(t)) \subseteq t.rows
      BY <1>6, <1>8, <1>9
    <2>2. \A r \in t.rows : Bad(t, r) <=> Bad(b, r)  BY <1>8, <1>13, <1>14
    <2>3. {r \in Hints(t, ScopeRows(t)) : Bad(t, r)}
            = {r \in Hints(b, ScopeRows(b)) : Bad(b, r)}
      <3> HIDE DEF Bad
      <3> QED  BY <2>1, <2>2
    <2> QED  BY <2>3 DEF HintDependencyNotPrevious
  <1>28. ScaffoldDependencyNotHint(t) = ScaffoldDependencyNotHint(b)
    <2> DEFINE Bad(x, r) == /\ Dependency(x, r) \notin DOMAIN Several
                            /\ Dependency(x, r) # HintId(x, PreviousHint(x, r))
    <2>1. /\ (Identified(t, ScopeRows(t)) \ Hints(t, ScopeRows(t)))
             = (Identified(b, ScopeRows(b)) \ Hints(b, ScopeRows(b)))
          /\ (Identified(t, ScopeRows(t)) \ Hints(t, ScopeRows(t))) \subseteq t.rows
      BY <1>6, <1>8, <1>9
    <2>2. \A r \in t.rows : Bad(t, r) <=> Bad(b, r)  BY <1>8, <1>14
    <2>3. {r \in (Identified(t, ScopeRows(t)) \ Hints(t, ScopeRows(t))) : Bad(t, r)}
            = {r \in (Identified(b, ScopeRows(b)) \ Hints(b, ScopeRows(b))) : Bad(b, r)}
      <3> HIDE DEF Bad
      <3> QED  BY <2>1, <2>2
    <2> QED  BY <2>3 DEF ScaffoldDependencyNotHint
  <1>29. DependencyOnSelf(t) = DependencyOnSelf(b)
    BY <1>1, <1>2 DEF DependencyOnSelf, Dependency, Named, Keys
  <1>30. InvalidAnswerType(t) = InvalidAnswerType(b)
    BY <1>1, <1>2 DEF InvalidAnswerType, Keys
  <1>31. AnswerTypeMismatch(t) = AnswerTypeMismatch(b)
    BY <1>1, <1>2 DEF AnswerTypeMismatch, Keys
  <1>32. AnswerWithoutType(t) = AnswerWithoutType(b)
    BY <1>1, <1>3, <1>4 DEF AnswerWithoutType, Has, Graded
  <1>33. StepMissingAnswer(t) = StepMissingAnswer(b)
    BY <1>1, <1>3, <1>4 DEF StepMissingAnswer, Has
  <1>34. ScaffoldMissingAnswer(t) = ScaffoldMissingAnswer(b)
    BY <1>1, <1>3, <1>4 DEF ScaffoldMissingAnswer, Has
  <1>35. HintHasAnswer(t) = HintHasAnswer(b)
    BY <1>1, <1>3, <1>4 DEF HintHasAnswer, Has
  <1>36. HintMissingBody(t) = HintMissingBody(b)
    BY <1>1, <1>3, <1>4 DEF HintMissingBody, Has
  <1>37. ProblemRowHasAnswer(t) = ProblemRowHasAnswer(b)
    <2>1. \A k : {r \in {t.start} : Has(t, r, k)} = {r \in {b.start} : Has(b, r, k)}
      BY <1>1, <1>2 DEF Has
    <2> QED  BY <2>1 DEF ProblemRowHasAnswer
  <1>38. ProblemRowMissingTitle(t) = ProblemRowMissingTitle(b)
    BY <1>1, <1>2 DEF ProblemRowMissingTitle, Has
  <1>39. ProblemMetadataMissing(t) = ProblemMetadataMissing(b)
    BY <1>1, <1>2 DEF ProblemMetadataMissing, Has
  <1>40. McChoicesOnNonMcRow(t) = McChoicesOnNonMcRow(b)
    BY <1>1, <1>15, <1>16 DEF McChoicesOnNonMcRow
  <1>41. McChoiceCount(t) = McChoiceCount(b)
    <2>1. {r \in McRows(t) : Len(ChoicesIn(t, r)) \notin 2 .. 5}
            = {r \in McRows(b) : Len(ChoicesIn(b, r)) \notin 2 .. 5}
      BY <1>15, <1>16
    <2> QED  BY <2>1 DEF McChoiceCount
  <1>42. McEmptyChoice(t) = McEmptyChoice(b)
    <2> DEFINE Bad(x, r) == "" \in Range(ChoicesIn(x, r))
    <2>1. \A r \in t.rows : Bad(t, r) <=> Bad(b, r)  BY <1>1, <1>16 DEF Has
    <2>2. {r \in McRows(t) : Bad(t, r)} = {r \in McRows(b) : Bad(b, r)}
      <3> HIDE DEF Bad
      <3> QED  BY <1>15, <2>1
    <2> QED  BY <2>2 DEF McEmptyChoice
  <1>43. McDuplicateChoice(t) = McDuplicateChoice(b)
    <2> DEFINE Bad(x, r) == \E c \in Range(ChoicesIn(x, r)) \ {""} :
                              Count(ChoicesIn(x, r), c) > 1
    <2>1. \A r \in t.rows : Bad(t, r) <=> Bad(b, r)  BY <1>1, <1>16 DEF Has
    <2>2. {r \in McRows(t) : Bad(t, r)} = {r \in McRows(b) : Bad(b, r)}
      <3> HIDE DEF Bad
      <3> QED  BY <1>15, <2>1
    <2> QED  BY <2>2 DEF McDuplicateChoice
  <1>44. McAnswerNotInChoices(t) = McAnswerNotInChoices(b)
    <2> DEFINE Bad(x, r) == /\ Has(x, r, "answer")
                            /\ x.cell[r]["answer"] \notin Range(ChoicesIn(x, r))
    <2>1. \A r \in t.rows : Bad(t, r) <=> Bad(b, r)  BY <1>1, <1>16 DEF Has
    <2>2. {r \in McRows(t) : Bad(t, r)} = {r \in McRows(b) : Bad(b, r)}
      <3> HIDE DEF Bad
      <3> QED  BY <1>15, <2>1
    <2> QED  BY <2>2 DEF McAnswerNotInChoices
  <1>45. McDistractorEqualsAnswer(t) = McDistractorEqualsAnswer(b)
    <2> DEFINE Bad(x, r) == \E c \in Range(ChoicesIn(x, r)) \ {"", x.cell[r]["answer"]} :
                              /\ Has(x, r, "answer")
                              /\ EquationsEquivalent(x.cell[r]["answer"], c) = "equivalent"
    <2>1. \A r \in t.rows : Bad(t, r) <=> Bad(b, r)  BY <1>1, <1>16 DEF Has
    <2>2. {r \in McRows(t) : Bad(t, r)} = {r \in McRows(b) : Bad(b, r)}
      <3> HIDE DEF Bad
      <3> QED  BY <1>15, <2>1
    <2> QED  BY <2>2 DEF McDistractorEqualsAnswer
  <1>46. McTypeWithoutChoices(t) = McTypeWithoutChoices(b)
    BY <1>1, <1>2 DEF McTypeWithoutChoices, Has, Keys
  <1>47. BlockHasNoStep(t) = BlockHasNoStep(b)
    BY <1>3 DEF BlockHasNoStep
  <1>48. MetadataOnNonProblemRow(t) = MetadataOnNonProblemRow(b)
    BY <1>1, <1>2 DEF MetadataOnNonProblemRow, Has, Keys
  <1>49. RowMissingRequiredContent(t) = RowMissingRequiredContent(b)
    <2> DEFINE D(x, k) == {r \in OfType(x, RowTypes) :
                              k \in Required[x.cell[r]["type"]] /\ ~Has(x, r, k)}
    <2>1. \A k : D(t, k) = D(b, k)  BY <1>1, <1>3, <1>4 DEF Has
    <2>2. \A x : RowMissingRequiredContent(x)
                  = UNION {Found("ROW_MISSING_REQUIRED_CONTENT", D(x, k), k) :
                             k \in {"title", "body"}}
      BY DEF RowMissingRequiredContent
    <2> QED
      <3> HIDE DEF D
      <3> QED  BY <2>1, <2>2
  <1>50. RowHasForbiddenContent(t) = RowHasForbiddenContent(b)
    <2> DEFINE D(x, k) == {r \in OfType(x, RowTypes) :
                              k \in Forbidden[x.cell[r]["type"]] /\ Has(x, r, k)}
    <2>1. \A k : D(t, k) = D(b, k)  BY <1>1, <1>3, <1>4 DEF Has
    <2>2. \A x : RowHasForbiddenContent(x)
                  = UNION {Found("ROW_HAS_FORBIDDEN_CONTENT", D(x, k), k) :
                             k \in {"id", "dependency", "answerType"}}
      BY DEF RowHasForbiddenContent
    <2> QED
      <3> HIDE DEF D
      <3> QED  BY <2>1, <2>2
  <1>51. RowMissingProblemName(t) = RowMissingProblemName(b)
    BY <1>1, <1>2, <1>3, <1>4 DEF RowMissingProblemName, Has
  <1> QED
    BY <1>17, <1>18, <1>19, <1>20, <1>21, <1>22, <1>23, <1>24, <1>25, <1>26, <1>27,
       <1>28, <1>29, <1>30, <1>31, <1>32, <1>33, <1>34, <1>35, <1>36, <1>37, <1>38,
       <1>39, <1>40, <1>41, <1>42, <1>43, <1>44, <1>45, <1>46, <1>47, <1>48, <1>49,
       <1>50, <1>51
    DEF RuleFindings

-----------------------------------------------------------------------------
(* What a repair leaves of the blocks. *)

(* Edits of one block under which it is still one block with a name. *)
Within(s, edits) ==
    /\ \A c \in DOMAIN edits : c[1] \in BlockAt(sheet, s).rows
    /\ ~Broken(Simulated(BlockAt(sheet, s), edits))

LEMMA BlockMeans ==
  ASSUME NEW f, NEW s \in Starts(f)
  PROVE  /\ BlockAt(f, s).start = s /\ BlockAt(f, s).rows = s .. EndOf(f, s)
         /\ s \in BlockAt(f, s).rows /\ BlockAt(f, s).rows \subseteq Rows
         /\ \A r \in BlockAt(f, s).rows : BlockAt(f, s).cell[r] = f[r]
         /\ s \in Rows /\ LastRow \in Nat
  <1>1. LastRow \in Nat /\ s \in 1 .. LastRow  BY PatchAssumption DEF PatchAssumption, Starts, Rows
  <1>2. EndOf(f, s) \in s .. LastRow  BY EndMeans
  <1> QED  BY <1>1, <1>2 DEF BlockAt, Rows

LEMMA SimulatedMeans ==
  ASSUME NEW f, NEW s \in Starts(f), NEW edits
  PROVE  LET p == Simulated(BlockAt(f, s), edits)
         IN  /\ p.start = s /\ p.rows = BlockAt(f, s).rows
             /\ \A r \in p.rows : p.cell[r] =
                    [k \in Range(Columns) |->
                        IF <<r, k>> \in DOMAIN edits THEN edits[<<r, k>>] ELSE f[r][k]]
  BY BlockMeans DEF Simulated, BlockAt

(* What is written is what was simulated, inside the block, and what was
   there, outside.                                                          *)
LEMMA WrittenMeans ==
  ASSUME IsSheet(sheet), NEW s \in Starts(sheet), NEW edits, Within(s, edits)
  PROVE  /\ IsSheet(Written(edits))
         /\ \A r \in BlockAt(sheet, s).rows :
                Written(edits)[r] = Simulated(BlockAt(sheet, s), edits).cell[r]
         /\ \A r \in Rows \ BlockAt(sheet, s).rows : Written(edits)[r] = sheet[r]
  <1>1. IsSheet(Written(edits))  BY DEF IsSheet, Written
  <1>2. ASSUME NEW r \in BlockAt(sheet, s).rows
        PROVE  Written(edits)[r] = Simulated(BlockAt(sheet, s), edits).cell[r]
    <2>1. r \in Rows  BY BlockMeans
    <2>2. r \in Simulated(BlockAt(sheet, s), edits).rows  BY SimulatedMeans
    <2>3. Simulated(BlockAt(sheet, s), edits).cell[r]
            = [k \in Range(Columns) |->
                   IF <<r, k>> \in DOMAIN edits THEN edits[<<r, k>>] ELSE sheet[r][k]]
      BY <2>2, SimulatedMeans
    <2> QED  BY <2>1, <2>3 DEF Written
  <1>3. ASSUME NEW r \in Rows \ BlockAt(sheet, s).rows PROVE Written(edits)[r] = sheet[r]
    <2>1. \A k : <<r, k>> \notin DOMAIN edits
      <3>1. \A k : <<r, k>>[1] = r  OBVIOUS
      <3> QED  BY <1>3, <3>1 DEF Within
    <2>2. Written(edits)[r] = [k \in Range(Columns) |-> sheet[r][k]]  BY <1>3, <2>1
                                                                            DEF Written
    <2>3. sheet[r] = [k \in Range(Columns) |-> sheet[r][k]]  BY <1>3 DEF IsSheet
    <2> QED  BY <2>2, <2>3
  <1> QED  BY <1>1, <1>2, <1>3

(* The next reader cuts the file where this one did.                        *)
LEMMA SameStarts ==
  ASSUME IsSheet(sheet), NEW s \in Starts(sheet), NEW edits, Within(s, edits)
  PROVE  Starts(Written(edits)) = Starts(sheet)
  <1> DEFINE b == BlockAt(sheet, s)
             p == Simulated(b, edits)
  <1>1. /\ p.start = s /\ p.rows = b.rows /\ b.rows = s .. EndOf(sheet, s)
        /\ s \in b.rows /\ b.rows \subseteq Rows
    BY BlockMeans, SimulatedMeans
  <1>2. /\ \A r \in b.rows : Written(edits)[r] = p.cell[r]
        /\ \A r \in Rows \ b.rows : Written(edits)[r] = sheet[r]
    BY WrittenMeans
  <1>3. p.cell[s]["type"] = "problem"  BY <1>1 DEF Within, Broken
  <1>4. ASSUME NEW r \in b.rows, r # s PROVE p.cell[r]["type"] # "problem" /\ r \notin Starts(sheet)
    <2>1. p.cell[r]["type"] # "problem"
      <3>1. r \in Interior(p) => p.cell[r]["type"] # "problem"  BY <1>1 DEF Within, Broken
      <3>2. r \notin Interior(p) => p.cell[r]["type"] = ""
        BY <1>1, <1>4, KeysAreColumns DEF Interior, Blank, Keys
      <3> QED  BY <3>1, <3>2
    <2>2. ASSUME r \in Starts(sheet) PROVE FALSE
      <3>1. r \in r .. (Limit(sheet, r) - 1)  BY <2>2, LimitMeans, BlockMeans DEF Rows
      <3> QED  BY <1>1, <1>4, <2>2, <3>1, OneBlock
    <2> QED  BY <2>1, <2>2
  <1> HIDE DEF b, p
  <1> QED  BY <1>1, <1>2, <1>3, <1>4 DEF Starts

(* Every other block is read as it was.                                     *)
LEMMA OtherBlocks ==
  ASSUME IsSheet(sheet), NEW s \in Starts(sheet), NEW edits, Within(s, edits),
         NEW o \in Starts(sheet), o # s
  PROVE  BlockAt(Written(edits), o) = BlockAt(sheet, o)
  <1>1. Starts(Written(edits)) = Starts(sheet)  BY SameStarts
  <1>2. Limit(Written(edits), o) = Limit(sheet, o)  BY <1>1 DEF Limit
  <1>3. Limit(sheet, o) \in (o + 1) .. (LastRow + 1) /\ o \in 1 .. LastRow /\ LastRow \in Nat
    BY PatchAssumption, LimitMeans DEF Starts, Rows, PatchAssumption
  <1>4. \A r \in o .. (Limit(sheet, o) - 1) : Written(edits)[r] = sheet[r]
    <2>1. \A r \in o .. (Limit(sheet, o) - 1) : r \in Rows  BY <1>3 DEF Rows
    <2>2. \A r \in o .. (Limit(sheet, o) - 1) : r \notin s .. EndOf(sheet, s)  BY OneBlock
    <2>3. BlockAt(sheet, s).rows = s .. EndOf(sheet, s)  BY BlockMeans
    <2>4. \A r \in o .. (Limit(sheet, o) - 1) : r \in Rows \ BlockAt(sheet, s).rows
      BY <2>1, <2>2, <2>3
    <2>5. \A r \in Rows \ BlockAt(sheet, s).rows : Written(edits)[r] = sheet[r]
      BY WrittenMeans
    <2> QED  BY <2>4, <2>5
  <1>5. Kept(Written(edits), o) = Kept(sheet, o)  BY <1>2, <1>4 DEF Kept, Blank
  <1>6. EndOf(Written(edits), o) = EndOf(sheet, o)  BY <1>1, <1>5, EndMeans
  <1>7. \A r \in o .. EndOf(sheet, o) : Written(edits)[r] = sheet[r]
    BY <1>3, <1>4, EndMeans
  <1>8. [r \in o .. EndOf(sheet, o) |-> Written(edits)[r]]
          = [r \in o .. EndOf(sheet, o) |-> sheet[r]]
    BY <1>7
  <1>9. Written(edits)[o] = sheet[o]  BY <1>3, <1>4
  <1> QED  BY <1>6, <1>8, <1>9 DEF BlockAt

(* The repaired block is read as it was simulated, blank end aside.         *)
LEMMA RepairedBlock ==
  ASSUME IsSheet(sheet), NEW s \in Starts(sheet), NEW edits, Within(s, edits)
  PROVE  Trims(BlockAt(Written(edits), s), Simulated(BlockAt(sheet, s), edits))
  <1> DEFINE b == BlockAt(sheet, s)
             p == Simulated(b, edits)
             t == BlockAt(Written(edits), s)
             e == EndOf(Written(edits), s)
  <1>1. Starts(Written(edits)) = Starts(sheet)  BY SameStarts
  <1>2. Limit(Written(edits), s) = Limit(sheet, s)  BY <1>1 DEF Limit
  <1>3. /\ p.start = s /\ p.rows = b.rows /\ b.rows = s .. EndOf(sheet, s) /\ b.rows \subseteq Rows
        /\ t.start = s /\ t.rows = s .. e /\ t.rows \subseteq Rows
        /\ s \in t.rows /\ \A r \in t.rows : t.cell[r] = Written(edits)[r]
        /\ s \in 1 .. LastRow /\ LastRow \in Nat
    BY <1>1, BlockMeans, SimulatedMeans DEF Rows
  <1>4. /\ \A r \in b.rows : Written(edits)[r] = p.cell[r]
        /\ \A r \in Rows \ b.rows : Written(edits)[r] = sheet[r]
    BY WrittenMeans
  <1>5. /\ EndOf(sheet, s) \in s .. LastRow /\ EndOf(sheet, s) < Limit(sheet, s)
        /\ \A r \in Rows : EndOf(sheet, s) < r /\ r < Limit(sheet, s) => Blank(sheet, r)
    BY EndMeans
  <1>6. /\ e \in s .. LastRow /\ e < Limit(sheet, s)
        /\ \A r \in Rows : e < r /\ r < Limit(sheet, s) => Blank(Written(edits), r)
    BY <1>1, <1>2, EndMeans
  <1>7. e \in Kept(Written(edits), s)
    BY <1>1, EndMeans
  <1>8. e <= EndOf(sheet, s)
    <2> SUFFICES ASSUME e > EndOf(sheet, s) PROVE FALSE  BY <1>3, <1>5, <1>6
    <2>1. e \in Rows \ b.rows /\ e # s  BY <1>3, <1>5, <1>6 DEF Rows
    <2>2. Blank(sheet, e)  BY <1>5, <1>6, <2>1
    <2>3. Blank(Written(edits), e)  BY <1>4, <2>1, <2>2 DEF Blank
    <2> QED  BY <1>7, <2>1, <2>3 DEF Kept
  <1>9. t.rows \subseteq p.rows  BY <1>3, <1>5, <1>6, <1>8
  <1>10. ASSUME NEW r \in p.rows \ t.rows PROVE \A k \in Keys : p.cell[r][k] = ""
    <2>1. r \in Rows /\ e < r /\ r < Limit(sheet, s)
      BY <1>3, <1>5, <1>6, <1>10, LimitMeans DEF Rows
    <2>2. Blank(Written(edits), r)  BY <1>6, <2>1
    <2> QED  BY <1>3, <1>4, <1>10, <2>2, KeysAreColumns DEF Blank
  <1> HIDE DEF b, p, t
  <1> QED
    <2>1. Trims(t, p)  BY <1>3, <1>4, <1>9, <1>10 DEF Trims
    <2> QED  BY <2>1 DEF b, p, t

-----------------------------------------------------------------------------
(* One repair. *)

(* An issue is opened on a block the reader cut.                            *)
LEMMA IssueOnBlock ==
  ASSUME NEW issue \in RuleIssues(sheet) \union ModelIssues(sheet)
  PROVE  issue.start \in Starts(sheet)
  <1>1. \A b \in Blocks(sheet) : b.start \in Starts(sheet)  BY DEF Blocks, BlockAt
  <1>2. CASE issue \in ModelIssues(sheet)
    <2>1. PICK x \in Blocks(sheet) \X ModelCells \X ModelCategories : issue.start = x[1].start
      BY <1>2 DEF ModelIssues
    <2> QED  BY <1>1, <2>1
  <1>3. CASE issue \in RuleIssues(sheet)
    <2> DEFINE ByName == {[start |-> f[2], source |-> "rule", codes |-> {f[1]}, cells |-> {},
                           category |-> "structure", structural |-> FALSE] :
                              f \in DuplicateNames(Blocks(sheet))}
    <2>1. CASE \E b \in Blocks(sheet) : \E f : issue = RuleIssue(b, f)
      BY <1>1, <2>1 DEF RuleIssue
    <2>2. CASE issue \in ByName
      <3>1. PICK f \in DuplicateNames(Blocks(sheet)) : issue.start = f[2]  BY <2>2
      <3>2. PICK b \in Blocks(sheet) : f = <<"DUPLICATE_PROBLEM_NAME", b.start, "">>
        BY <3>1 DEF DuplicateNames
      <3> QED  BY <1>1, <3>1, <3>2
    <2>3. (\E b \in Blocks(sheet) : \E f : issue = RuleIssue(b, f)) \/ issue \in ByName
      <3> DEFINE OfBlock(b) == {RuleIssue(b, f) : f \in
                     {x \in RuleFindings(b, Conventions(sheet)) \union ReaderFindings(b) :
                        Actionable(x, Conventions(sheet))}}
      <3>0. RuleIssues(sheet) = (UNION {OfBlock(b) : b \in Blocks(sheet)}) \union ByName
        BY DEF RuleIssues
      <3>1. issue \in UNION {OfBlock(b) : b \in Blocks(sheet)} \/ issue \in ByName
        <4> HIDE DEF OfBlock, ByName
        <4> QED  BY <1>3, <3>0
      <3>2. \A b : issue \in OfBlock(b) => \E f : issue = RuleIssue(b, f)  OBVIOUS
      <3> HIDE DEF OfBlock, ByName
      <3> QED  BY <3>1, <3>2
    <2> QED  BY <2>1, <2>2, <2>3
  <1> QED  BY <1>2, <1>3

(* An accepted repair, as the rest needs it. *)
Accepts(issue, edits) ==
    LET s == issue.start
        b == BlockAt(sheet, s)
        p == Simulated(b, edits)
        v == Conventions(sheet)
    IN  /\ s \in Starts(sheet) /\ Within(s, edits) /\ sheet' = Written(edits)
        /\ {f \in RuleFindings(p, v) : Serious(f, v)} \subseteq RuleFindings(b, v)
        /\ targets' = [start |-> s,
                       findings |-> IF Checkable(issue) THEN Targets(issue, b, v) ELSE {}]
        /\ Checkable(issue) /\ Targets(issue, b, v) # {} => Targets(issue, p, v) = {}

(* What the gate has seen to when a repair is applied.                      *)
LEMMA RepairAccepts ==
  ASSUME Repair
  PROVE  \E issue, edits : Accepts(issue, edits)
  <1>1. PICK issue \in RuleIssues(sheet) \union ModelIssues(sheet) :
           LET b == BlockAt(sheet, issue.start)
               conventions == Conventions(sheet)
           IN  \E cells \in EditSets(b) : \E edits \in EditsOn(cells) : \E written \in BOOLEAN :
                   /\ Accepted(issue, b, [edits |-> edits, derived |-> written, argued |-> written],
                               conventions)
                   /\ sheet' = Written(edits)
                   /\ targets' = [start |-> b.start,
                                  findings |-> IF Checkable(issue)
                                               THEN Targets(issue, b, conventions) ELSE {}]
    BY DEF Repair
  <1> DEFINE b == BlockAt(sheet, issue.start)
             v == Conventions(sheet)
  <1>2. PICK edits, written :
           /\ Accepted(issue, b, [edits |-> edits, derived |-> written, argued |-> written], v)
           /\ sheet' = Written(edits)
           /\ targets' = [start |-> b.start,
                          findings |-> IF Checkable(issue) THEN Targets(issue, b, v) ELSE {}]
    BY <1>1
  <1>3. issue.start \in Starts(sheet) /\ b.start = issue.start  BY IssueOnBlock DEF BlockAt
  <1>4. /\ \A c \in DOMAIN edits : c[1] \in b.rows
        /\ ~Broken(Simulated(b, edits))
        /\ Regressions(b, Simulated(b, edits), v) = {}
        /\ Checkable(issue) /\ Targets(issue, b, v) # {} => Resolves(issue, b, edits, v)
    <2> HIDE DEF b, v
    <2>1. [edits |-> edits, derived |-> written, argued |-> written].edits = edits  OBVIOUS
    <2> QED  BY <1>2, <2>1 DEF Accepted
  <1>5. Within(issue.start, edits)  BY <1>4 DEF Within
  <1>6. {f \in RuleFindings(Simulated(b, edits), v) : Serious(f, v)}
          \subseteq RuleFindings(b, v)
    BY <1>4 DEF Regressions
  <1>7. Checkable(issue) /\ Targets(issue, b, v) # {} =>
            Targets(issue, Simulated(b, edits), v) = {}
    BY <1>4 DEF Resolves
  <1>8. Accepts(issue, edits)  BY <1>2, <1>3, <1>5, <1>6, <1>7 DEF Accepts
  <1> QED  BY <1>8

(* A repair leaves every other cell of the file as it was.                  *)
LEMMA SheetStays ==
  PatchSpec => []IsSheet(sheet)
  <1>1. PatchInit => IsSheet(sheet)  BY PatchAssumption DEF PatchInit, PatchAssumption
  <1>2. IsSheet(sheet) /\ [PatchNext]_patchVars => IsSheet(sheet)'
    <2> SUFFICES ASSUME IsSheet(sheet), [PatchNext]_patchVars PROVE IsSheet(sheet)'  OBVIOUS
    <2>1. CASE Repair
      <3>1. PICK issue, edits : Accepts(issue, edits)  BY <2>1, RepairAccepts
      <3>2. IsSheet(Written(edits))  BY <3>1, WrittenMeans DEF Accepts
      <3> QED  BY <3>1, <3>2 DEF Accepts
    <2>2. CASE UNCHANGED patchVars  BY <2>2 DEF patchVars, IsSheet, Rows
    <2> QED  BY <2>1, <2>2 DEF PatchNext
  <1> QED  BY <1>1, <1>2, PTL DEF PatchSpec

(* What a step may do to the blocks. *)
LEMMA BlocksStep ==
  ASSUME IsSheet(sheet), Repair
  PROVE  /\ Starts(sheet') = Starts(sheet)
         /\ \A s \in Starts(sheet) : sheet'[s]["name"] = "" => sheet[s]["name"] = ""
  <1>1. PICK issue, edits : Accepts(issue, edits)  BY RepairAccepts
  <1> DEFINE s == issue.start
             p == Simulated(BlockAt(sheet, s), edits)
  <1>2. s \in Starts(sheet) /\ Within(s, edits) /\ sheet' = Written(edits)  BY <1>1
                                                                                DEF Accepts
  <1>3. Starts(sheet') = Starts(sheet)  BY <1>2, SameStarts
  <1>4. p.start = s /\ sheet'[s] = p.cell[s]  BY <1>2, WrittenMeans, BlockMeans, SimulatedMeans
  <1>5. p.cell[p.start]["name"] # ""  BY <1>2 DEF Within, Broken
  <1>6. sheet'[s]["name"] # ""  BY <1>4, <1>5
  <1>7. ASSUME NEW o \in Starts(sheet), o # s PROVE sheet'[o] = sheet[o]
    <2>1. o \in o .. (Limit(sheet, o) - 1) /\ o \in Rows  BY <1>7, LimitMeans, BlockMeans
                                                            DEF Rows
    <2>2. o \notin s .. EndOf(sheet, s)  BY <1>2, <1>7, <2>1, OneBlock
    <2>3. o \in Rows \ BlockAt(sheet, s).rows  BY <1>2, <2>1, <2>2, BlockMeans
    <2>4. \A r \in Rows \ BlockAt(sheet, s).rows : Written(edits)[r] = sheet[r]
      BY <1>2, WrittenMeans
    <2> QED  BY <1>2, <2>3, <2>4
  <1> QED  BY <1>3, <1>6, <1>7

LEMMA FindingsStep ==
  ASSUME IsSheet(sheet), NEW issue, NEW edits, Accepts(issue, edits), NEW v
  PROVE  /\ Starts(sheet') = Starts(sheet)
         /\ RuleFindings(BlockAt(sheet', issue.start), v)
              = RuleFindings(Simulated(BlockAt(sheet, issue.start), edits), v)
         /\ \A o \in Starts(sheet) \ {issue.start} : BlockAt(sheet', o) = BlockAt(sheet, o)
  <1>1. issue.start \in Starts(sheet) /\ Within(issue.start, edits) /\ sheet' = Written(edits)
    BY DEF Accepts
  <1>2. Starts(sheet') = Starts(sheet)  BY <1>1, SameStarts
  <1>3. Trims(BlockAt(sheet', issue.start), Simulated(BlockAt(sheet, issue.start), edits))
    BY <1>1, RepairedBlock
  <1>4. Simulated(BlockAt(sheet, issue.start), edits).rows \subseteq Rows
    BY <1>1, BlockMeans, SimulatedMeans
  <1>5. RuleFindings(BlockAt(sheet', issue.start), v)
          = RuleFindings(Simulated(BlockAt(sheet, issue.start), edits), v)
    BY <1>3, <1>4, SameFindings
  <1> QED  BY <1>1, <1>2, <1>5, OtherBlocks

RuleStep ==
    Conventions(sheet') = Conventions(sheet) =>
        LET conventions == Conventions(sheet)
        IN  \A b \in Blocks(sheet') :
                {f \in RuleFindings(b, conventions) : Serious(f, conventions)}
                    \subseteq RuleFindings(BlockAt(sheet, b.start), conventions)
ResolvedStep ==
    Conventions(sheet') = Conventions(sheet) =>
        \A f \in targets'.findings :
            f \notin RuleFindings(BlockAt(sheet', targets'.start), Conventions(sheet))

LEMMA RulesStep ==
  ASSUME IsSheet(sheet), Repair
  PROVE  RuleStep
  <1>1. PICK issue, edits : Accepts(issue, edits)  BY RepairAccepts
  <1> DEFINE v == Conventions(sheet)
             Old(s) == RuleFindings(BlockAt(sheet, s), v)
             New(s) == RuleFindings(BlockAt(sheet', s), v)
  <1>2. Starts(sheet') = Starts(sheet)  BY <1>1, FindingsStep
  <1>3. ASSUME NEW s \in Starts(sheet) PROVE {f \in New(s) : Serious(f, v)} \subseteq Old(s)
    <2>1. CASE s = issue.start
      <3>1. New(s) = RuleFindings(Simulated(BlockAt(sheet, s), edits), v)
        BY <1>1, <2>1, FindingsStep
      <3> QED  BY <1>1, <2>1, <3>1 DEF Accepts
    <2>2. CASE s # issue.start
      <3>1. New(s) = Old(s)  BY <1>1, <2>2, FindingsStep
      <3> QED  BY <3>1
    <2> QED  BY <2>1, <2>2
  <1>4. \A b \in Blocks(sheet') : \E s \in Starts(sheet) : b = BlockAt(sheet', s) /\ b.start = s
    BY <1>2 DEF Blocks, BlockAt
  <1>5. ASSUME NEW b \in Blocks(sheet')
        PROVE  {f \in RuleFindings(b, v) : Serious(f, v)} \subseteq RuleFindings(BlockAt(sheet, b.start), v)
    BY <1>3, <1>4
  <1> QED  BY <1>5 DEF RuleStep

LEMMA ResolveStep ==
  ASSUME IsSheet(sheet), Repair
  PROVE  ResolvedStep
  <1>1. PICK issue, edits : Accepts(issue, edits)  BY RepairAccepts
  <1> DEFINE v == Conventions(sheet)
             b == BlockAt(sheet, issue.start)
             p == Simulated(b, edits)
             New == RuleFindings(BlockAt(sheet', issue.start), v)
  <1>2. targets'.start = issue.start
        /\ targets'.findings = IF Checkable(issue) THEN Targets(issue, b, v) ELSE {}
    BY <1>1 DEF Accepts
  <1>3. New = RuleFindings(p, v)  BY <1>1, FindingsStep
  <1>4. ASSUME NEW f \in targets'.findings, f \in New PROVE FALSE
    <2>1. Checkable(issue) /\ f \in Targets(issue, b, v)  BY <1>2, <1>4
    <2>2. f \in Targets(issue, p, v)  BY <1>3, <1>4, <2>1 DEF Targets
    <2>3. Targets(issue, p, v) = {}  BY <1>1, <2>1 DEF Accepts
    <2> QED  BY <2>2, <2>3
  <1> QED  BY <1>2, <1>4 DEF ResolvedStep

(* For any sheet, texts and patches, an accepted patch keeps the blocks: every
   problem row stays one, no row becomes one, and none loses its name
   (validation/patch_gate.py: _block_invariants_broken).                    *)
THEOREM PatchKeepsBlocks == PatchSpec => BlocksStay
  <1>1. IsSheet(sheet) /\ [PatchNext]_patchVars =>
            [/\ Starts(sheet') = Starts(sheet)
             /\ \A s \in Starts(sheet) : sheet'[s]["name"] = "" => sheet[s]["name"] = ""]_sheet
    BY BlocksStep DEF PatchNext, patchVars
  <1> QED  BY <1>1, SheetStays, PTL DEF PatchSpec, BlocksStay

(* While the conventions stay, no accepted patch leaves a serious finding of a
   rule that the block did not have when it was read
   (validation/patch_gate.py: regressions_introduced).                      *)
THEOREM PatchBreaksNothing == PatchSpec => RulesNeverWorse
  <1>1. IsSheet(sheet) /\ [PatchNext]_patchVars =>
            [Conventions(sheet') = Conventions(sheet) =>
               LET conventions == Conventions(sheet)
               IN  \A b \in Blocks(sheet') :
                       {f \in RuleFindings(b, conventions) : Serious(f, conventions)}
                           \subseteq RuleFindings(BlockAt(sheet, b.start), conventions)]_sheet
    BY RulesStep DEF PatchNext, patchVars, RuleStep
  <1> QED  BY <1>1, SheetStays, PTL DEF PatchSpec, RulesNeverWorse

(* And the findings a repair was accepted for are not found again when the file
   is read (validation/patch_gate.py: target_findings, _still_present).     *)
THEOREM PatchResolves == PatchSpec => RepairHolds
  <1>1. IsSheet(sheet) /\ [PatchNext]_patchVars =>
            [Conventions(sheet') = Conventions(sheet) =>
               \A f \in targets'.findings :
                   f \notin RuleFindings(BlockAt(sheet', targets'.start), Conventions(sheet))]_patchVars
    BY ResolveStep DEF PatchNext, ResolvedStep
  <1> QED  BY <1>1, SheetStays, PTL DEF PatchSpec, RepairHolds

=============================================================================
