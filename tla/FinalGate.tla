----------------------------- MODULE FinalGate -----------------------------
(***************************************************************************)
(* The working copy, the change log and the deterministic gate that        *)
(* compares them with the source workbook (validation/final_gate.py,       *)
(* workbook/diff.py, workbook/writer.py, workbook/styles.py).              *)
(*                                                                         *)
(* A worker verifies a batch of edits against the file it loaded, saves    *)
(* the whole file and records one change per cell.  It may be taken over   *)
(* while it is between two of these steps, and its save may then land on   *)
(* its successor's.  Something outside the job may damage the file.        *)
(*                                                                         *)
(* A cell is reduced to what the gate tells apart and an edit may change:  *)
(* its text, its data type, its number format and its wrap flag.  Every    *)
(* other compared dimension is one member of Untouchable.                  *)
(***************************************************************************)
EXTENDS Naturals, Sequences, FiniteSets, SequencesExt, FiniteSetsExt

CONSTANTS
    BookRows, BookColumns, \* the curated sheet's cells
    Forced,             \* the columns written with the text number format
    Texts,              \* what an edit may write
    SourceCell,         \* [Cells -> AnyCell]: the submitted workbook
    SourceHeight,       \* [BookRows -> AnyHeight]
    Untouchable,        \* dimensions no edit may change, other sheets included
    MaxBatches,         \* bound: no batch is begun after so many readings of the clock
    MaxSweeps,          \* bound: recoveries that begin again, by the same count
    MaxCells,           \* bound: cells one batch edits
    MaxDamage           \* bound: changes made outside the job

Cells == BookRows \X BookColumns
AnyText == Texts \union {SourceCell[c].text : c \in Cells}
AnyCell == [text : AnyText, type : {"n", "s"}, format : {"@", "General"}, wrap : {"on", "off"}]
AnyHeight == {"own", "15"}

ASSUME GateAssumption ==
    /\ IsFiniteSet(Cells) /\ Forced \subseteq BookColumns
    /\ SourceCell \in [Cells -> AnyCell] /\ SourceHeight \in [BookRows -> AnyHeight]
    /\ MaxBatches \in Nat /\ MaxSweeps \in Nat /\ MaxDamage \in Nat

RowOf(c) == c[1]
ColumnOf(c) == c[2]
CellDimensions == {"text", "type", "format", "wrap"}
Workers == {1, 2}

VARIABLES
    file,       \* the working copy: its cells, row heights and damaged dimensions
    ledger,     \* the change records, in the order they were committed
    clock,      \* the time, as the number of readings of it
    owner,      \* the worker that holds the lease
    pending,    \* per worker: the batch it is applying
    intent,     \* per worker: its open apply intent, with the texts it found
    intact,     \* the source file still has its hash
    damage      \* changes made outside the job so far

vars == <<file, ledger, clock, owner, pending, intent, intact, damage>>

Source == [cell |-> SourceCell, height |-> SourceHeight, other |-> {}, readable |-> TRUE]
Idle == [stage |-> "idle"]

Init ==
    /\ file = Source
    /\ ledger = <<>>
    /\ clock = 0
    /\ owner = 1
    /\ pending = [w \in Workers |-> Idle]
    /\ intent = [w \in Workers |-> Idle]
    /\ intact = TRUE
    /\ damage = 0

-----------------------------------------------------------------------------
(* Writing.                                                                *)

\* A correction is text; answers and choices are given the text format.
WrittenCell(cell, column, text) ==
    [cell EXCEPT !.text = text, !.type = "s",
                 !.format = IF column \in Forced THEN "@" ELSE @]

\* A save turns an empty string into an empty cell.
Saved(cell) == IF cell.text = "" THEN [cell EXCEPT !.type = "n"] ELSE cell

EditedRows(edits) == {RowOf(c) : c \in DOMAIN edits}

\* Wrap is turned off across an edited row, and its height is set.
Unwrapped(cell, row, edits) ==
    IF row \in EditedRows(edits) THEN [cell EXCEPT !.wrap = "off"] ELSE cell

Edited(base, edits) ==
    [base EXCEPT
        !.cell = [c \in Cells |->
            LET written == IF c \in DOMAIN edits
                           THEN WrittenCell(base.cell[c], ColumnOf(c), edits[c])
                           ELSE base.cell[c]
            IN  Saved(Unwrapped(written, RowOf(c), edits))],
        !.height = [r \in BookRows |-> IF r \in EditedRows(edits) THEN "15" ELSE @[r]]]

Changes(edits, base, at) ==
    [c \in DOMAIN edits |->
        [cell |-> c, before |-> base.cell[c].text, after |-> edits[c], at |-> at]]

\* The records of one batch; their order among themselves is immaterial.
Records(edits, base, at) ==
    LET change == Changes(edits, base, at)
    IN  SetToSeq({change[c] : c \in DOMAIN edits})

Open == {w \in Workers : intent[w] # Idle}

\* The intent is committed, the file loaded and every edit verified.
Begin(w) ==
    /\ w = owner /\ pending[w] = Idle /\ Open = {}
    /\ intact /\ file.readable
    /\ clock < MaxBatches
    /\ \E cells \in kSubset(1, Cells) \union kSubset(MaxCells, Cells) :
       \E edits \in [cells -> Texts] :
        LET batch == [stage |-> "loaded", base |-> file, edits |-> edits, at |-> clock + 1]
        IN  /\ \A c \in cells : edits[c] # file.cell[c].text
            /\ pending' = [pending EXCEPT ![w] = batch]
            /\ intent' = [intent EXCEPT ![w] = batch]
    /\ clock' = clock + 1
    /\ UNCHANGED <<file, ledger, owner, intact, damage>>

\* The save replaces the whole file: whatever it held since the load is gone.
Save(w) ==
    /\ pending[w].stage = "loaded"
    /\ file' = Edited(pending[w].base, pending[w].edits)
    /\ pending' = [pending EXCEPT ![w].stage = "saved"]
    /\ UNCHANGED <<ledger, clock, owner, intent, intact, damage>>

\* No statement here asks whose lease it is.
Record(w) ==
    /\ pending[w].stage = "saved"
    /\ ledger' = ledger \o Records(pending[w].edits, pending[w].base, pending[w].at)
    /\ pending' = [pending EXCEPT ![w].stage = "recorded"]
    /\ UNCHANGED <<file, clock, owner, intent, intact, damage>>

\* The intent is settled in a commit of its own.
Settle(w) ==
    /\ pending[w].stage = "recorded"
    /\ pending' = [pending EXCEPT ![w] = Idle]
    /\ intent' = [intent EXCEPT ![w] = Idle]
    /\ UNCHANGED <<file, ledger, clock, owner, intact, damage>>

Holds(edits) == \A c \in DOMAIN edits : file.cell[c].text = edits[c]
Untouched(batch) == \A c \in DOMAIN batch.edits : file.cell[c].text = batch.base.cell[c].text

\* Recovery settles the predecessor's intent by what the cells hold: a batch
\* they hold is recorded, whether or not it was before, and settled later.
Recovers ==
    IF 1 \in Open /\ Holds(intent[1].edits)
    THEN /\ ledger' = ledger \o Records(intent[1].edits, intent[1].base, clock + 1)
         /\ clock' = clock + 1
         /\ UNCHANGED intent
    ELSE /\ 1 \in Open => Untouched(intent[1])
         /\ intent' = [intent EXCEPT ![1] = Idle]
         /\ UNCHANGED <<ledger, clock>>

\* The predecessor has crashed, or is only stalled and still to finish.
TakeOver ==
    /\ owner = 1 /\ intact /\ file.readable
    /\ owner' = 2
    /\ Recovers
    /\ pending' \in {pending, [pending EXCEPT ![1] = Idle]}
    /\ UNCHANGED <<file, intact, damage>>

RecoverySettles ==
    /\ owner = 2 /\ 1 \in Open
    /\ intent' = [intent EXCEPT ![1] = Idle]
    /\ UNCHANGED <<file, ledger, clock, owner, pending, intact, damage>>

\* The recovery died between its two commits, and the next one reads again.
RecoversAgain ==
    /\ owner = 2 /\ 1 \in Open /\ intact /\ file.readable
    /\ clock < MaxBatches + MaxSweeps
    /\ Recovers
    /\ UNCHANGED <<file, owner, pending, intact, damage>>

-----------------------------------------------------------------------------
(* What the job did not do.                                                *)

Damaged == damage < MaxDamage /\ damage' = damage + 1
OnlyDamage == UNCHANGED <<ledger, clock, owner, pending, intent>>

CellDamaged ==
    /\ Damaged /\ OnlyDamage
    /\ \E c \in Cells :
        \/ \E text \in Texts : file' = [file EXCEPT !.cell[c].text = text]
        \/ \E type \in {"n", "s"} : file' = [file EXCEPT !.cell[c].type = type]
        \/ \E format \in {"@", "General"} : file' = [file EXCEPT !.cell[c].format = format]
        \/ \E wrap \in {"on", "off"} : file' = [file EXCEPT !.cell[c].wrap = wrap]
    /\ file' # file
    /\ UNCHANGED intact

SheetDamaged ==
    /\ Damaged /\ OnlyDamage
    /\ \/ \E r \in BookRows, h \in {"own", "15"} : file' = [file EXCEPT !.height[r] = h]
       \/ \E d \in Untouchable : file' = [file EXCEPT !.other = @ \union {d}]
       \/ file' = [file EXCEPT !.readable = FALSE]
    /\ file' # file
    /\ UNCHANGED intact

SourceModified ==
    /\ Damaged /\ OnlyDamage
    /\ intact' = FALSE
    /\ UNCHANGED file

-----------------------------------------------------------------------------
(* The comparison.                                                         *)

Difference(dimension, at, before, after) ==
    [dimension |-> dimension, at |-> at, before |-> before, after |-> after]

BothEmpty(c) == Source.cell[c].text = "" /\ file.cell[c].text = ""

CellDifferences ==
    {Difference(x[2], x[1], Source.cell[x[1]][x[2]], file.cell[x[1]][x[2]]) :
        x \in {p \in Cells \X CellDimensions :
            /\ Source.cell[p[1]][p[2]] # file.cell[p[1]][p[2]]
            /\ ~(p[2] = "type" /\ BothEmpty(p[1]))}}

GeometryDifferences ==
    {Difference("height", <<r>>, Source.height[r], file.height[r]) :
        r \in {x \in BookRows : Source.height[x] # file.height[x]}}

FeatureDifferences == {Difference(d, <<>>, "as submitted", "changed") : d \in file.other}

Differences == CellDifferences \union GeometryDifferences \union FeatureDifferences

-----------------------------------------------------------------------------
(* The reconciliation.                                                     *)

EditedCells == {ledger[i].cell : i \in DOMAIN ledger}
HistoryOf(c) == {i \in DOMAIN ledger : ledger[i].cell = c}

\* The records are read back in the order of their times.
Earlier(i, j) == ledger[i].at < ledger[j].at \/ (ledger[i].at = ledger[j].at /\ i < j)
First(c) == CHOOSE i \in HistoryOf(c) : \A j \in HistoryOf(c) \ {i} : Earlier(i, j)
Latest(c) == CHOOSE i \in HistoryOf(c) : \A j \in HistoryOf(c) \ {i} : Earlier(j, i)

\* Mutant: a cell's differences are matched with its last record alone.
LastChange(c) == [before |-> ledger[Latest(c)].before, after |-> ledger[Latest(c)].after]

\* A cell's edit history collapsed into its net effect.
NetChange(c) == [before |-> ledger[First(c)].before, after |-> ledger[Latest(c)].after]

\* Mutant: a cell the log names may hold anything.
AnyTextExplained(d) ==
    \/ d.dimension \in {"text", "type"} /\ d.at \in EditedCells
    \/ d.dimension = "format" /\ d.at \in EditedCells /\ d.after = "@"
    \/ d.dimension = "wrap" /\ d.after = "off"
    \/ d.dimension = "height" /\ d.after = "15"

Explained(d) ==
    \/ /\ d.dimension = "text" /\ d.at \in EditedCells
       /\ NetChange(d.at) = [before |-> d.before, after |-> d.after]
    \/ d.dimension = "type" /\ d.at \in EditedCells
    \/ /\ d.dimension = "format" /\ d.at \in EditedCells
       /\ ColumnOf(d.at) \in Forced /\ d.after = "@"
    \/ /\ d.dimension = "wrap" /\ d.after = "off"
       /\ RowOf(d.at) \in {RowOf(c) : c \in EditedCells}
    \/ /\ d.dimension = "height" /\ d.after = "15"
       /\ RowOf(d.at) \in {RowOf(c) : c \in EditedCells}

Unexplained == {d \in Differences : ~Explained(d)}

\* The cells with a difference in any dimension.
ChangedCells == {d.at : d \in CellDifferences}

\* Mutant: a recorded change is looked for in its row.
PresentInRow ==
    {c \in EditedCells :
        /\ NetChange(c).before # NetChange(c).after
        /\ RowOf(c) \notin {RowOf(x) : x \in ChangedCells}}

ChangesNotPresent ==
    {c \in EditedCells : c \notin ChangedCells /\ NetChange(c).before # NetChange(c).after}

Passed == intact /\ file.readable /\ Unexplained = {} /\ ChangesNotPresent = {}

-----------------------------------------------------------------------------

WorkerStep == \E w \in Workers : Begin(w) \/ Save(w) \/ Record(w) \/ Settle(w)
RecoveryStep == TakeOver \/ RecoverySettles \/ RecoversAgain
Outside == CellDamaged \/ SheetDamaged \/ SourceModified

Next == WorkerStep \/ RecoveryStep \/ Outside

Spec == Init /\ [][Next]_vars

-----------------------------------------------------------------------------
(* Properties.                                                             *)

\* What a workbook, a batch and a change record are.
Workbook == [cell : [Cells -> AnyCell], height : [BookRows -> AnyHeight],
             other : SUBSET Untouchable, readable : BOOLEAN]
Edits == UNION {[S -> Texts] : S \in SUBSET Cells}
Batch == [stage : {"loaded", "saved", "recorded"}, base : Workbook, edits : Edits, at : Nat]
Change == [cell : Cells, before : AnyText, after : AnyText, at : Nat]

TypeOK ==
    /\ file \in Workbook /\ ledger \in Seq(Change) /\ clock \in Nat /\ owner \in Workers
    /\ pending \in [Workers -> Batch \union {Idle}]
    /\ intent \in [Workers -> Batch \union {Idle}]
    /\ intact \in BOOLEAN /\ damage \in Nat

\* The gate runs when the worker that owns the job has nothing open.
Settled == pending[owner] = Idle /\ Open = {}

\* No save waits for its records, a stalled worker's included.
Recorded == Settled /\ \A w \in Workers : pending[w].stage # "saved"

\* The submitted workbook with the first n recorded changes made.
Replayed[n \in 0 .. Len(ledger)] ==
    IF n = 0 THEN Source
    ELSE Edited(Replayed[n - 1], [c \in {ledger[n].cell} |-> ledger[n].after])

\* The records were committed in the order of their times.
Orderly == \A n \in DOMAIN ledger : n > 1 => ledger[n - 1].at <= ledger[n].at

\* A job that wrote what it recorded, in the order it recorded it, is not
\* failed by the gate: not for a cell repaired and repaired again, nor for one
\* set back to what it was, nor for one recorded again, with a later time, by
\* every recovery that finds its intent open, nor for the type, format, wrap
\* and height an edit brings with it (workbook/writer.py: apply_edits,
\* orchestrator.py: recover_apply_intents,
\* workbook/diff.py: reconcile, net_changes; workbook/styles.py).
NoFalseAlarm ==
    Recorded /\ damage = 0 /\ Orderly /\ file = Replayed[Len(ledger)] => Passed

\* A file the gate passes differs from the submitted one only as the change
\* log says: a text is the last one recorded for its cell, and the format,
\* wrap and height moved only where an edit moves them.  This holds whatever a
\* stalled worker wrote and whatever was done to the file
\* (validation/final_gate.py: run_final_gate).
NothingUnrecorded ==
    Passed =>
        /\ file.other = {}
        /\ \A c \in Cells :
            /\ file.cell[c].text # Source.cell[c].text =>
                   \E i \in DOMAIN ledger :
                       /\ ledger[i].cell = c /\ ledger[i].after = file.cell[c].text
                       /\ \A j \in DOMAIN ledger :
                              ledger[j].cell = c => ledger[j].at <= ledger[i].at
            /\ file.cell[c].format # Source.cell[c].format =>
                   c \in EditedCells /\ ColumnOf(c) \in Forced /\ file.cell[c].format = "@"
            /\ file.cell[c].wrap # Source.cell[c].wrap => RowOf(c) \in {RowOf(x) : x \in EditedCells}

\* The cell's appearance cannot differ from the submitted one.
Plain(c) == Source.cell[c].wrap = "off" /\ Source.cell[c].format = "@" /\ Source.cell[c].type = "s"

LostAt(c) ==
    /\ c \in EditedCells
    /\ NetChange(c).before # NetChange(c).after
    /\ file.cell[c].text = Source.cell[c].text

\* A recorded edit that a stalled worker's save took out of the file again
\* fails the gate, in a cell whose wrap, format and type an edit leaves alone
\* (validation/final_gate.py: _changes_not_present).
LostWriteCaught == Recorded /\ damage = 0 => \A c \in Cells : LostAt(c) /\ Plain(c) => ~Passed

\* The same of every cell.
EveryLostWriteCaught == Recorded /\ damage = 0 => \A c \in Cells : LostAt(c) => ~Passed

=============================================================================
