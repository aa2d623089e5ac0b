---------------------------- MODULE AtomicApply ----------------------------
(***************************************************************************)
(* What orchestrator.py and workbook/writer.py promise about a patch: it   *)
(* takes effect as a whole, against the cell values it was written for,    *)
(* and not again before another patch took the place of its edits.         *)
(* Nothing is promised of a working copy that something outside the job    *)
(* wrote to.  ApplyProtocol implements it.                                 *)
(***************************************************************************)
EXTENDS Naturals

CONSTANTS Cells, Values, Patches, Source, NoPatch

VARIABLES
    book,   \* the block in the working copy
    patch,  \* the patches recorded so far
    done,   \* the patches whose edits took effect and were not overwritten
    alone   \* only the job has written to the working copy

vars == <<book, patch, done, alone>>

Blocks == [Cells -> Values]
CellsOf(e) == {c \in Cells : e.before[c] # e.after[c]}

Init ==
    /\ book = Source
    /\ patch = [p \in Patches |-> NoPatch]
    /\ done = {} /\ alone = TRUE

(* Patch p is proposed: it changes a cell, from what the block holds.       *)
Propose(p, e) ==
    /\ patch[p] = NoPatch
    /\ CellsOf(e) # {} /\ \A c \in CellsOf(e) : book[c] = e.before[c]
    /\ patch' = [patch EXCEPT ![p] = e]
    /\ UNCHANGED <<book, done>>

(* All its cells change together, from the values it was written against, and
   what other patches had put there may be lost.                            *)
Apply(p) ==
    /\ patch[p] # NoPatch /\ p \notin done
    /\ \A c \in CellsOf(patch[p]) : book[c] = patch[p].before[c]
    /\ book' = [c \in Cells |-> IF c \in CellsOf(patch[p])
                                THEN patch[p].after[c] ELSE book[c]]
    /\ \E lost \in SUBSET {q \in done : CellsOf(patch[q]) \cap CellsOf(patch[p]) # {}} :
          done' = (done \ lost) \cup {p}
    /\ UNCHANGED patch

Job ==
    \E p \in Patches :
        Apply(p) \/ \E e \in [before : Blocks, after : Blocks] : Propose(p, e)

Next == (Job /\ UNCHANGED alone) \/ ~alone'

Spec == Init /\ [][Next]_vars
=============================================================================
