----------------------------- MODULE PatchGate -----------------------------
(***************************************************************************)
(* The deterministic gate a patch passes before a byte is written          *)
(* (validation/patch_gate.py), and the sheet as accepted patches leave it. *)
(*                                                                         *)
(* The gate judges a patch on a simulated block: the block as it was read, *)
(* with the edited cells replaced, under the conventions of the workbook   *)
(* as it was read.  The file is read again afterwards, so the properties   *)
(* compare what the gate saw with what the next reader finds.              *)
(***************************************************************************)
EXTENDS Sheet

CONSTANTS
    Submitted,      \* the sheets a job may start from
    PatchCells,     \* [column -> SUBSET text]: what a Writer may put where
    Pairs(_, _),    \* the pairs of cells a Writer may edit together
    ModelCells,     \* where an agent may claim a defect
    ModelCategories,\* how an agent may classify it
    Fractions, Decimals, ExactPrompts,
    MaxRepairs      \* bound: repairs accepted

\* A sheet has every row and every column; an empty cell names nothing.
IsSheet(s) == s = [r \in Rows |-> [k \in Range(Columns) |-> s[r][k]]]
ASSUME PatchAssumption ==
    /\ LastRow \in Nat /\ "" \notin DOMAIN Identifier \union DOMAIN Several
    /\ \A s \in Submitted : IsSheet(s)

VARIABLES
    sheet,      \* the working copy's cells
    targets,    \* the last accepted repair's block and the findings it was for
    repairs     \* repairs accepted so far

patchVars == <<sheet, targets, repairs>>

-----------------------------------------------------------------------------
(* Issues.                                                                 *)

StructuralCategories == {"structure", "row_type", "dependency"}
ValuePreserving == {"notation", "latex", "formatting"}
MetadataColumns == {"license"}
MathematicalColumns == {"answer", "choices"}

CategoryOf(code) ==
    CASE code \in {"ROW_MISSING_PROBLEM_NAME", "BLOCK_HAS_NO_STEP", "DUPLICATE_PROBLEM_NAME",
                   "PROBLEM_ROW_MISSING_TITLE"} -> "structure"
      [] code \in {"INVALID_ANSWER_TYPE", "ANSWER_TYPE_MISMATCH", "ANSWER_WITHOUT_TYPE", "STEP_MISSING_ANSWER",
                   "SCAFFOLD_MISSING_ANSWER", "HINT_HAS_ANSWER", "HINT_MISSING_BODY", "PROBLEM_ROW_HAS_ANSWER",
                   "ROW_MISSING_REQUIRED_CONTENT", "ROW_HAS_FORBIDDEN_CONTENT"} -> "row_type"
      [] code \in {"MC_CHOICES_ON_NON_MC_ROW", "MC_CHOICE_COUNT", "MC_EMPTY_CHOICE", "MC_DUPLICATE_CHOICE",
                   "MC_ANSWER_NOT_IN_CHOICES", "MC_TYPE_WITHOUT_CHOICES_COLUMN"} -> "multiple_choice"
      [] code = "MC_DISTRACTOR_EQUALS_ANSWER" -> "mathematics"
      [] code \in {"PROBLEM_METADATA_MISSING", "METADATA_ON_NON_PROBLEM_ROW"} -> "metadata"
      [] OTHER -> "dependency"

ReaderCodes == {"MISSING_PROBLEM_NAME", "ROW_SHIFT_RIGHT", "COLUMN_SHIFT", "PROBLEM_NAME_MISMATCH_IN_BLOCK",
                "UNKNOWN_ROW_TYPE", "BLOCK_BOUNDARY_DISAGREEMENT"}

\* A namespace repair is one linked rename: the issue names every cell of it.
CellsOf(b, f) ==
    (IF f[3] = "" THEN {} ELSE {<<f[2], f[3]>>})
    \union (IF f[1] = "SCAFFOLD_NAMESPACE_DEVIATION"
            THEN {<<r, "dependency">> : r \in {x \in SameScope(b, f[2]) : Dependency(b, x) = b.cell[f[2]]["id"]}}
            ELSE {})

StructuralReaderCodes == ReaderCodes \ {"UNKNOWN_ROW_TYPE"}

RuleIssue(b, f) ==
    [start |-> b.start, source |-> "rule", codes |-> {f[1]}, cells |-> CellsOf(b, f),
     category |-> IF f[1] \in ReaderCodes THEN "structure" ELSE CategoryOf(f[1]),
     structural |-> f[3] \in StructuralColumns \/ f[1] \in StructuralReaderCodes]

RuleIssues(s) ==
    LET conventions == Conventions(s)
    IN  (UNION {{RuleIssue(b, f) : f \in {x \in RuleFindings(b, conventions) \union ReaderFindings(b) :
                                            Actionable(x, conventions)}} : b \in Blocks(s)})
        \union {[start |-> f[2], source |-> "rule", codes |-> {f[1]}, cells |-> {},
                 category |-> "structure", structural |-> FALSE] : f \in DuplicateNames(Blocks(s))}

ModelIssues(s) ==
    {[start |-> x[1].start, source |-> "agent", codes |-> {"AGENT_FINDING"}, cells |-> {x[2]}, category |-> x[3],
      structural |-> x[2][2] \in StructuralColumns \/ x[3] \in StructuralCategories \union {"multiple_choice"}] :
        x \in {y \in Blocks(s) \X ModelCells \X ModelCategories : y[2][1] \in y[1].rows}}

-----------------------------------------------------------------------------
(* What a patch does to its block.                                         *)

Before(b, c) == b.cell[c[1]][c[2]]

Simulated(b, edits) ==
    [b EXCEPT !.cell = [r \in b.rows |-> [k \in Range(Columns) |->
        IF <<r, k>> \in DOMAIN edits THEN edits[<<r, k>>] ELSE b.cell[r][k]]]]

\* Mutant: a finding counts as old when the block had one of its code.
RegressionsByCode(b, patched, conventions) ==
    LET before == {f[1] : f \in RuleFindings(b, conventions)}
    IN  {f \in RuleFindings(patched, conventions) : Serious(f, conventions) /\ f[1] \notin before}

\* Reader findings are the block's own in both readings and cancel out.
Regressions(b, patched, conventions) ==
    {f \in RuleFindings(patched, conventions) : Serious(f, conventions)} \ RuleFindings(b, conventions)

Checkable(issue) == issue.codes \intersect (ReaderCodes \union {"AGENT_FINDING"}) = {}

\* The findings an issue was opened for, as the block has them.
Targets(issue, b, conventions) ==
    {f \in RuleFindings(b, conventions) :
        f[1] \in issue.codes /\ (issue.cells # {} => <<f[2], f[3]>> \in issue.cells)}

\* Mutant: a second problem row is not looked for.
NameBroken(b) ==
    \/ b.cell[b.start]["type"] # "problem" \/ b.cell[b.start]["name"] = ""
    \/ \E r \in Interior(b) : b.cell[r]["name"] \notin {"", b.cell[b.start]["name"]}

\* The block must still be one block under one name.
Broken(b) ==
    \/ b.cell[b.start]["type"] # "problem"
    \/ b.cell[b.start]["name"] = ""
    \/ \E r \in Interior(b) : \/ b.cell[r]["type"] = "problem"
                              \/ b.cell[r]["name"] \notin {"", b.cell[b.start]["name"]}

\* A shift repair moves content; only a patch that writes nothing may drop it.
Drops(b, edits) ==
    LET Vacated(v) == {c \in DOMAIN edits : edits[c] = "" /\ Before(b, c) = v}
        Written(v) == {c \in DOMAIN edits : edits[c] = v}
    IN  /\ \E c \in DOMAIN edits : edits[c] # ""
        /\ \E v \in {Before(b, c) : c \in DOMAIN edits} \ {""} :
               Cardinality(Vacated(v)) > Cardinality(Written(v))

-----------------------------------------------------------------------------
(* Mathematics.                                                            *)

EditsIn(edits, columns) == {c \in DOMAIN edits : c[2] \in columns}
Rewritten(b, edits, columns) == {c \in EditsIn(edits, columns) : Before(b, c) # "" /\ edits[c] # ""}

ChoicesChanged(before, after) ==
    \/ Len(ChoiceList(before)) # Len(ChoiceList(after))
    \/ \E i \in DOMAIN ChoiceList(before) \intersect DOMAIN ChoiceList(after) :
        EquationsEquivalent(ChoiceList(before)[i], ChoiceList(after)[i]) = "different"

\* A repair of how a value is written leaves the value alone.
ValueChanged(issue, b, edits) ==
    /\ issue.category \in ValuePreserving
    /\ \/ \E c \in Rewritten(b, edits, {"answer"}) : EquationsEquivalent(Before(b, c), edits[c]) = "different"
       \/ \E c \in EditsIn(edits, {"choices"}) : ChoicesChanged(Before(b, c), edits[c])

\* A correction of the mathematics changes it.
EquivalentRewrite(issue, b, edits) ==
    /\ issue.category = "mathematics" /\ Rewritten(b, edits, MathematicalColumns) # {}
    /\ \A c \in Rewritten(b, edits, {"answer"}) : AnswersEquivalent(Before(b, c), edits[c]) = "equivalent"
    /\ \A c \in Rewritten(b, edits, {"choices"}) : EquationsEquivalent(Before(b, c), edits[c]) = "equivalent"

\* The prompts that govern an answer: the problem's, the row's, its step's.
Context(b, r) ==
    {b.start, r} \union (IF b.cell[r]["type"] \in {"problem", "step"} \/ StepOf(b, r) = 0
                         THEN {} ELSE {StepOf(b, r)})

FormViolated(b, edits) ==
    \E c \in EditsIn(edits, {"answer"}) :
        /\ \E r \in Context(b, c[1]) : {b.cell[r]["title"], b.cell[r]["body"]} \intersect ExactPrompts # {}
        /\ Before(b, c) \in Fractions /\ edits[c] \in Decimals

-----------------------------------------------------------------------------
(* Authority.                                                              *)

Structural(edits) == EditsIn(edits, StructuralColumns)

Supported(b, conventions, cells) ==
    \E f \in RuleFindings(b, conventions) :
        <<f[2], f[3]>> \in cells /\ CategoryOf(f[1]) \in StructuralCategories

\* A model's rename that leaves the dependency graph as it is.
Renumbers(issue, b, edits, conventions) ==
    /\ ~Checkable(issue)
    /\ Structural(edits) # {}
    /\ \A c \in Structural(edits) : c[2] \in {"id", "dependency"} /\ Before(b, c) # "" /\ edits[c] # ""
    /\ Cardinality({<<Before(b, c), edits[c]>> : c \in Structural(edits)}) = 1
    /\ ~Supported(b, conventions, issue.cells)
    /\ ~\E f \in ReaderFindings(b) : f[1] \in issue.codes

\* A model's preference between numeric and algebra.
Relabels(issue, b, edits, conventions) ==
    /\ issue.source # "instructions"
    /\ \E c \in DOMAIN edits :
        /\ c[2] = "answerType" /\ {Before(b, c), edits[c]} = {"numeric", "algebra"}
        /\ <<c[1], "answer">> \notin DOMAIN edits
        /\ ~Supported(b, conventions, {c})

Extra(issue, edits) == DOMAIN edits \ issue.cells

\* Mutant: what was edited is taken for repaired.
Touches(issue, b, edits, conventions) ==
    \A f \in Targets(issue, b, conventions) : <<f[2], f[3]>> \in DOMAIN edits

\* What the issue was opened for is no longer found.
Resolves(issue, b, edits, conventions) == Targets(issue, Simulated(b, edits), conventions) = {}

\* An edit the repair works without is somebody else's.
Unnecessary(issue, b, edits, conventions) ==
    \E c \in Extra(issue, edits) :
        LET reduced == Restrict(edits, DOMAIN edits \ {c})
            without == Simulated(b, reduced)
        IN  /\ reduced # <<>>
            /\ Resolves(issue, b, reduced, conventions)
            /\ ~Broken(without)
            /\ Regressions(b, without, conventions) = {}

-----------------------------------------------------------------------------
(* The gate.                                                               *)

Accepted(issue, b, patch, conventions) ==
    LET edits == patch.edits
        patched == Simulated(b, edits)
    IN  /\ \A c \in DOMAIN edits : c[1] \in b.rows /\ edits[c] # Before(b, c)
        /\ EditsIn(edits, MetadataColumns) # {} => issue.category \in {"metadata", "structure"}
        /\ EditsIn(edits, MathematicalColumns) # {} => patch.derived
        /\ issue.cells # {} /\ Extra(issue, edits) # {} => patch.argued
        /\ Structural(edits) # {} => issue.structural
        /\ ~Relabels(issue, b, edits, conventions)
        /\ ~Broken(patched)
        /\ Structural(edits) # {} => ~Drops(b, edits)
        /\ ~FormViolated(b, edits)
        /\ ~EquivalentRewrite(issue, b, edits)
        /\ ~ValueChanged(issue, b, edits)
        /\ Regressions(b, patched, conventions) = {}
        /\ ~Renumbers(issue, b, edits, conventions)
        /\ Checkable(issue) /\ Targets(issue, b, conventions) # {} =>
               /\ Resolves(issue, b, edits, conventions)
               /\ ~Unnecessary(issue, b, edits, conventions)

-----------------------------------------------------------------------------

PatchInit ==
    /\ sheet \in Submitted
    /\ targets = [start |-> 0, findings |-> {}]
    /\ repairs = 0

\* The Writer's freedom: one cell, or two it takes together.
EditsOn(cells) ==
    {e \in [cells -> UNION {PatchCells[c[2]] : c \in cells}] : \A c \in cells : e[c] \in PatchCells[c[2]]}
EditSets(b) ==
    {{c} : c \in b.rows \X DOMAIN PatchCells} \union {p \in Pairs(sheet, b) : Cardinality(p) = 2}

Written(edits) ==
    [r \in Rows |-> [k \in Range(Columns) |->
        IF <<r, k>> \in DOMAIN edits THEN edits[<<r, k>>] ELSE sheet[r][k]]]

\* A patch the gate accepts is applied, and the file is read again.
Repair ==
    /\ repairs < MaxRepairs
    /\ \E issue \in RuleIssues(sheet) \union ModelIssues(sheet) :
        LET b == BlockAt(sheet, issue.start)
            conventions == Conventions(sheet)
        IN  \E cells \in EditSets(b) : \E edits \in EditsOn(cells) : \E written \in BOOLEAN :
                /\ Accepted(issue, b, [edits |-> edits, derived |-> written, argued |-> written], conventions)
                /\ sheet' = Written(edits)
                /\ targets' = [start |-> b.start,
                               findings |-> IF Checkable(issue) THEN Targets(issue, b, conventions) ELSE {}]
                /\ repairs' = repairs + 1

PatchNext == Repair

PatchSpec == PatchInit /\ [][PatchNext]_patchVars

-----------------------------------------------------------------------------
(* Properties.                                                             *)

\* No accepted repair moves, splits, merges or unnames a block: the file is
\* cut into the same blocks when it is read again, and an issue's block stays
\* the one it was opened on (validation/patch_gate.py: _block_invariants_broken;
\* workbook/reader.py: segment_blocks).
BlocksStay ==
    [][/\ Starts(sheet') = Starts(sheet)
       /\ \A s \in Starts(sheet) : sheet'[s]["name"] = "" => sheet[s]["name"] = ""]_sheet

\* While the workbook keeps its conventions, what the registered rules find in
\* a block after a repair they found in it before: what was simulated is what
\* is read again (validation/patch_gate.py: regressions_introduced).
RulesNeverWorse ==
    [][Conventions(sheet') = Conventions(sheet) =>
         LET conventions == Conventions(sheet)
         IN  \A b \in Blocks(sheet') :
                 {f \in RuleFindings(b, conventions) : Serious(f, conventions)}
                     \subseteq RuleFindings(BlockAt(sheet, b.start), conventions)]_sheet

\* And what the repair was for is gone from its block
\* (validation/patch_gate.py: target_findings, _still_present).
RepairHolds ==
    [][Conventions(sheet') = Conventions(sheet) =>
         \A f \in targets'.findings :
             f \notin RuleFindings(BlockAt(sheet', targets'.start), Conventions(sheet))]_patchVars

\* A patch that fixes one thing and breaks another is rejected.
NothingElseBreaks == [][Defects(sheet') \subseteq Findings(sheet)]_sheet

=============================================================================
