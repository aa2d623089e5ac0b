------------------------------- MODULE Sheet -------------------------------
(***************************************************************************)
(* A parsed workbook: how rows become problem blocks (workbook/reader.py), *)
(* which conventions a workbook follows, and what the deterministic rules  *)
(* find (validation/rules/dependencies.py, rowtypes.py, structure.py).     *)
(*                                                                         *)
(* A sheet is a function from cells to short texts; everything below is a  *)
(* pure operator on it.  Columns whose content no rule here relates to     *)
(* another cell (images, all metadata but one column) are left out, and so *)
(* are the rules on spelling, LaTeX and notation.                          *)
(***************************************************************************)
EXTENDS Naturals, FiniteSets, FiniteSetsExt, Sequences, SequencesExt

CONSTANTS
    LastRow,        \* the sheet's rows below the header are 1..LastRow
    Identifier,     \* [text -> [namespace, number]]: the texts shaped like an identifier
    Several,        \* [text -> SUBSET text]: the texts that name several identifiers
    Variable,       \* the answers with a free variable
    ChoicesOf,        \* [text -> Seq(text)]: the texts that list several choices
    Statement       \* [text -> [target, value]]: the mathematics that can be parsed

Rows == 1 .. LastRow

\* The contract's columns in their fixed order.
Columns == <<"name", "type", "title", "body", "answer", "answerType", "id", "dependency", "choices", "license">>
StructuralColumns == {"name", "type", "answerType", "id", "dependency"}

RowTypes == {"problem", "step", "hint", "scaffold"}
AnswerTypes == {"numeric", "algebra", "mc"}

Blank(sheet, r) == \A k \in Range(Columns) : sheet[r][k] = ""

-----------------------------------------------------------------------------
(* Segmentation.                                                           *)

Starts(sheet) == {r \in Rows : sheet[r]["type"] = "problem"}

\* Trailing blank rows are trimmed; blank rows inside stay.
EndOf(sheet, start) ==
    LET next == {s \in Starts(sheet) : s > start} \union {LastRow + 1}
        last == Min(next) - 1
    IN  Max({r \in start .. last : r = start \/ ~Blank(sheet, r)})

\* A block keeps the name its problem row declared when it was read.
BlockAt(sheet, start) ==
    [rows |-> start .. EndOf(sheet, start), start |-> start,
     name |-> sheet[start]["name"], cell |-> [r \in start .. EndOf(sheet, start) |-> sheet[r]]]

Blocks(sheet) == {BlockAt(sheet, s) : s \in Starts(sheet)}

Orphans(sheet) == {r \in Rows : ~Blank(sheet, r) /\ \A s \in Starts(sheet) : r < s}

OfType(b, types) == {r \in b.rows : b.cell[r]["type"] \in types}

\* The step a row belongs to; 0 for a row above every step.
StepOf(b, r) == Max({s \in OfType(b, {"step"}) : s < r} \union {0})

ScopeRows(b) ==
    {r \in b.rows : b.cell[r]["type"] \notin {"problem", "step"} /\ ~Blank(b.cell, r)}

SameScope(b, r) == {x \in ScopeRows(b) : StepOf(b, x) = StepOf(b, r)}

Identified(b, rows) ==
    {r \in rows : b.cell[r]["type"] \in {"hint", "scaffold"} /\ b.cell[r]["id"] # ""}

Hints(b, rows) == {r \in Identified(b, rows) : b.cell[r]["type"] = "hint"}

-----------------------------------------------------------------------------
(* Conventions.                                                            *)

Numbers(b, s) ==
    {Identifier[b.cell[r]["id"]].number :
        r \in {x \in b.rows : x > s /\ b.cell[x]["type"] # "step"
                              /\ StepOf(b, x) = s /\ b.cell[x]["id"] \in DOMAIN Identifier}}

PopulatedSteps(b) == {s \in OfType(b, {"step"}) : Numbers(b, s) # {}}

Resets(b) == Cardinality(PopulatedSteps(b)) > 1 /\ \A s \in PopulatedSteps(b) : Min(Numbers(b, s)) = 1

Continues(b) ==
    /\ Cardinality(PopulatedSteps(b)) > 1 /\ ~Resets(b)
    /\ \A s, t \in PopulatedSteps(b) : s < t => Max(Numbers(b, s)) < Min(Numbers(b, t))

Namespaces(sheet) ==
    {Identifier[sheet[r]["id"]].namespace :
        r \in {x \in UNION {b.rows : b \in Blocks(sheet)} :
                  sheet[x]["type"] = "scaffold" /\ sheet[x]["id"] \in DOMAIN Identifier}}

Conventions(sheet) ==
    LET resets == Cardinality({b \in Blocks(sheet) : Resets(b)})
        continues == Cardinality({b \in Blocks(sheet) : Continues(b)})
    IN  [chain |-> IF resets > continues THEN "reset_per_step"
                   ELSE IF continues > resets THEN "continuous" ELSE "undecided",
         consistent |-> Cardinality(Namespaces(sheet)) < 2]

-----------------------------------------------------------------------------
(* What the reader reports of a block.  A finding is known by its code,    *)
(* row and column; row 0 and column "" stand for a block as a whole.       *)

Found(code, rows, column) == {<<code, r, column>> : r \in rows}

Interior(b) == {r \in b.rows : r # b.start /\ ~Blank(b.cell, r)}

Shifted(b) ==
    {r \in Interior(b) : b.cell[r]["name"] = "" /\ b.name # ""
                         /\ \E k \in Range(Tail(Columns)) : b.cell[r][k] = b.name}

Misnamed(b) ==
    {r \in Interior(b) \ Shifted(b) : b.cell[r]["name"] # "" /\ b.name # "" /\ b.cell[r]["name"] # b.name}

ReaderFindings(b) ==
    Found("MISSING_PROBLEM_NAME", IF b.name = "" THEN {b.start} ELSE {}, "name")
    \union Found("ROW_SHIFT_RIGHT", Shifted(b), "")
    \union Found("COLUMN_SHIFT",
               {r \in Interior(b) \ Shifted(b) : b.cell[r]["answerType"] \in DOMAIN Identifier}, "answerType")
    \union Found("PROBLEM_NAME_MISMATCH_IN_BLOCK", Misnamed(b), "name")
    \union Found("UNKNOWN_ROW_TYPE",
               {r \in Interior(b) \ Shifted(b) : b.cell[r]["type"] \notin RowTypes \union {""}}, "type")
    \union Found("BLOCK_BOUNDARY_DISAGREEMENT", IF Misnamed(b) # {} THEN {0} ELSE {}, "")

-----------------------------------------------------------------------------
(* Mathematics (validation/mathematics.py).  A statement names a quantity  *)
(* (target, "" for a bare value) and gives its value: a sequence, longer   *)
(* than one for an ordered tuple, where 0 is a part nothing decides.       *)

PartVerdict(x, y) ==
    IF 0 \in {x, y} THEN "unknown" ELSE IF x = y THEN "equivalent" ELSE "different"

Equivalent(v, w) ==
    IF Len(v) # Len(w) THEN IF 1 \in {Len(v), Len(w)} THEN "unknown" ELSE "different"
    ELSE LET verdicts == {PartVerdict(v[i], w[i]) : i \in DOMAIN v}
         IN  IF "different" \in verdicts THEN "different"
             ELSE IF verdicts = {"equivalent"} THEN "equivalent" ELSE "unknown"

\* What cannot be parsed is a value nothing decides.
Stated(text) == IF text \in DOMAIN Statement THEN Statement[text] ELSE [target |-> "", value |-> <<0>>]

\* An equation and a value are different kinds of statement.
EquationsEquivalent(x, y) ==
    IF Stated(x).target # Stated(y).target THEN "different" ELSE Equivalent(Stated(x).value, Stated(y).value)

\* A graded answer may name its quantity or not.
AnswersEquivalent(x, y) ==
    LET values == Equivalent(Stated(x).value, Stated(y).value)
    IN  IF (Stated(x).target = "") # (Stated(y).target = "") /\ values # "unknown"
        THEN values ELSE EquationsEquivalent(x, y)

-----------------------------------------------------------------------------
(* What the rules report of a block.  Everything about identifiers and     *)
(* dependencies is scoped to a step.                                       *)

Dependency(b, r) == b.cell[r]["dependency"]
One(text) == text # "" /\ text \notin DOMAIN Several
References(b) == {r \in ScopeRows(b) : One(Dependency(b, r))}

IdsOf(b, rows) == {b.cell[r]["id"] : r \in Identified(b, rows)}

IdentifierMissing(b) ==
    Found("IDENTIFIER_MISSING", {r \in OfType(b, {"hint", "scaffold"}) : b.cell[r]["id"] = ""}, "id")

IdentifierMalformed(b) ==
    Found("IDENTIFIER_MALFORMED",
        {r \in Identified(b, b.rows) : b.cell[r]["id"] \notin DOMAIN Identifier}, "id")

\* The rows a row's identifier has to differ from.
UniquenessScope(b, conventions, r) ==
    IF conventions.chain = "reset_per_step" THEN SameScope(b, r) ELSE b.rows

DuplicateIdentifier(b, conventions) ==
    Found("DUPLICATE_IDENTIFIER",
        {r \in Identified(b, b.rows) :
            \E x \in Identified(b, UniquenessScope(b, conventions, r)) :
                x < r /\ b.cell[x]["id"] = b.cell[r]["id"]}, "id")

NamespaceDeviation(b) ==
    Found("SCAFFOLD_NAMESPACE_DEVIATION",
        {r \in OfType(b, {"scaffold"}) :
            b.cell[r]["id"] \in DOMAIN Identifier /\ Identifier[b.cell[r]["id"]].namespace # "s"}, "id")

DependencyUnresolved(b) ==
    Found("DEPENDENCY_UNRESOLVED",
        {r \in References(b) : Dependency(b, r) \notin IdsOf(b, SameScope(b, r))}, "dependency")

DependencyMultiple(b) ==
    Found("DEPENDENCY_MULTIPLE", {r \in b.rows : Dependency(b, r) \in DOMAIN Several}, "dependency")

DependencyOnLaterRow(b) ==
    Found("DEPENDENCY_ON_LATER_ROW",
        {r \in References(b) : \E x \in Identified(b, SameScope(b, r)) :
                                   x > r /\ b.cell[x]["id"] = Dependency(b, r)}, "dependency")

\* The step whose rows define an identifier first.
OwnerStep(b, text) ==
    StepOf(b, Min({r \in Identified(b, ScopeRows(b)) : b.cell[r]["id"] = text}))

DependencyCrossesStep(b, conventions) ==
    Found("DEPENDENCY_CROSSES_STEP",
        {r \in References(b) : /\ conventions.chain = "continuous"
                               /\ Dependency(b, r) \in IdsOf(b, ScopeRows(b))
                               /\ OwnerStep(b, Dependency(b, r)) # StepOf(b, r)}, "dependency")

StepHasDependency(b) ==
    Found("STEP_HAS_DEPENDENCY", {r \in OfType(b, {"step"}) : Dependency(b, r) # ""}, "dependency")

PreviousHint(b, r) == Max({h \in Hints(b, SameScope(b, r)) : h < r} \union {0})
HintId(b, h) == IF h = 0 THEN "" ELSE b.cell[h]["id"]

FirstHintHasDependency(b) ==
    Found("FIRST_HINT_HAS_DEPENDENCY",
        {r \in Hints(b, ScopeRows(b)) : PreviousHint(b, r) = 0 /\ Dependency(b, r) # ""}, "dependency")

HintDependencyNotPrevious(b) ==
    Found("HINT_DEPENDENCY_NOT_PREVIOUS",
        {r \in Hints(b, ScopeRows(b)) : /\ PreviousHint(b, r) # 0
                                        /\ Dependency(b, r) \notin DOMAIN Several
                                        /\ Dependency(b, r) # HintId(b, PreviousHint(b, r))}, "dependency")

ScaffoldDependencyNotHint(b) ==
    Found("SCAFFOLD_DEPENDENCY_NOT_HINT",
        {r \in Identified(b, ScopeRows(b)) \ Hints(b, ScopeRows(b)) :
            /\ Dependency(b, r) \notin DOMAIN Several
            /\ Dependency(b, r) # HintId(b, PreviousHint(b, r))}, "dependency")

Named(text) == IF text \in DOMAIN Several THEN Several[text] ELSE {text}

DependencyOnSelf(b) ==
    Found("DEPENDENCY_ON_SELF",
        {r \in b.rows : b.cell[r]["id"] # "" /\ b.cell[r]["id"] \in Named(Dependency(b, r))}, "dependency")

-----------------------------------------------------------------------------
(* Answers and choices.                                                    *)

Has(b, r, k) == b.cell[r][k] # ""
Graded(b) == OfType(b, {"step", "scaffold"})

InvalidAnswerType(b) ==
    Found("INVALID_ANSWER_TYPE",
        {r \in b.rows : b.cell[r]["answerType"] \notin AnswerTypes \union {""}}, "answerType")

AnswerTypeMismatch(b) ==
    Found("ANSWER_TYPE_MISMATCH",
        {r \in b.rows : b.cell[r]["answerType"] = "numeric" /\ b.cell[r]["answer"] \in Variable}, "answerType")

AnswerWithoutType(b) ==
    Found("ANSWER_WITHOUT_TYPE",
        {r \in Graded(b) : Has(b, r, "answer") /\ ~Has(b, r, "answerType")}, "answerType")

StepMissingAnswer(b) ==
    Found("STEP_MISSING_ANSWER", {r \in OfType(b, {"step"}) : ~Has(b, r, "answer")}, "answer")
ScaffoldMissingAnswer(b) ==
    Found("SCAFFOLD_MISSING_ANSWER", {r \in OfType(b, {"scaffold"}) : ~Has(b, r, "answer")}, "answer")
HintHasAnswer(b) ==
    Found("HINT_HAS_ANSWER", {r \in OfType(b, {"hint"}) : Has(b, r, "answer")}, "answer")
ProblemRowHasAnswer(b) ==
    UNION {Found("PROBLEM_ROW_HAS_ANSWER", {r \in {b.start} : Has(b, r, k)}, k) : k \in {"answer", "answerType"}}

ChoiceList(text) == IF text \in DOMAIN ChoicesOf THEN ChoicesOf[text] ELSE <<text>>
ChoicesIn(b, r) == ChoiceList(b.cell[r]["choices"])
McRows(b) == {r \in b.rows : Has(b, r, "choices")}
Count(seq, x) == Cardinality({i \in DOMAIN seq : seq[i] = x})

\* A sound list with the answer once in it: the type is what is wrong.
Decisive(b, r) ==
    /\ Len(ChoicesIn(b, r)) \in 2 .. 5
    /\ Has(b, r, "answer") /\ Count(ChoicesIn(b, r), b.cell[r]["answer"]) = 1
    /\ "" \notin Range(ChoicesIn(b, r))

McChoicesOnNonMcRow(b) ==
    LET other == {r \in McRows(b) : b.cell[r]["answerType"] # "mc"}
    IN  Found("MC_CHOICES_ON_NON_MC_ROW", {r \in other : Decisive(b, r)}, "answerType")
        \union Found("MC_CHOICES_ON_NON_MC_ROW", {r \in other : ~Decisive(b, r)}, "choices")

McChoiceCount(b) ==
    Found("MC_CHOICE_COUNT", {r \in McRows(b) : Len(ChoicesIn(b, r)) \notin 2 .. 5}, "choices")
McEmptyChoice(b) ==
    Found("MC_EMPTY_CHOICE", {r \in McRows(b) : "" \in Range(ChoicesIn(b, r))}, "choices")
McDuplicateChoice(b) ==
    Found("MC_DUPLICATE_CHOICE",
        {r \in McRows(b) : \E x \in Range(ChoicesIn(b, r)) \ {""} : Count(ChoicesIn(b, r), x) > 1}, "choices")

McAnswerNotInChoices(b) ==
    Found("MC_ANSWER_NOT_IN_CHOICES",
        {r \in McRows(b) : Has(b, r, "answer") /\ b.cell[r]["answer"] \notin Range(ChoicesIn(b, r))}, "answer")

McDistractorEqualsAnswer(b) ==
    Found("MC_DISTRACTOR_EQUALS_ANSWER",
        {r \in McRows(b) : \E x \in Range(ChoicesIn(b, r)) \ {"", b.cell[r]["answer"]} :
            Has(b, r, "answer") /\ EquationsEquivalent(b.cell[r]["answer"], x) = "equivalent"}, "choices")

McTypeWithoutChoices(b) ==
    Found("MC_TYPE_WITHOUT_CHOICES_COLUMN",
        {r \in b.rows : b.cell[r]["answerType"] = "mc" /\ ~Has(b, r, "choices")}, "choices")

-----------------------------------------------------------------------------
(* Content.                                                                *)

BlockHasNoStep(b) == Found("BLOCK_HAS_NO_STEP", IF OfType(b, {"step"}) = {} THEN {0} ELSE {}, "")

ProblemRowMissingTitle(b) ==
    Found("PROBLEM_ROW_MISSING_TITLE", {r \in {b.start} : ~Has(b, r, "title")}, "title")
ProblemMetadataMissing(b) ==
    Found("PROBLEM_METADATA_MISSING", {r \in {b.start} : ~Has(b, r, "license")}, "license")
MetadataOnNonProblemRow(b) ==
    Found("METADATA_ON_NON_PROBLEM_ROW", {r \in b.rows \ {b.start} : Has(b, r, "license")}, "license")
HintMissingBody(b) ==
    Found("HINT_MISSING_BODY", {r \in OfType(b, {"hint"}) : ~Has(b, r, "body")}, "body")

Required == [problem |-> {}, step |-> {"title"}, hint |-> {"title"}, scaffold |-> {"title", "body"}]
Forbidden == [problem |-> {"id", "dependency"}, step |-> {"id"}, hint |-> {"answerType"}, scaffold |-> {}]

RowMissingRequiredContent(b) ==
    UNION {Found("ROW_MISSING_REQUIRED_CONTENT",
               {r \in OfType(b, RowTypes) : k \in Required[b.cell[r]["type"]] /\ ~Has(b, r, k)}, k) :
                   k \in {"title", "body"}}

RowHasForbiddenContent(b) ==
    UNION {Found("ROW_HAS_FORBIDDEN_CONTENT",
               {r \in OfType(b, RowTypes) : k \in Forbidden[b.cell[r]["type"]] /\ Has(b, r, k)}, k) :
                   k \in {"id", "dependency", "answerType"}}

RowMissingProblemName(b) ==
    Found("ROW_MISSING_PROBLEM_NAME", {r \in OfType(b, RowTypes) \ {b.start} : ~Has(b, r, "name")}, "name")

RuleFindings(b, conventions) ==
    UNION {IdentifierMissing(b), IdentifierMalformed(b), DuplicateIdentifier(b, conventions), NamespaceDeviation(b),
           DependencyUnresolved(b), DependencyMultiple(b), DependencyOnLaterRow(b),
           DependencyCrossesStep(b, conventions), StepHasDependency(b), FirstHintHasDependency(b),
           HintDependencyNotPrevious(b), ScaffoldDependencyNotHint(b), DependencyOnSelf(b),
           InvalidAnswerType(b), AnswerTypeMismatch(b), AnswerWithoutType(b), StepMissingAnswer(b),
           ScaffoldMissingAnswer(b), HintHasAnswer(b), ProblemRowHasAnswer(b), McChoicesOnNonMcRow(b),
           McChoiceCount(b), McEmptyChoice(b), McDuplicateChoice(b), McAnswerNotInChoices(b),
           McDistractorEqualsAnswer(b), McTypeWithoutChoices(b), BlockHasNoStep(b), ProblemRowMissingTitle(b),
           ProblemMetadataMissing(b), MetadataOnNonProblemRow(b), HintMissingBody(b),
           RowMissingRequiredContent(b), RowHasForbiddenContent(b), RowMissingProblemName(b)}

\* The only rule that looks at several blocks; it names the later one.
DuplicateNames(blocks) ==
    {<<"DUPLICATE_PROBLEM_NAME", b.start, "">> :
        b \in {x \in blocks : x.name # "" /\ \E y \in blocks : y.start < x.start /\ y.name = x.name}}

WarningCodes == {"PROBLEM_ROW_MISSING_TITLE", "PROBLEM_ROW_HAS_ANSWER", "PROBLEM_METADATA_MISSING",
                 "METADATA_ON_NON_PROBLEM_ROW"}

\* A namespace used throughout is a house style, reported but not repaired.
Actionable(f, conventions) == f[1] = "SCAFFOLD_NAMESPACE_DEVIATION" => ~conventions.consistent

\* What a repair must not introduce.
Serious(f, conventions) == f[1] \notin WarningCodes /\ Actionable(f, conventions)

\* Every finding of the sheet as a reader would read it now.
Findings(sheet) ==
    LET blocks == Blocks(sheet)
    IN  (UNION {RuleFindings(b, Conventions(sheet)) \union ReaderFindings(b) : b \in blocks})
        \union DuplicateNames(blocks) \union Found("ORPHAN_ROW_BEFORE_FIRST_PROBLEM", Orphans(sheet), "")

Defects(sheet) == {f \in Findings(sheet) : Serious(f, Conventions(sheet))}

=============================================================================
