SPECIFICATION PatchSpec
CONSTANTS
    LastRow = 7
    Identifier <- MCIdentifier
    Several <- MCSeveral
    Variable = {"x=2"}
    ChoicesOf <- MCChoices
    Statement <- MCStatement
    Submitted <- MCSubmitted
    PatchCells <- MCPatchCells
    Pairs <- MCPairs
    ModelCells <- MCModelCells
    ModelCategories = {"mathematics", "structure", "notation"}
    Fractions = {"1/2"}
    Decimals = {"0.5"}
    ExactPrompts = {"exact"}
    MaxRepairs = 2
PROPERTIES NothingElseBreaks
CHECK_DEADLOCK FALSE
