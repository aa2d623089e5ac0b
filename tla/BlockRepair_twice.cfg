SPECIFICATION Spec
CONSTANTS
    Issues = {1, 2, 3}
    BlockOf <- OneBlock
    RowsOf <- OwnRows
    RoleOf <- OneIndependent
    KindsOf <- AllRules
    CellsOf <- OwnCells
    BatchSize = 8
    MaxAttempts = 2
    RetryBudget = 1
    MaxRounds = 3
    MaxCrashes = 1
    MaxResumes = 0
INVARIANTS ReviewedOnce
CHECK_DEADLOCK FALSE
