SPECIFICATION FairSpec
CONSTANTS
    Issues = {1, 2, 3}
    BlockOf <- OneBlock
    RowsOf <- TwoRows
    RoleOf <- OneIndependent
    KindsOf <- OneEither
    CellsOf <- SharedCells
    BatchSize = 8
    MaxAttempts = 1
    RetryBudget = 1
    MaxRounds = 2
    MaxCrashes = 1
    MaxResumes = 1
INVARIANTS CandidatesStandAlone NoneForgotten
PROPERTIES RepairEnds
CHECK_DEADLOCK FALSE
