SPECIFICATION Spec
CONSTANTS
    Blocks = {"b1", "b2"}
    NoBlock = "none"
    Issues = {"w1", "f1", "s2"}
    BlockOf <- TwoBlockOf
    SourceOf <- TwoSourceOf
    Contents = {0, 1}
    Submitted = 0
    Fires <- TwoFires
    Warnings = {"w1"}
    MaxAttempts = 1
    MaxRounds = 2
    SemanticRounds = 2
    Rescans = 0
    FailureBudget = 1
    StepBudget = 2
    MaxCrashes = 1
    MaxResumes = 1
INVARIANTS SuccessIsChecked NothingLaundered RepairsStand NothingLeftBehind
PROPERTIES JobEnds
CHECK_DEADLOCK FALSE
