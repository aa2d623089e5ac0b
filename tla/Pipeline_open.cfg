SPECIFICATION Spec
CONSTANTS
    Blocks = {"b1"}
    NoBlock = "none"
    Issues = {"w1", "f1"}
    BlockOf <- OpenBlockOf
    SourceOf <- OpenSourceOf
    Contents = {0, 1}
    Submitted = 0
    Fires <- TwoFires
    Warnings = {"w1"}
    MaxAttempts = 1
    MaxRounds = 3
    SemanticRounds = 2
    Rescans = 0
    FailureBudget = 1
    StepBudget = 2
    MaxCrashes = 1
    MaxResumes = 0
PROPERTIES StillOpenSettles
CHECK_DEADLOCK FALSE
