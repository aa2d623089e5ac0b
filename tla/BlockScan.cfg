SPECIFICATION Spec
CONSTANTS
    Blocks = {"b1", "b2"}
    Rows = {1, 2}
    Place <- ThePlace
    Graded <- TheGraded
    Cost <- TheCost
    Changed = {"b1"}
    BatchSize = 2
    BatchBudget = 2
    Rescans = 1
    FinalRounds = 2
    StepBudget = 7
    MaxCrashes = 1
INVARIANTS SuccessIsExamined ReasoningIsRegistered
CHECK_DEADLOCK FALSE
