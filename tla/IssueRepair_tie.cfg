SPECIFICATION Spec
CONSTANTS
    v1 = v1
    v2 = v2
    v3 = v3
    Values = {v1, v2, v3}
    MaxAttempts = 2
    RetryBudget = 1
    Batching = TRUE
    MaxReopens = 1
    MaxSiblings = 1
    MaxPatches = 2
    Submitted = v1
INVARIANT AfterOnlyLegacy
\* An issue that is resolved and not found again needs nothing.
CHECK_DEADLOCK FALSE
