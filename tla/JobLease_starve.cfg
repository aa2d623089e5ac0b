SPECIFICATION FairSpec
CONSTANTS
    p1 = p1
    p2 = p2
    None = None
    Processes = {p1}
    NumJobs = 2
    Threads = 1
    StepBudget = 2
    Poison = {1}
    Resumes = {}
    MaxFaults = 0
PROPERTY OthersSettle
\* A finished job needs nothing.
CHECK_DEADLOCK FALSE
