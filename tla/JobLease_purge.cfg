SPECIFICATION Spec
CONSTANTS
    p1 = p1
    p2 = p2
    None = None
    Processes = {p1}
    NumJobs = 1
    Threads = 1
    StepBudget = 2
    Poison = {}
    Resumes = {1}
    MaxFaults = 0
PROPERTY PurgeSparesRunning
\* A finished job needs nothing.
CHECK_DEADLOCK FALSE
