SPECIFICATION FairSpec
CONSTANTS
    p1 = p1
    None = None
    p2 = p2
    Processes = {p1, p2}
    NumJobs = 1
    Threads = 1
    StepBudget = 2
    Poison = {}
    Resumes = {1}
    MaxFaults = 2
INVARIANT OneWorker
INVARIANT NoOrphanFiles
PROPERTY FatalStays
PROPERTY JobSettles
\* A finished job needs nothing.
CHECK_DEADLOCK FALSE
