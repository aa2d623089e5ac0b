SPECIFICATION FairSpec
CONSTANTS
    Workers = {w1, w2}
    Models = {"sonnet", "opus"}
    Deployments <- AllDeployments
    MaxAttempts = 2
    SchemaRetries = 1
    FailureBudget = 2
    MaxTokens = 2
    Work = 2
    MaxFaults = 1
    MaxResumes = 1
INVARIANTS CallsArePaid OneCallOvershoots
PROPERTIES JobComesToRest
CHECK_DEADLOCK FALSE
