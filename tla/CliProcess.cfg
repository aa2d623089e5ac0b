SPECIFICATION CliFairSpec
CONSTANTS
    Payload = 2
    PipeSize = 1
    Chunk = 2
    Cap = 2
    MaxOutput = 3
    Signals <- Texts
INVARIANTS LeaderGone
PROPERTIES LimitIsFinal AnswerIsWhole CallReturns
CHECK_DEADLOCK FALSE
