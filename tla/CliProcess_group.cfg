SPECIFICATION CliSpec
CONSTANTS
    Payload = 2
    PipeSize = 1
    Chunk = 2
    Cap = 2
    MaxOutput = 3
    Signals <- Texts
INVARIANTS GroupEnded
CHECK_DEADLOCK FALSE
