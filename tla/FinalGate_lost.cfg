SPECIFICATION Spec
CONSTANTS
    BookRows <- MCRows
    BookColumns <- MCColumns
    Forced <- MCForced
    Texts = {"", "a", "b"}
    SourceCell <- MCSourceCell
    SourceHeight <- MCSourceHeight
    Untouchable = {"merged_ranges", "another sheet"}
    MaxBatches = 2
    MaxSweeps = 1
    MaxCells = 2
    MaxDamage = 0
INVARIANT EveryLostWriteCaught
CHECK_DEADLOCK FALSE
