SPECIFICATION Spec
CONSTANTS
    LineLen = 3
    ChunkMax = 5
    Limit = 4
    MaxLines = 8
    BatteryLines <- MCBatteryLines
    FirstValue <- MCFirstValue
INVARIANTS
    TypeOK
    AcceptedAreLines
    NothingLost
    MissedOnlyAtChunkEnd
    ElementsHaveNewest
CHECK_DEADLOCK FALSE
