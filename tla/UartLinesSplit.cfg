SPECIFICATION Spec
CONSTANTS
    LineLen = 3
    ChunkMax = 5
    Limit = 4
    MaxLines = 5
INVARIANTS
    EveryLineIsParsed
CHECK_DEADLOCK FALSE
