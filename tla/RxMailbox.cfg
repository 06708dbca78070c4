SPECIFICATION FairSpec
CONSTANTS
    key = key
    mode = mode
    bytes = bytes
    NoCommand = NoCommand
    NoContent = NoContent
    Empty = Empty
    Timeout = Timeout
    Command <- MCCommand
    Content <- MCContent
INVARIANTS
    TypeOK
    NoDataRace
    WholeMessage
PROPERTIES
    ImplementsSlot
    WrittenIsReturned
