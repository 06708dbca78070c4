SPECIFICATION DevicesFairSpec
CONSTANTS
    a = a
    Item <- MCItem
    Value <- MCValue
    InitValue = 0
    NoHalf = NoHalf
    Lines = {}
    Reading <- MCReading
    PacketSize = 20
    List <- MCList
    Lowest <- MCLowest
    Highest <- MCHighest
    MaxDelta <- MCMaxDelta
    reader = reader
    ExThread = {reader}
INVARIANTS
    DevicesTypeOK
    MomentIsTracked
    ReaderIsOwned
PROPERTIES
    OutOfBoundsIsSentAgain
    DestructionEnds
CHECK_DEADLOCK FALSE
