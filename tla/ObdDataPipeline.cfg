SPECIFICATION FairSpec
CONSTANTS
    a = a
    b = b
    c = c
    v0 = v0
    v1 = v1
    Item <- MCItem
    Value <- MCValue
    InitValue = v0
    NoHalf = NoHalf
    Lines <- MCLines
    Reading <- MCReading
    PacketSize = 20
INVARIANTS
    TypeOK
    NoDuplicates
    StaleIsTracked
    SnapshotIsPrefix
    LinesAreWhole
PROPERTIES
    NotifiedIsSentOrDropped
