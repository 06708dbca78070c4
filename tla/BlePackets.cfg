SPECIFICATION FairSpec
CONSTANTS
    p = p
    q = q
    None = None
    Tag <- MCTag
    MaxLen = 6
    PacketSize = 3
INVARIANTS
    TypeOK
    SignalledEndsWithMessage
PROPERTIES
    MessageIsSignalled
