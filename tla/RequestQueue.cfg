SPECIFICATION FairSpec
CONSTANTS
    c1 = c1
    c2 = c2
    Caller <- MCCaller
    MaxCalls = 2
    NoRequest = NoRequest
INVARIANTS
    TypeOK
    ReplyIsYoungerThanCall
PROPERTIES
    CallsReturn
    QueueDrains
