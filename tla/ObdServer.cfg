SPECIFICATION FairSpec
CONSTANTS
    k1 = k1
    k2 = k2
    tx = tx
    NoThread = NoThread
    Empty = Empty
    Thread <- MCThread
    Task <- MCTask
    SilenceLimit = 2
    HeartbeatLimit = 1
INVARIANTS
    TypeOK
    HandshakeOrder
    TxTaskFollowsSession
    IntervalFollowsMode
PROPERTIES
    DeadLinkEndsSession
    HeartbeatGoesOn
    PoliteClientConnects
