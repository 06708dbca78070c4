SPECIFICATION FairSpec
CONSTANTS
    t1 = t1
    t2 = t2
    server = server
    k1 = k1
    k2 = k2
    NoThread = NoThread
    Thread <- MCThread
    Task <- MCTask
    Threads <- MCThreads
    ExThread <- MCExThread
INVARIANTS
    TypeOK
    JoinedIsStopping
    ServerIsServed
    EndedIsIdle
PROPERTIES
    SenderIsJoined
CHECK_DEADLOCK FALSE
