SPECIFICATION FairSpec
CONSTANTS
    Sock = {s1, s2, s3}
    Conn = {c1, c2}
    Handle = Handle
    Task = Task
    NoSock = NoSock
    MinIdle = 2
    IdleTimeout = 2
    FirstDelay = 1
    MaxDelay = 2
INVARIANTS NoLostWakeup DialsAreBounded
PROPERTIES SocketsAreKept ImplementsShelf PoolStops Refilled
CHECK_DEADLOCK FALSE
