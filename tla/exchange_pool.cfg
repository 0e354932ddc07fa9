CONSTANTS
    t1 = t1
    t2 = t2
    s1 = s1
    s2 = s2
    NoSock = NoSock
    NoThread = NoThread
    Threads <- TwoThreads
    Sockets <- TwoSockets
    Fns <- PoolFns
    CbErrors = {"FAILURE"}
SPECIFICATION Spec
INVARIANTS
    TypeOK
    ConnectionSingleOwner
    ReplyMatchesRequest
