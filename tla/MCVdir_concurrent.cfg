CONSTANTS
    c1 = c1
    c2 = c2
    Clients <- TwoClients
    Paths <- ConcurrentPaths
    InitStore <- EmptyBucket
    NetFail = FALSE
    Ops <- DirOps
SPECIFICATION Spec
PROPERTY EveryCallReturns
CONSTRAINT KeyDepthBound
