CONSTANTS
    c1 = c1
    c2 = c2
    Clients <- OneClient
    Paths <- RootPath
    InitStore <- EmptyBucket
    NetFail = FALSE
    Ops <- AllOps
SPECIFICATION Spec
CONSTRAINT KeyDepthBound
INVARIANT RmdirTargetsAMarker
