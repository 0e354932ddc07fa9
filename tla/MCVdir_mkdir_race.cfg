CONSTANTS
    c1 = c1
    c2 = c2
    Clients <- TwoClients
    Paths <- ShadowPaths
    InitStore <- DirB
    NetFail = FALSE
    Ops <- AllOps
SPECIFICATION Spec
CONSTRAINT KeyDepthBound
INVARIANT MkgenParentIsDirectory
