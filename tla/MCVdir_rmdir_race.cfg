CONSTANTS
    c1 = c1
    c2 = c2
    Clients <- TwoClients
    Paths <- RacePaths
    InitStore <- DirD
    NetFail = FALSE
    Ops <- AllOps
SPECIFICATION Spec
CONSTRAINT KeyDepthBound
INVARIANT RmdirDeletesOnlyEmpty
