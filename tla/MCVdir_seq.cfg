CONSTANTS
    c1 = c1
    c2 = c2
    Clients <- OneClient
    Paths <- SeqPaths
    InitStore <- EmptyBucket
    NetFail = TRUE
    Ops <- NoChdir
SPECIFICATION Spec
INVARIANTS
    TypeOK
    NameiAgreesWithReference
    MkgenParentIsDirectory
    RmdirDeletesOnlyEmpty
    ReaddirComplete
PROPERTY VdirRefinesFS
