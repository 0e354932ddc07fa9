CONSTANTS
    v1 = v1
    v2 = v2
    None = None
    Values <- TwoValues
    Ids <- SharedPrefixIds
    NewIds <- PostIds
    IdPath = "ids"
    Backends <- FullBackend
    MaxPathLen = 8
SPECIFICATION Spec
INVARIANT ReadsSeeOwnWrites
