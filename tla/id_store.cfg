CONSTANTS
    v1 = v1
    v2 = v2
    None = None
    Values <- TwoValues
    Ids <- SharedPrefixIds
    NewIds <- PostIds
    IdPath = "ids"
    Backends <- SomeBackends
    MaxPathLen = 10
SPECIFICATION Spec
INVARIANTS
    TypeOK
PROPERTY IdLayerRefinesStore
