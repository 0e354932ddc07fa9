CONSTANTS
    Undef = Undef
    None = None
    Methods = {"GET"}
    Hosts = {"h"}
    Ports = {"80", "81"}
    Resources <- EncodedResources
    Subresources = {None, "acl"}
    QueryDicts <- ListingQueries
    CondLists <- DistinctConds
    Ranges <- ClosedRanges
    Policies <- EncodingOn
    Credentials <- SomeCredentials
    AuthBufLen = 16
    BufLen = 100
    ObjSize = 4
SPECIFICATION Spec
CHECK_DEADLOCK FALSE
INVARIANTS
    TypeOK
    RequestTargetRoundTrip
    RangeSelectsRequested
    AuthorizationCarriesCredentials
