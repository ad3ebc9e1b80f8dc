CONSTANTS
    Workers = {w1, w2}
    Requests <- MCRequests
    PathOf <- MCPathOf
    ProfileOf <- MCProfileOf
    LongPaths = {"long"}
    GroupsLimit = 3
    SourceLimit = 2
    TotalLimit = 3
    MaxFaults = 1
SPECIFICATION Spec
INVARIANTS
    TypeOK
    CacheIsTransparent
    UnsettledLeaveNoTrace
PROPERTIES
    EachEnds
