\* With and without pools selected by rbd.pools.
SPECIFICATION Spec
CONSTANTS
    rbd = rbd
    tenants = tenants
    meta = meta
    gone = gone
    n1 = n1
    Default = Default
    NoPool = NoPool
    Pools <- MCPools
    Images <- MCImages
    Configs <- MCConfigs
    ProbeFaults = FALSE
INVARIANTS TypeOK NilMeansComplete FailuresStayLocal ReturnsReleaseHandles
           HandlesNest ExpiryStopsTheWalk
