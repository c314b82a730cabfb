\* A transient error of the calls that tell an RBD pool.
SPECIFICATION Spec
CONSTANTS
    rbd = rbd
    tenants = tenants
    meta = meta
    gone = gone
    n1 = n1
    Default = Default
    NoPool = NoPool
    Pools <- MCPools
    Images <- MCImages
    Configs <- MCConfigs
    ProbeFaults = TRUE
PROPERTIES SkippingIsHarmless
