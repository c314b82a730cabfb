\* A panic inside the function.
SPECIFICATION Spec
CONSTANTS
    rbd = rbd
    tenants = tenants
    meta = meta
    gone = gone
    n1 = n1
    Default = Default
    NoPool = NoPool
    Pools <- MCPools
    Images <- MCImages
    Configs <- MCConfigs
    ProbeFaults = FALSE
INVARIANTS HandlesAreReleased
