\* Both collectors run on one realm, each on an object of its own.
SPECIFICATION Spec
CONSTANTS
    buckets = buckets
    users = users
    east = east
    west = west
    u1 = u1
    u2 = u2
    u3 = u3
    Updates = {u1, u2, u3}
    Collector <- BothCollectors
    Cycle <- TwoCycles
    Realm <- OneRealm
    Enabling <- OneAtATime
    Items = {b1, b2}
    UsageMetrics <- MCUsageMetrics
    QuotaMetrics <- MCQuotaMetrics
SYMMETRY Symmetry
INVARIANTS TypeOK LabelsAreRight FailuresStayLocal ServedIsWhole
CHECK_DEADLOCK FALSE
