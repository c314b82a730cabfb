\* Two realms share the collector object.
SPECIFICATION Spec
CONSTANTS
    buckets = buckets
    users = users
    east = east
    west = west
    u1 = u1
    u2 = u2
    u3 = u3
    Updates = {u1, u2}
    Collector <- OneCollector
    Cycle <- OneCycle
    Realm <- TwoRealms
    Enabling <- JustThat
    Items = {b1}
    UsageMetrics <- MCUsageMetrics
    QuotaMetrics <- MCQuotaMetrics
INVARIANTS RealmsStayApart
CHECK_DEADLOCK FALSE
