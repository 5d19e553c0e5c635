CONSTANTS
    Subs = {"s1", "s2"}
    MaxSubscriptions = 1
    TTL = 2
    QueueSize = 1
    DeliveryWorkers = {d1}
    Scenarios <- MCScenarios
    Keys = {k1, k2}
    MaxRevocationClockSkew = 1
    MaxInstant = 2
    MaxKeyEvents = 2
    MaxKeyFaults = 1
    Writers = {"server", "cli"}
    MaxAuditEvents = 3
    MaxAuditCalls = 4
    MaxAuditFaults = 3
    Accounts = {a1, a2}
    Requests = {"r1", "r2"}
    MaxRevision = 3
    MaxAdminFaults = 1
SPECIFICATION PlaneSpec
SYMMETRY Symmetry
INVARIANTS   AuditStaysUsable PolicyHistoryIsLinear
PROPERTIES NothingTakenBack PolicyObeyed
CHECK_DEADLOCK FALSE
