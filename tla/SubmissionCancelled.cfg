CONSTANTS
    r1 = r1
    r2 = r2
    r3 = r3
    keyed = keyed
    unkeyed = unkeyed
    c1 = c1
    c2 = c2
    c3 = c3
    Requests = {r1, r2, r3}
    Keys = {keyed, unkeyed}
    Keyed = {keyed}
    Claims = {c1, c2, c3}
    Scenarios <- AllScenarios
    QueueSize = 2
    Workers = 2
    Slots = 1
    HasReader = TRUE
    MaxRestarts = 1
    NatsClaims = {"c1", "c2"}
    Malformed = {"bad"}
    NatsKeyOf <- OneKey
    Codes = {"deadline_exceeded"}
    Traffic <- AllTraffic
    PullLoops = {w1, w2}
    MaxDeliver = 2
    Buffer = 1
    MaxFaults = 1
    p1 = p1
    p2 = p2
    p3 = p3
    NoCall = NoCall
    Calls <- Three
    Size <- SizeOfThree
    MaxBytes = 3
    Modes = {"strict", "group", "batch"}
    MaxWalFaults = 3
    MaxSeq = 6
    MaxRuns = 2
SPECIFICATION IngestSpec
INVARIANT NotStranded
CHECK_DEADLOCK FALSE
