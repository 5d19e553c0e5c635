CONSTANTS
    Workers = {w1, w2}
    MaxTree = 2
    AnchorMaxDelay = 1
    MaxLag = 1
    PerCallTimeout = 1
    LeaseMargin = 1
    ClaimLatency = 0
    InitialBackoff = 1
    MaxBackoff = 2
    MaxAttempts = 2
    AnchorIDs = {1, 2}
    MaxProvider = 1
    MaxClock = 6
    LastUpsert = 3
    MaxFaults = 1
    Punctual = FALSE
    Polling = FALSE
SYMMETRY Symmetry
SPECIFICATION Spec
INVARIANTS AnchorSound
PROPERTIES AttemptsFenced KeepsPromise
CHECK_DEADLOCK FALSE
