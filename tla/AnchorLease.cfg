CONSTANTS
    Workers = {w1, w2}
    MaxTree = 2
    AnchorMaxDelay = 1
    MaxLag = 0
    PerCallTimeout = 1
    LeaseMargin = 2
    ClaimLatency = 1
    InitialBackoff = 1
    MaxBackoff = 2
    MaxAttempts = 2
    AnchorIDs = {1}
    MaxProvider = 0
    MaxClock = 26
    LastUpsert = 2
    MaxFaults = 1
    Punctual = TRUE
    Polling = TRUE
    Calendars = {"c1", "c2"}
    BatchSizes = {1, 2, 3}
    Clis = {"cli"}
    MaxPersist = 2
    MaxResults = 4
    MaxBytes = 2
    MaxOtsFaults = 1
SPECIFICATION LeaseSpec
INVARIANT OnePublisher
PROPERTIES AttestationsKept EveryHeadAnchored EveryAttestationStored
CHECK_DEADLOCK FALSE
