CONSTANTS
    NumRecords = 2
    MaxStops = 2
    MaxRoot = 3
    MaxHead = 4
    MaxBreaks = 2
    Processes = {p1, p2}
    Threads = {t1, t2}
    MaxVersion = 3
    MaxOutages = 2
    MaxOpens = 3
    ProofModes = {"inline", "async", "on_demand"}
    NumBatches = 2
    PerBatch = 1
    ArtifactSync = FALSE
    MaxPebbleCrashes = 1
    NumManifests = 2
    MaxTargets = 2
    MaxRestoreCrashes = 1
    MaxPlain = 2
    MaxBytes = 5
    Clients = {c1, c2}
    Batches = {1, 2}
    Sinks = {1, 2}
    Sizes = {1, 2}
    Times = {1, 2}
    Sequences = {1, 2}
    MaxCalls = 4
    Observers = {o1}
    Workers = {1, 2}
    MaxSize = 2
    Delay = 0
    Lease = 1
    MaxClock = 2
    MaxTries = 1
    MaxTokens = 2
    MaxOpen = 2
SPECIFICATION StoresSpec
INVARIANTS  PebbleSound  
PROPERTIES  TransactionsKeepPromise
CHECK_DEADLOCK FALSE
