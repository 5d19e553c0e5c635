CONSTANTS
    TikvTileSize = 2
    PebbleTileSize = 2
    DefaultLimit = 2
    MaxLimit = 2
    RecordAt <- MCRecordAt
    RecordBatch <- MCRecordBatch
    RootAt <- MCRootAt
    MaxRows = 4
    MaxPages = 6
    Callers = {"c1", "c2"}
    SignerKeys = {"k1"}
    MaxChildren = 2
    PluginMaxSigns = 1
    HostMaxSigns = 0
    MaxBackoff = 2
    MaxFaults = 1
    Requests = {1, 2}
    PinnedKeys = {"k1"}
    OpsOf <- MCOpsOf
    MaxDeviceFaults = 1
SPECIFICATION ClientsSpec
INVARIANTS  SigningSound DevicesSound
CHECK_DEADLOCK FALSE
