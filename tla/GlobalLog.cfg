CONSTANTS
    Backends = {"file", "pebble", "tikv"}
    Nodes = {n1, n2}
    MaxBatch = 2
    BatchSize = 2
    PageSize = 1
    Unlucky = {n1}
    MaxMishaps = 1
    Values = {x, y}
    MaxLeaves = 9
    MaxOld = 5
SPECIFICATION GlobalSpec
INVARIANTS  ProofsSound
PROPERTIES LogIsAppendOnly 
CHECK_DEADLOCK FALSE
