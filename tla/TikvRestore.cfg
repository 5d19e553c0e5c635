SPECIFICATION TikvSpec
CONSTANTS Clients = {c1, c2}
 Batches = {1, 2}
 Sinks = {1, 2}
 Sizes = {1, 2}
 Times = {1, 2}
 Sequences = {1, 2}
 MaxCalls = 4
INVARIANT RestoreAccepted
CHECK_DEADLOCK FALSE
