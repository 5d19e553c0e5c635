CONSTANTS
    NumEndpoints = 3
    ReadQuorum = 2
    Span = 1
    MaxLag = 2
    MaxAttempts = 2
    Publishers = {"w1"}
    MaxHeight = 4
    MaxClaims = 3
    MaxTxs = 2
    RejectsIncluded = FALSE
SPECIFICATION BcosSpec
INVARIANTS SuccessNotAbandoned
CHECK_DEADLOCK FALSE
