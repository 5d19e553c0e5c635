CONSTANTS
    NumEndpoints = 3
    ReadQuorum = 2
    Span = 1
    MaxLag = 2
    MaxAttempts = 2
    Publishers = {"w1", "w2"}
    MaxHeight = 4
    MaxClaims = 3
    MaxTxs = 3
    RejectsIncluded = TRUE
SPECIFICATION ProvidersSpec
INVARIANTS SentIsJournaled 
CHECK_DEADLOCK FALSE
