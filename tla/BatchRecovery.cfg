CONSTANTS
    Configs <- Supported
    Limits <- Some
    MaxSeq = 3
    MaxRuns = 4
    BatchMax = 2
    JobSlots = 1
    PerSegment = 2
    KeepSegments = 0
    MaxFaults = 1
    MaxCrashes = 2
SPECIFICATION LimitedSpec
 
PROPERTIES  EveryRecordPublished
CHECK_DEADLOCK FALSE
