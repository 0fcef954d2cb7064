SPECIFICATION FairSpec
CONSTANTS
    c1 = c1
    c2 = c2
    Slots <- TwoSlots
    MaxTries = 2
    MaxRetries = 1
    MaxKills = 1
CHECK_DEADLOCK FALSE
INVARIANTS
    TypeOK
    ServedIsClean
    OneScanUnlessStale
    AbortedLeavesNothing
PROPERTIES
    OnlyScansReopen
    ScanEnds
