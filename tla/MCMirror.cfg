SPECIFICATION FairSpec
CONSTANTS
    N = 4
    ClusterSize = 2
    WordSize = 2
    MaxInFlight = 2
    BufChunks = 3
    Setups <- MCSetups
    PartialTail = FALSE
    MaxWrites = 1
    MaxErrors = 1
INVARIANTS TypeOK OperationsSound CompletedIsCopy
PROPERTY CancelFinishes
CHECK_DEADLOCK FALSE
