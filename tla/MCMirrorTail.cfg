SPECIFICATION Spec
CONSTANTS
    N = 4
    ClusterSize = 2
    WordSize = 2
    MaxInFlight = 2
    BufChunks = 3
    Setups <- PlainSetups
    PartialTail = TRUE
    MaxWrites = 1
    MaxErrors = 1
INVARIANT InFlightExact
CHECK_DEADLOCK FALSE
