SPECIFICATION Spec
CONSTANTS
    IdxHalf = 2
    Num = 2
    NoHead = NoHead
    Configs <- StopConfigs
INVARIANT
    SendsWhileRunning
CHECK_DEADLOCK FALSE
