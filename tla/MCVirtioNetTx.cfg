SPECIFICATION FairSpec
CONSTANTS
    IdxHalf = 2
    Num = 2
    NoHead = NoHead
    Configs <- SoundConfigs
INVARIANTS
    TypeOK
    BufferInOnePlace
    NoLostInterrupt
    NoStall
    StoppedDeviceQuiet
PROPERTY
    BufferReturned
CHECK_DEADLOCK FALSE
