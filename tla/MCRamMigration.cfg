SPECIFICATION FairSpec
CONSTANTS
    Blocks <- TwoBlocks
    Bytes = {0, 1}
    Width = 2
    Zero = 0
    GuestWrites <- TamePages
    CacheSizes = {1, 2}
    MaxWrites = 3
CHECK_DEADLOCK FALSE
INVARIANTS
    TypeOK
    DirtyCount
    NoPageForgotten
    CacheCoherent
    MemoryMigrated
    StreamWellFormed
PROPERTY SaveBlockReturns
