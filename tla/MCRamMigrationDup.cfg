\* The guest may also write pages of one byte value while XBZRLE is on.
SPECIFICATION Spec
CONSTANTS
    Blocks <- OneBlock
    Bytes = {0, 1}
    Width = 2
    Zero = 0
    GuestWrites <- AnyPage
    CacheSizes = {2}
    MaxWrites = 3
CHECK_DEADLOCK FALSE
INVARIANT MemoryMigrated
