\* The version of the block list changes while the guest rewrites what is cached.
SPECIFICATION FairSpec
CONSTANTS
    Blocks <- NoHole
    Bytes = {0, 1}
    Width = 2
    Zero = 0
    GuestWrites <- TamePages
    CacheSizes = {2}
    MaxWrites = 2
CHECK_DEADLOCK FALSE
PROPERTY SaveBlockAlwaysReturns
