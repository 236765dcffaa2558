\* One mutex and one read/write lock, two requests and a block job that
\* takes the locks too and drains, but never from inside unlock_bh.
SPECIFICATION FairSpec
CONSTANTS
    Coroutines = {c1, c2, job}
    Drainers = {job}
    Mutexes = {m}
    Rwlocks = {rw}
    MainLoop = MainLoop
    NoLock = NoLock
    DrainInBh = FALSE
INVARIANTS
    TypeOK
    MutualExclusion
    OnePlace
    NoLostWakeup
    OnlyWritersWait
    DrainComplete
PROPERTIES
    WokenRuns
    WaiterWoken
