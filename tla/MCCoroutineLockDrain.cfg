\* The block job may drain after unlock_bh has entered it.
SPECIFICATION Spec
CONSTANTS
    Coroutines = {c1, c2, job}
    Drainers = {job}
    Mutexes = {m1, m2}
    Rwlocks = {}
    MainLoop = MainLoop
    NoLock = NoLock
    DrainInBh = TRUE
CHECK_DEADLOCK FALSE
INVARIANT DrainComplete
