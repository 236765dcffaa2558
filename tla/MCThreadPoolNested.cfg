SPECIFICATION Spec
CONSTANTS
    Threads = {t1, t2}
    Reqs = {r1, r2, r3}
    Results = {ok}
    Garbage = Garbage
    NoReq = NoReq
    MaxThreads = 2
    MaxDepth = 2
    CallbackMayPoll = TRUE
SYMMETRY Symmetry
CHECK_DEADLOCK FALSE
INVARIANT NestedPollProgress
