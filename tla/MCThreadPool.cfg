\* Nested polling allowed; no deadlock check, for a nested aio_poll can block
\* for ever (see MCThreadPoolNested.cfg).
SPECIFICATION FairSpec
CONSTANTS
    Threads = {t1, t2}
    Reqs = {r1, r2}
    Results = {ok}
    Garbage = Garbage
    NoReq = NoReq
    MaxThreads = 2
    MaxDepth = 2
    CallbackMayPoll = TRUE
CHECK_DEADLOCK FALSE
INVARIANTS
    TypeOK
    TokensMatch
    ThreadAccounting
    SpawnPromise
    NoStrandedRequest
    ListsConsistent
    NoLostCompletion
PROPERTIES
    ImplementsAio
    CancelTerminates
    QueuedServed
    CompletionProgress
