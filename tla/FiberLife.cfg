\* Two fibers on two workers, and a thread, under fairness of the steps inside the runtime.
SPECIFICATION FairSpec
CONSTANTS
    Fibers = {f1, f2}
    Workers = {w1, w2}
    Threads = {t1}
    NoFiber = NoFiber
    Nobody = Nobody
INVARIANTS
    NoUseAfterFree
    QueuedIsSuspended
    WokenIsSuspended
    PendingExact
PROPERTIES
    FinishedIsFreed
    JoinReturns
CHECK_DEADLOCK FALSE
