\* The poll(2) build under fairness: queues, steals, batches, admissions and the idle park.
SPECIFICATION PlainFairSpec
CONSTANTS
    Fibers = {f1, f2, f3}
    Workers = {w1, w2}
    Threads = {t1}
    NoFiber = NoFiber
    NoWorker = NoWorker
    Netpoller = FALSE
    LatePush = TRUE
    LocalShare = 1
    BatchCap = 16
    MaxStamp = 3
INVARIANTS
    OnePlace
    QueuesOrdered
    WakeupsReach
PROPERTIES
    EveryQueuedRuns
    ShutdownCompletes
CHECK_DEADLOCK FALSE
