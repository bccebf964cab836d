\* One worker in the netpoller build, OS threads pushing at any time.
SPECIFICATION Spec
CONSTANTS
    Fibers = {f1, f2}
    Workers = {w1}
    Threads = {t1}
    NoFiber = NoFiber
    NoWorker = NoWorker
    Netpoller = TRUE
    LatePush = TRUE
    LocalShare = 1
    BatchCap = 16
    MaxStamp = 3
INVARIANTS
    NoLostWakeup
CHECK_DEADLOCK FALSE
