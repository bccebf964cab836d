\* The parts in which someone waits, one at a time, under fairness.
SPECIFICATION SuiteSpec
CONSTANTS
    Parts = {"netpoll", "resolver", "listener", "reactor", "cond", "sched", "queues", "child", "tcp", "run", "clock"}
    None = None
    Fds = {d1}
    Fibers = {"a", "b"}
    Workers = {w1}
    NoFd = NoFd
    NoFiber = NoFiber
    NoWorker = NoWorker
    Dirs = {in}
    Delays = {1}
    MaxEvents = 2
    MaxOpens = 2
    MaxTime = 1
    Shared = FALSE
PROPERTIES
    WaitsEnd
    CallsAnswered
CHECK_DEADLOCK FALSE
