\* The parts in which someone waits, one at a time.
SPECIFICATION SuiteSpec
CONSTANTS
    Parts = {"cond", "resolver", "listener", "tcp", "reactor", "sched", "child", "run", "clock"}
    None = None
    Fibers = {f1, f2}
    Threads = {t1}
    Posters = {p1}
    Nobody = Nobody
    NoFiber = NoFiber
    LateSignal = FALSE
    MaxPosts = 2
    Pool = {"w1", "w2"}
    ConnectClock = 1
    ConnectTimeouts = {0, 1}
    MaxAddrs = 2
    MaxConnects = 2
    ListenFds = {1, 2}
    MaxConns = 1
    FiberReuse = FALSE
    NsPerMs = 2
    ConnClock = 5
    Idles = {0, 2}
    Budgets = {0, 3}
    Sizes <- WriteSizes
    MaxOps = 4
    PollFds = {1}
    PollPrograms = {{"fd"}, {"sleep", "mutex"}}
    PollTimeouts = {None, 1}
    Entries = {1, 2, 3}
    PollClock = 1
    MaxParks = 3
    PipeRoom = 2
    MaxOut = 4
    MaxReads = 4
    Runs = {"a", "b"}
    Us = "us"
    RunRoom = 1
    InLen <- StdinLens
    RunOut <- Outputs
    Machines <- Guests
    Milli = 2
    Wants = {0, 1, 4}
    ApicPeriod = 2
    Counts = {1, 2, 3}
    MaxCount = 5
    MaxLag = 2
    MaxTsc = 48
    MaxSleeps = 2
INVARIANTS
    NoTokenStranded
    WokenOnce
    WakeIsComing
    UsesWhatIsOwn
    TimeoutsMean
    OutputArrives
PROPERTIES
    TurnsKept
SYMMETRY Symmetry
CHECK_DEADLOCK FALSE
