\* The core runtime, one component at a time; threads, blocks and cells are alike.
SPECIFICATION SuiteSpec
CONSTANTS
    Parts = {"lease", "alloc", "journal", "send", "cycles", "closures", "guard", "output", "stacks", "spin", "timers", "rwlock", "queues"}
    Keys = {t1, t2}
    Epochs = {1, 2, 3}
    Idems = {b1, b2, b3}
    None = None
    NoEnv = NoEnv
    Threads = {t1, t2}
    Blocks = {b1, b2, b3}
    MinShift = 1
    MaxShift = 3
    BudgetShift = 3
    Requests = {3, 7}
    Chunks = {5, 8}
    StashDepth = 1
    MaxAllocs = 3
    Fibers = {t1, t2}
    Cells = {c1, c2}
    MaxOwn = 2
    MaxFrames = 2
    MaxSeq = 2
    DropsAllocate = FALSE
    Counted = {11, 12, 13}
    SmallCap = 2
    Hashes = {0, 7}
    MaxPlaces = 2
    Objs = {b1, b2, b3}
    MaxHandles = 3
    MaxOut = 2
    DropDepth = 1
    MinThreshold = 2
    WeakInGraph = FALSE
    Envs = {b1, b2, b3, c1}
    Vals = {b1, b2, b3, c2}
    Insts = {b1, b2, b3}
    Ranges = {b1, b2, b3}
    Places = {1, 2, 3}
    MemCap = 2
    CodeCap = 2
    MaxPages = 2
    MaxLives = 3
    StackMax = 2
    MaxPrints = 3
    MaxCaptures = 3
    Stacks = {b1, b2, b3}
    Systems = {"windows", "posix"}
    Commit = 1
    Keep = 2
    Usable = 3
    TrimEvery = 3
    Cap = 2
    MaxFibers = 7
    DefaultCap = 16
    Margin = 2
    Lengths = {0, 1, 2, 9, 33, 200}
    Steady = 7
    MaxWaits = 12
    Entries = {b1, b2, b3, t1, t2, c1}
    Deadlines = {1, 2, 3}
    Holders = {t1, t2}
    Locks = {b1, b2, b3}
    Inline = 1
    MaxGuards = 3
INVARIANTS
    AtMostOnce
    EffectsInEpochOrder
    OneOwner
    NothingLost
    LandsRight
    KeptExact
    HandedOutOnce
PROPERTIES
    FenceNeverMovesBack
SYMMETRY Symmetry
CHECK_DEADLOCK FALSE
