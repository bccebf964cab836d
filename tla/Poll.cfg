\* Two workers of the netpoller build: edges in both directions, deadlines, closes.
SPECIFICATION Spec
CONSTANTS
    Fds = {d1}
    Fibers = {f1, f2}
    Workers = {w1, w2}
    NoFd = NoFd
    NoFiber = NoFiber
    NoWorker = NoWorker
    Dirs = {in, out}
    Delays = {1}
    MaxEvents = 1
    MaxOpens = 1
    MaxTime = 1
    Shared = FALSE
INVARIANTS
    ReadinessReaches
    WokenOnce
    NoOversleep
SYMMETRY Symmetry
CHECK_DEADLOCK FALSE
