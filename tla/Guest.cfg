\* The parts that stand in for an operating system, one at a time.
SPECIFICATION Spec
CONSTANTS
    Parts = {"vfs", "redirect", "heap", "wasmheap", "paging", "rng", "fdt", "signals", "cmdline", "threads", "udp"}
INVARIANTS
    MemoryUsable
    ReadsExact
    WakesReach
    RepliesReachSender
PROPERTIES
    AnswersFresh
CHECK_DEADLOCK FALSE
