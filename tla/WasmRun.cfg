\* The root thread in nurl_runtime_run while two fibers of the WebAssembly build end.
SPECIFICATION Spec
CONSTANTS
    Threads = {Main, t1, t2}
    Main = Main
    Producers = {t2}
    MaxRounds = 2
INVARIANTS
    RunNotStranded
CHECK_DEADLOCK FALSE
