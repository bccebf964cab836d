\* Rc graphs whose values may own Weak handles to each other.
SPECIFICATION Spec
CONSTANTS
    Objs = {o1, o2, o3}
    MaxHandles = 3
    MaxOut = 2
    DropDepth = 1
    MinThreshold = 2
    WeakInGraph = TRUE
INVARIANTS
    NoUseAfterFree
CHECK_DEADLOCK FALSE
