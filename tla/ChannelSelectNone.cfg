\* A select and another consumer of its channel.
SPECIFICATION Spec
CONSTANTS
    Chans = {"c1", "c2"}
    Fibers = {f1}
    Threads = {t1}
    Selectors = {t1}
    Cases <- TwoCases
    NoChan = NoChan
    MaxSends = 1
PROPERTIES
    SelectNoneMeansClosed
