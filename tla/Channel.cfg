\* Two fibers, one of them selecting, and a thread on two channels, under fairness.
SPECIFICATION FairSpec
CONSTANTS
    Chans = {"c1", "c2"}
    Fibers = {f1, f2}
    Threads = {t1}
    Selectors = {f2}
    Cases <- TwoCases
    NoChan = NoChan
    MaxSends = 2
INVARIANTS
    NoneStranded
    SelectHears
PROPERTIES
    ServesReceivers
    SelectReturns
