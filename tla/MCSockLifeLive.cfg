\* Liveness and refinement: no symmetry.
SPECIFICATION FairSpec
CONSTANTS
    Thread = {t1, t2}
    Sock = {k1, k2}
    MaxFd = 2
    MaxEp = 1
    MaxMsg = 1
    StopHook = FALSE
    NULL = NULL
PROPERTIES
    CloseReturns
    TermReturns
    BlockedReturns
    RefinesHandles
