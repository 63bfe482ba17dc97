\* Three threads, two sockets one after the other or at once, two descriptors.
SPECIFICATION Spec
CONSTANTS
    Thread = {t1, t2, t3}
    Sock = {k1, k2}
    MaxFd = 2
    MaxEp = 1
    MaxMsg = 1
    StopHook = TRUE
    NULL = NULL
SYMMETRY MCSymmetry
INVARIANTS
    NeverAborts
    NoUseAfterFree
    UnusedSound
    RcvfdSound
