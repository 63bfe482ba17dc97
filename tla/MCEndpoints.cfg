\* A connecting and a bound endpoint, three connections at a time.
SPECIFICATION FairSpec
CONSTANTS
    NULL = NULL
    MaxReads = 1
    Conn = {c1, c2, c3}
INVARIANTS
    NeverAborts
    PipeIsConnected
    KeepsListening
    FreedClean
PROPERTIES
    StopEnds
    KeepsTrying
