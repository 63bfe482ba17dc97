\* Two threads, everything allowed; what a race breaks is looked at up to the race.
SPECIFICATION FairSpec
CONSTANTS
    Thread = {t1, t2}
    MaxQueue = 2
    MaxMsg = 3
    Races = {"connect+close", "connect+send", "send+close", "receive+close", "connect refused", "accept refused"}
INVARIANTS
    AbortsOnlyByRace
    NothingDangles
PROPERTIES
    RefinesDuplex
    StopEnds
    PeerLearns
\* Both endpoints are stopped, or an assertion has ended the program.
CHECK_DEADLOCK FALSE
