\* Two peers, three requests; replies to earlier requests never arrive while a
\* reply is stored.
SPECIFICATION FairSpec
CONSTANTS
    Pipe = {p1, p2}
    MaxReq = 3
    StaleReplies = FALSE
    NULL = NULL
INVARIANTS
    NeverAborts
    OwnReply
PROPERTIES
    NotResent
    RefinesRequests
    Served
    CloseEnds
\* A closed socket does nothing more.
CHECK_DEADLOCK FALSE
