\* An old reply arrives while the good one is stored.
SPECIFICATION Spec
CONSTANTS
    Pipe = {p1, p2}
    MaxReq = 2
    StaleReplies = TRUE
    NULL = NULL
INVARIANTS
    OwnReply
\* A closed socket does nothing more.
CHECK_DEADLOCK FALSE
