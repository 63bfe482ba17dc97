\* The same; the user unsubscribes only from what he subscribed to.
SPECIFICATION SubSpec
CONSTANTS
    p1 = p1
    p2 = p2
    NULL = NULL
    Pipe <- MCPipe
    Topic <- MCTopic
    Message <- MCMessage
    PrefixMax = 1
    SparseMax = 2
    MaxSubs = 4
    Careful = TRUE
\* As in MCPubSub.cfg.
SYMMETRY Symmetry
CHECK_DEADLOCK FALSE
INVARIANT
    HoldsAll
