\* Three pipes on two priority levels, queues of at most two messages.
SPECIFICATION FqFairSpec
CONSTANTS
    p1 = p1
    p2 = p2
    p3 = p3
    NULL = NULL
    Pipe <- MCPipe
    NSlots <- MCNSlots
    MaxQueue = 2
INVARIANTS
    PrioListSound
    NothingStranded
PROPERTIES
    RefinesPrioSet
    NoSecondTurn
    Drains
