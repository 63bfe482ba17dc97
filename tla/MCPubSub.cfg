\* Nine topics, up to four subscriptions, nodes that are dense from the third child.
SPECIFICATION SubSpec
CONSTANTS
    p1 = p1
    p2 = p2
    NULL = NULL
    Pipe <- MCPipe
    Topic <- MCTopic
    Message <- MCMessage
    PrefixMax = 1
    SparseMax = 2
    MaxSubs = 4
    Careful = FALSE
\* The connections are alike, and the properties are invariants.
SYMMETRY Symmetry
\* In the end all connections are broken and there is nothing to read.
CHECK_DEADLOCK FALSE
INVARIANTS
    TrieSound
    Filtered
