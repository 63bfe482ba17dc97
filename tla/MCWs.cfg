\* Three frames of up to two octets; a message of at most four.  A length that is too
\* much wraps the sum of the lengths (15) or is cut to what is there (16).
SPECIFICATION Spec
CONSTANTS
    MaxReads = 1
    Sockets <- MCSockets
    Octet <- MCOctet
    MaxChunk = 2
    Limit = 4
    MaxFrames = 3
    Memory = 8
    Word = 16
    Excess = {15, 16}
\* A session that has failed reads nothing more.
CHECK_DEADLOCK FALSE
INVARIANTS
    NeverAborts
    Reassembled
    TextChecked

    
