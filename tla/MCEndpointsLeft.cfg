\* The same: what is left of an earlier connection.
SPECIFICATION Spec
CONSTANTS
    NULL = NULL
    MaxReads = 1
    Conn = {c1, c2, c3}
INVARIANT StartsAfresh
