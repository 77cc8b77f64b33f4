SPECIFICATION Spec
CONSTANTS
    MaxChunks = 1
INVARIANTS
    CancelClosesConnection
CHECK_DEADLOCK FALSE
