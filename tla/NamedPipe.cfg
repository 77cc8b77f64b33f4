SPECIFICATION FairSpec
CONSTANTS
    MaxChunks = 1
INVARIANTS
    ExitCodeHasCause
    SuccessIsClean
PROPERTIES
    ImplementsDuplex
    EndNoticed
CHECK_DEADLOCK FALSE
