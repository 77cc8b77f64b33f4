SPECIFICATION FairSpec
CONSTANTS
    MaxChunks = 1
INVARIANTS
    NothingLeftBehind
    ResponseComplete
    ErrorHasItsCause
PROPERTIES
    ImplementsConnection
    CancelEnds
    EndNoticed
CHECK_DEADLOCK FALSE
