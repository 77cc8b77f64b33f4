SPECIFICATION FairSpec
CONSTANTS
    KeepCap = 1
    NoiseCap = 3
INVARIANTS
    NothingLeftBehind
    VerdictSound
    StderrBounded
PROPERTIES
    Ends
CHECK_DEADLOCK FALSE
