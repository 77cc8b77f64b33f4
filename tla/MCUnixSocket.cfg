SPECIFICATION Spec
CONSTANTS
    Listeners = {p1, p2, p3}
    Probers = {q1, q2}
    InitialPaths = {"missing", "regular", "foreign", "stale", "alien"}
    Arrivals = {"regular", "foreign", "alien"}
    DialsFail = TRUE
SYMMETRY ProcessSymmetry
INVARIANTS
    ManagersHoldLock
    NoResidue
PROPERTIES
    ServingSocketKept
    OthersFilesKept
    AlreadyHasCause
CHECK_DEADLOCK FALSE
