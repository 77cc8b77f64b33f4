SPECIFICATION Spec
CONSTANTS
    Listeners = {p1, p2, p3}
    Probers = {}
    InitialPaths = {"missing"}
    Arrivals = {}
    DialsFail = TRUE
SYMMETRY ProcessSymmetry
INVARIANTS
    OneManager
CHECK_DEADLOCK FALSE
