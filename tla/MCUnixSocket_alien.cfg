SPECIFICATION Spec
CONSTANTS
    Listeners = {p1}
    Probers = {q1}
    InitialPaths = {"alien"}
    Arrivals = {}
    DialsFail = FALSE
PROPERTIES
    LiveSocketKept
CHECK_DEADLOCK FALSE
