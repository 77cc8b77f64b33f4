SPECIFICATION FairSpec
CONSTANTS
    Clients = {c1, c2, c3}
    MaxConnections = 2
INVARIANTS
    SlotsMatch
    ConnectionLimit
    CleanExit
PROPERTIES
    SignalExits
    QueuedIsServed
CHECK_DEADLOCK FALSE
