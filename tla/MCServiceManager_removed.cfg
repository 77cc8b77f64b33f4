SPECIFICATION Spec
CONSTANTS
    cfgA = cfgA
    cfgB = cfgB
    sockA = sockA
    sockB = sockB
    Commands = {c1, c2}
    Configs = {cfgA, cfgB}
    Sockets = {sockA, sockB}
    SocketOf <- SocketOfConfig
    RivalSocket = sockA
    MaxFaults = 0
    DialsFail = FALSE
PROPERTIES
    LiveServiceKept
CHECK_DEADLOCK FALSE
