SPECIFICATION FairSpec
CONSTANTS
    cfgA = cfgA
    cfgB = cfgB
    sockA = sockA
    sockB = sockB
    Commands = {c1, c2}
    Configs = {cfgA, cfgB}
    Sockets = {sockA, sockB}
    SocketOf <- SocketOfConfig
    RivalSocket = sockA
    MaxFaults = 1
    DialsFail = TRUE
PROPERTIES
    InstallHolds
    UninstallHolds
    RetryHolds
    ForceNeeded
    ComesBack
CHECK_DEADLOCK FALSE
