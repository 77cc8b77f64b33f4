-------------------------- MODULE MCServiceManager --------------------------
(* Commands for one unit name, two configurations with a socket each.         *)
EXTENDS ServiceManager, TLC

CONSTANTS cfgA, cfgB, sockA, sockB   \* model values

SocketOfConfig == [config \in {cfgA, cfgB} |-> IF config = cfgA THEN sockA ELSE sockB]
=============================================================================
