\* A shutdown while the worker starts up.
SPECIFICATION FairSpec
CONSTANTS
    Conn = {c1}
    Listen = Listen
    MayStop = TRUE
    FirstWorker = FALSE
    MaxConnections = 1
    MaxAccept = 1
    MaxClients = 1
    MaxSends = 1
    MaxOps = 0
PROPERTIES
    ShutdownEnds
CHECK_DEADLOCK FALSE
