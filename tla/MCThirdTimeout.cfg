\* A third party socket that times out.
SPECIFICATION Spec
CONSTANTS
    Conn = {c1}
    Listen = Listen
    MayStop = FALSE
    FirstWorker = FALSE
    MaxConnections = 1
    MaxAccept = 1
    MaxClients = 1
    MaxSends = 1
    MaxOps = 1
PROPERTIES
    ThirdTimeoutReported
