\* Liveness, and shut_down at any moment; one connection is all that the
\* limit admits, so the listener is unwatched and watched again.
SPECIFICATION FairSpec
CONSTANTS
    Conn = {c1}
    Listen = Listen
    MayStop = TRUE
    FirstWorker = FALSE
    MaxConnections = 1
    MaxAccept = 2
    MaxClients = 2
    MaxSends = 2
    MaxOps = 1
INVARIANTS
    ExitLeavesOnlyYields
PROPERTIES
    StopEnds
    AllReleased
    ImplementsLive
CHECK_DEADLOCK FALSE
