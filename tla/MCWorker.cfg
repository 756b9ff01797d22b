\* Two connections side by side, every way to block; the pool is smaller
\* than max_connections, so accept meets it empty.  With a connection in
\* use the limit cuts the quota, which accept may keep while suspended.
SPECIFICATION Spec
CONSTANTS
    Conn = {c1, c2}
    Listen = Listen
    MayStop = FALSE
    FirstWorker = TRUE
    MaxConnections = 3
    MaxAccept = 2
    MaxClients = 3
    MaxSends = 3
    MaxOps = 1
SYMMETRY ConnSymmetry
INVARIANTS
    TypeOK
    TimersMatch
    FreeIsClean
    Capacity
    SlotsCounted
    NoLostWakeup
    RightWaker
    NoForgottenCoroutine
PROPERTIES
    Implements
    SleepRunsOut
    ThirdFailureIsLocal
