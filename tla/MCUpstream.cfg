SPECIFICATION FairSpec
CHECK_DEADLOCK FALSE
CONSTANTS
    Parent = {p}
    Sub = {u1, u2}
    Backend = {b1, b2}
    None = None
    FirstWorker = TRUE
    BlocksAlone = TRUE
    MaxConnections = 2
    MaxRetry = 1
    MaxRequests = 2
    MaxOps = 2
INVARIANTS
    TypeOK
    ParentOutlivesSubs
    ConnectionsCounted
    WaiterHasWaker
    QueuesDrained
PROPERTIES
    DyingNotRetried
    Implements
    AllEnded
