SPECIFICATION Spec
CHECK_DEADLOCK FALSE
CONSTANTS
    Parent = {p}
    Sub = {u1, u2}
    Backend = {b}
    None = None
    FirstWorker = TRUE
    BlocksAlone = FALSE
    MaxConnections = 2
    MaxRetry = 1
    MaxRequests = 1
    MaxOps = 3
PROPERTIES
    JoinComplete
