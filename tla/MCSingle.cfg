SPECIFICATION FairSpec
CHECK_DEADLOCK FALSE
CONSTANTS
    t1 = t1
    t2 = t2
    c1 = c1
    c2 = c2
    Thread = {t1, t2}
    Conn = {c1, c2}
    Home <- HomeOfTwo
    Mutex = {1, 2}
    Common = {2}
    None = None
    Outside = Outside
    MaxRequests = 2
    MaxOps = 2
    MaxQueue = 2
    MaxOutside = 1
INVARIANTS
    TypeOK
    IdsExact
PROPERTIES
    SleepUndisturbed
    AllReturn
