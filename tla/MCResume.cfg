\* The worker's own handlers, another worker and a thread outside call.
SPECIFICATION FairSpec
CONSTANTS
    w = w
    t1 = t1
    t2 = t2
    Thread = {w, t1, t2}
    Worker = w
    Hooked = {w, t1}
    FirstWorker = TRUE
    Room = 3
    ReadSize = 2
    MaxQueue = 2
INVARIANTS
    TypeOK
    NoSleepOnWork
PROPERTIES
    Woken
