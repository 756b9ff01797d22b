SPECIFICATION FairSpec
CONSTANTS
    MaxServers = 2
    MaxWeight = 3
    FailTime = 1
    FailNum = 2
    Half = 3
    MaxInFlight = 2
    MaxQuiet = 2
INVARIANTS
    TypeOK
    Proportional
PROPERTIES
    DownRests
    TakenBack
