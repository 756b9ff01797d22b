\* Two calls over a kept connection of every kind, any pieces except that the
\* line after the header arrives whole.
SPECIFICATION FairSpec
CONSTANTS
    Message <- MCMessage
    Kind = {"tcp", "http", "toOther", "fromOther"}
    MinSize = 4
    MaxHeader = 8
    ReadSize = 4
    NetSize = 4
    MaxCalls = 2
    SplitsBlankLine = FALSE
INVARIANTS
    TypeOK
    NothingLeft
    BufferBounded
PROPERTIES
    Implements
CHECK_DEADLOCK FALSE
