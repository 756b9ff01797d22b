\* One call; a piece may end between the two bytes of the line after the header.
SPECIFICATION Spec
CONSTANTS
    Message <- MCMessage
    Kind = {"http", "toOther"}
    MinSize = 4
    MaxHeader = 8
    ReadSize = 4
    NetSize = 4
    MaxCalls = 1
    SplitsBlankLine = TRUE
INVARIANTS
    Delivered
CHECK_DEADLOCK FALSE
