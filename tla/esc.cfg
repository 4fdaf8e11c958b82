SPECIFICATION FairEscSpec
CONSTANTS
    Empty = Empty
    Nodes = {"n1", "n2"}
    Symbols = {"a", "b", "c", "d", "f", "g", "h", "k"}
    Scenarios <- MCEscScenarios
    MinRequestPeriod = 2
    FollowupDelays = {0, 1}
    FollowupTimeout = 2
    ReadTimeout = 3
    TidMod = 4
    ServerId = 126
    DynamicIds = {1, 2}
INVARIANTS
    EscTypeOK
    OneNodePerId
    FileIsImage
PROPERTIES
    Settles
CHECK_DEADLOCK FALSE
