SPECIFICATION ServicesSpec
CONSTANTS
    Scenarios <- MCServicesScenarios
    Handlers = {"h1", "h2", "h3", "h4", "h5", "h6"}
    Nil = Nil
    NumHandlers = 2
    NumBuckets = 2
    TidMod = 3
INVARIANTS
    EachOnce
    AnswersFindAskers
CHECK_DEADLOCK FALSE
