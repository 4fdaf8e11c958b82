SPECIFICATION FairPathSpec
CONSTANTS
    TidMod = 4
    Ids <- MCIds
    ResponseIds <- MCResponseIds
    ReplyTids = {3}
    Lengths = {7, 8, 13}
    Lifetimes = {0, 1}
    FrameData = 8
    Capacity = 4
    OthersUse = {0, 2}
    MaxTransfers = 5
    MaxTime = 1
    Empty = Empty
    FifoDepth = 2
    Scenarios <- MCScenarios
INVARIANT PathTypeOK Sorted UnbrokenTransfers ConsecutiveTids MailboxesDistinct OverflowsAreLosses WireInOrder DeliveredInOrder
PROPERTY ImplementsFifo Drains KeepsReceiving
CHECK_DEADLOCK FALSE
