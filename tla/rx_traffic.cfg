SPECIFICATION Spec
CONSTANTS
    TidMod = 4
    TransferTimeout = 2
    IfaceSwitchDelay = 1
    HeadSize = 5
    BlockSize = 28
    LenMod = 24
    SizeResidue = 16
    Profiles <- MCTraffic
    ZeroKinds = {FALSE}
    MaxRestarts = 0
    MaxRepeats = 0
    RepeatSingles = FALSE
    MemoryShort = FALSE
INVARIANT TypeOK EveryWholeTransferDelivered FailoverDelivers
PROPERTY ImplementsChannel
CHECK_DEADLOCK FALSE
