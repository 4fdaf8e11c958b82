SPECIFICATION FairSpec
CONSTANTS
    TidMod = 4
    TransferTimeout = 1
    IfaceSwitchDelay = 1
    HeadSize = 5
    BlockSize = 28
    LenMod = 24
    SizeResidue = 16
    Profiles <- MCFaulty
    ZeroKinds = {FALSE}
    MaxRestarts = 1
    MaxRepeats = 1
    RepeatSingles = FALSE
    MemoryShort = TRUE
PROPERTY ImplementsChannel NoBlockAfterTransfer StorageReclaimed
CHECK_DEADLOCK FALSE
