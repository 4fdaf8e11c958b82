SPECIFICATION Spec
CONSTANTS
    TidMod = 4
    TransferTimeout = 2
    IfaceSwitchDelay = 1
    HeadSize = 5
    BlockSize = 28
    LenMod = 24
    SizeResidue = 16
    Profiles <- MCBusy
    ZeroKinds = {FALSE}
    MaxRestarts = 0
    MaxRepeats = 1
    RepeatSingles = TRUE
    MemoryShort = FALSE
INVARIANT ReportedOnce
CHECK_DEADLOCK FALSE
