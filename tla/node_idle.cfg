SPECIFICATION Spec
CONSTANTS
    b1 = b1
    b2 = b2
    b3 = b3
    message = message
    service = service
    none = none
    TidMod = 4
    TransferTimeout = 2
    IfaceSwitchDelay = 1
    HeadSize = 2
    BlockSize = 3
    LenMod = 8
    SizeResidue = 1
    Block <- MCThreeBlocks
    Descs <- MCMessage
    Services <- MCNoServices
    Ifaces = {0}
    FrameTids = {0}
    Bytes = {2, 4}
    FrameCounts = {1, 2}
    Lifetimes = {0}
    NoDesc = none
    MaxRxTime = 4
    MaxTime = 4
PROPERTY RemovesOnlyIdle
CHECK_DEADLOCK FALSE
