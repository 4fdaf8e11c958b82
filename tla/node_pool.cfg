SPECIFICATION FairSpec
CONSTANTS
    b1 = b1
    b2 = b2
    b3 = b3
    message = message
    service = service
    none = none
    TidMod = 4
    TransferTimeout = 1
    IfaceSwitchDelay = 0
    HeadSize = 2
    BlockSize = 5
    LenMod = 8
    SizeResidue = 1
    Block <- MCThreeBlocks
    Descs <- MCService
    Services <- MCService
    Ifaces = {0, 1}
    FrameTids = {0, 3}
    Bytes = {0, 4}
    FrameCounts = {1, 2}
    Lifetimes = {0}
    NoDesc = none
    MaxRxTime = 3
    MaxTime = 5
INVARIANT TypeOK OneOwner NothingLeaks StatisticsExact ChainMatchesLength
PROPERTY AllComesBack
CHECK_DEADLOCK FALSE
