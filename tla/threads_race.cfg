SPECIFICATION ThreadsSpec
CONSTANTS
    Blocks = {b1, b2, b3}
    Lengths = {2, 3}
    NoBlock = NoBlock
INVARIANT CheckedBlocksArrive
CHECK_DEADLOCK FALSE
