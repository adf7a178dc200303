SPECIFICATION Spec
CONSTANTS
    ByteBits = 2
    SKIP_BLOCK_SIZE = 3
    MaxPostings = 7
    MaxFreq = 2
    Precision = 2
INVARIANTS
    BlockHoldsCurrent
    PointersDescribeBlocks
    BlocksLeftOut
PROPERTY NextFindsDocument
