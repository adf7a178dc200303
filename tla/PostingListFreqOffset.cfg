SPECIFICATION Spec
CONSTANTS
    ByteBits = 4
    SKIP_BLOCK_SIZE = 2
    MaxPostings = 5
    MaxFreq = 3
    Precision = 1
INVARIANT FreqIsOfPosting
