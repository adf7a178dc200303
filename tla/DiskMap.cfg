SPECIFICATION Spec
CONSTANTS
    B = 12
    KeyBytes = 3
    ValueBytes = {1, 2, 4, 7, 14}
    MaxEntries = 5
INVARIANTS
    IteratorIsAligned
    FindIsLookup
    ReaderStaysInMap
