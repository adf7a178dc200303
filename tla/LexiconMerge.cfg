SPECIFICATION FairMergeSpec
CONSTANTS
    NTerms = 3
    NMaps = 3
    MaxValue = 1
INVARIANTS KeysIncrease NothingIsLost
PROPERTY MergeEnds
