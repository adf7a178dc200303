SPECIFICATION MCSpec
CONSTANTS
    Terms = {1, 2, 3}
    NDocs = 8
    K = 4
    SKIP_BLOCK_SIZE = 2
    Precision = 2
    Contribution <- MCContribution
    Misread <- MCMisread
    Garbage <- MCGarbage
INVARIANTS
    TypeOK
    TopKWithoutFaults
    WrongBoundsHaveACause
    EssentialListsAreNotPassed
PROPERTIES
    ScoredAgainOnlyAtEnds
    QueryEnds
