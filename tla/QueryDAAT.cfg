SPECIFICATION FairSpec
CONSTANTS
    Terms = {1, 2, 3}
    NDocs = 4
    K = 2
    Score <- MCScore
INVARIANTS ResultsAreTopK
PROPERTY QueryEnds
