SPECIFICATION FairSpec
CONSTANTS
    NChunks = 3
    NWorkers = 2
    K = 2
    Queries = {"one", "two"}
    Empty = "empty"
    Unnumbered = "unnumbered"
    None = "none"
    NLines = 3
    Matches <- MCMatches
INVARIANTS AnswersAreTopK
PROPERTIES LineOutlivesItsJobs EveryQueryIsAnswered
