CONSTANTS
    a = a
    b = b
    Terms <- MCTerms
    Docs <- MCDocs
    NWorkers = 2
    MaxDocs = 4
    MaxChunkSpace = 2
SPECIFICATION FairSpec
INVARIANTS DocidsFollowLines BoundsUseFinalStatistics ChunksFitWorkers
PROPERTY BuildEnds
