SPECIFICATION LocalSpec
CONSTANTS
    Radix = 2
    ByteBits = 4
    NTerms = 2
    Docs <- MCDocs
    MaxDocs = 3
    Bases <- MCBases
INVARIANTS
    PostingsReadBack
    FrequenciesReadBack
    DocumentsReadBack
