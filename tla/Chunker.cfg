SPECIFICATION FairChunkerSpec
CONSTANTS
    ChunkBytes = 3
    MaxOutput = 5
    MaxBytes = 7
    None = None
INVARIANTS
    ChunkerTypeOK
    OutputFaithful
    SealedByClose
PROPERTY
    NothingWaitsForEver
CHECK_DEADLOCK FALSE
