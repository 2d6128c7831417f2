SPECIFICATION FairSpec
CONSTANTS
    MaxSeq = 2
    BatchChunks = 2
    None = None
INVARIANTS
    FinishTellsTruth
    NeverCutOff
    WaitingHasSleeper
PROPERTIES
    StoredInOrder
    ReleasedOnceReachable
    ReleasedOnStop
    CancelArrives
CHECK_DEADLOCK FALSE
