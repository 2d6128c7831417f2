SPECIFICATION Spec
CONSTANTS
    Run = {r1, r2}
    GlobalCap = 4
    BatchBytes = 3
    BatchChunks = 2
    ChunkSize = {1, 2, 5}
    MaxSeq = 3
    None = None
SYMMETRY Symmetry
INVARIANTS TypeOK WithinCap LossIsFlagged
PROPERTIES QuietRunKeepsOutput ImplementsRunBuffer
CHECK_DEADLOCK FALSE
