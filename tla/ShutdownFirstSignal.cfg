SPECIFICATION FairSpec
CONSTANTS
    Run = {r1, r2}
    MaxSignals = 2
    None = None
INVARIANT
    FirstSignalWaits
CHECK_DEADLOCK FALSE
