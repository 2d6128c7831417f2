SPECIFICATION Spec
CONSTANTS
    Run = {r1, r2, r3}
    MaxRecentRuns = 2
    RecentRunTTL = 1
    MaxTime = 2
    Corrupt = Corrupt
INVARIANTS
    TypeOK
    Remembered
