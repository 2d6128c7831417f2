SPECIFICATION FairSpec
CONSTANTS
    Run = {r1, r2}
    MaxSignals = 3
    None = None
INVARIANTS
    LeavesNothingBehind
    ReportedUnlessCut
PROPERTY
    SignalEndsDaemon
CHECK_DEADLOCK FALSE
