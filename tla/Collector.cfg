SPECIFICATION FairSpec
CONSTANTS
    MaxEntries = 2
    MaxBytes = 3
    Size = {1, 2, 4}
    Zone = {"utc"}
    None = None
    MaxLines = 3
    MaxFiles = 2
INVARIANTS
    TypeOK
    ReportIsBeginning
    SaysWhatIsMissing
PROPERTY
    CancelEndsDiscovery
CHECK_DEADLOCK FALSE
