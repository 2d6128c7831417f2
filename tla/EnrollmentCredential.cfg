SPECIFICATION FairSpec
CONSTANTS
    Machine = {m1, m2}
    Run = {r1}
    MaxCredentials = 2
    None = None
PROPERTY
    NewCredentialPickedUp
CHECK_DEADLOCK FALSE
