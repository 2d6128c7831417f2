SPECIFICATION Spec
CONSTANTS
    Machine = {m1, m2}
    Run = {r1, r2}
    MaxCredentials = 3
    None = None
INVARIANTS
    StateOfOneMachine
    EnrolledMeansUsable
CHECK_DEADLOCK FALSE
