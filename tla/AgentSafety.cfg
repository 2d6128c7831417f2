SPECIFICATION Spec
CONSTANTS
    Run = {r1, r2}
    MaxConcurrentRuns = 1
    MaxSlots = 2
    MaxCrashes = 1
    MaxPrunes = 1
    None = None
SYMMETRY Symmetry
INVARIANTS
    TypeOK AtMostOnce StartedWithConsent WithinLimit
    NoForgottenProcess TruthfulOutcome OutcomesAgree
PROPERTIES FileForgetsByPruning ImplementsRunLife
