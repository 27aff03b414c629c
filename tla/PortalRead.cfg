SPECIFICATION Spec
CONSTANTS
    r1 = r1
    r2 = r2
    clean1 = clean1
    virus1 = virus1
    bad1 = bad1
    NoRun = NoRun
    Runs = {r1, r2}
    Docs = {clean1, virus1, bad1}
    Refused = {bad1}
    Infected = {virus1}
    Listings <- MCListings
    MaxCaptures = 2
    MaxAttempts = 2
    MaxFaults = 1
    MaxMoves = 2
SYMMETRY SameRuns
INVARIANTS OneRowPerCapture CapturedIsRequested
PROPERTIES NotTypedOnceRecorded OutcomeIsRecorded
CHECK_DEADLOCK FALSE
