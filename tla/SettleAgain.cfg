SPECIFICATION Spec
CONSTANTS
    c1 = c1
    ann = ann
    abe = abe
    Cases = {c1}
    Users = {ann, abe}
    Approvers = {abe}
    Outcomes = {"lost", "declined"}
    MaxDecisions = 2
    MaxAsks = 1
    MaxVoids = 1
    LateRequests = TRUE
    MayDie = FALSE
    Remembers = FALSE
INVARIANTS LiveSettlementIsLatest SettledOnceInTheBooks VoidedHoldsNothing
CHECK_DEADLOCK FALSE
