SPECIFICATION Spec
CONSTANTS
    c1 = c1
    ann = ann
    abe = abe
    Cases = {c1}
    Users = {ann, abe}
    Approvers = {abe}
    Outcomes = {"declined"}
    MaxDecisions = 1
    MaxAsks = 2
    MaxVoids = 1
    LateRequests = TRUE
    MayDie = TRUE
    Remembers = TRUE
INVARIANTS PostedAtMostOnce PostedIsApproved SucceededIsInLedger PaymentFollowsEntry
CHECK_DEADLOCK FALSE
