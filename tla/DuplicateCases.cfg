SPECIFICATION DupSpec
CONSTANTS
    c1 = c1
    c2 = c2
    ann = ann
    abe = abe
    Cases = {c1, c2}
    ByNotice = {c2}
    ByHand = {c1}
    Deadlines = {TRUE}
    Users = {ann, abe}
    Role <- MCRole
    Evidence = {}
    Channels = {"portal"}
    Amount <- SameAmount
    Age <- MCAge
    Settleable = {c2}
    MaxRequests = 1
    MaxUndos = 2
    MaxBegins = 2
INVARIANTS MergedIsAProjection FiledIsNeverMergedAway StateMatchesRows
PROPERTIES FollowsTheTable
CHECK_DEADLOCK FALSE
