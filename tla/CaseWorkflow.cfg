SPECIFICATION Spec
CONSTANTS
    c1 = c1
    c2 = c2
    ann = ann
    abe = abe
    pod = pod
    Cases = {c1}
    ByNotice = {c1}
    ByHand = {c1}
    Deadlines = {TRUE, FALSE}
    Users = {ann, abe}
    Role <- MCRole
    Evidence = {pod}
    Channels = {"portal", "email"}
    Amount <- MCAmount
    MaxRequests = 2
    MaxBegins = 3
INVARIANTS TypeOK FiledAsApproved ApprovedIsLatest FoughtOrDeclined StateMatchesRows
PROPERTIES ClosedTakesNoWork
CHECK_DEADLOCK FALSE
