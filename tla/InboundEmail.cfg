SPECIFICATION Spec
CONSTANTS
    e1 = e1
    e2 = e2
    notice = notice
    virus = virus
    note = note
    bad = bad
    ann = ann
    ben = ben
    NoOne = NoOne
    Messages = {e1, e2}
    Docs = {notice, virus, note, bad}
    Emails <- MCEmails
    Refused = {bad}
    Infected = {virus}
    Notices = {notice}
    Members = {ann, ben}
    Issuer = ann
    ReadsPerDay = 2
    MaxDeliveries = 2
    MaxFaults = 1
    MaxMoves = 1
INVARIANTS NothingFallsSilent StoredByOne
CHECK_DEADLOCK FALSE
