SPECIFICATION Spec
CONSTANTS
    ann = ann
    bob = bob
    w1 = w1
    w2 = w2
    page = page
    r1 = r1
    Members = {ann, bob}
    Workspaces = {w1, w2}
    Layouts <- MCLayouts
    Callers = {page}
    People = {r1}
    MaxAsks = 2
    MaxExpiries = 1
    MaxFaults = 1
PROPERTIES ReconnectIsNeverUndone
CHECK_DEADLOCK FALSE
