SPECIFICATION Spec
CONSTANTS
    ann = ann
    olga = olga
    omar = omar
    Members = {ann, olga, omar}
    FirstRole <- MCFirstRole
    NewRoles = {"analyst"}
    MaxTeamSteps = 2
    Choices <- MCChoices
    MaxPresses = 3
    MaxBeside = 2
    MaxFaults = 1
SYMMETRY OwnersAlike
INVARIANTS OneAccountPerRow RecordedOnce MadeIsOnRecord WorkspaceCanWork
CHECK_DEADLOCK FALSE
