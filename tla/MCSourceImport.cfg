SPECIFICATION FairImport
CONSTANTS
    a = a
    b = b
    c = c
    Sources = {a, b, c}
    Fields <- MCFields
    Pages = {"workbench", "legacy"}
    MaxRequests = 4
    MaxFaults = 1
INVARIANTS
    PlansFit
PROPERTIES
    BusyEnds
CHECK_DEADLOCK FALSE
