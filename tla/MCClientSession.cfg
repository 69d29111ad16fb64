SPECIFICATION FairSpec
CONSTANTS
    t1 = t1
    t2 = t2
    c1 = c1
    c2 = c2
    Tabs = {t1, t2}
    Calls = {c1, c2}
    Pages = {"workbench", "legacy"}
    MaxLosses = 2
    MaxFaults = 1
INVARIANTS
    ExecutedOnce
    LossIsHidden
PROPERTIES
    OwnerKept
    CallsEnd
CHECK_DEADLOCK FALSE
