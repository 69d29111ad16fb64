SPECIFICATION FairSpec
CONSTANTS
    s1 = s1
    s2 = s2
    Sessions = {s1, s2}
    MaxTurns = 2
    MaxFaults = 1
INVARIANTS
    OneEnd
    CleanTurnsOwnEnds
    TablesHold
PROPERTIES
    TurnEnds
CHECK_DEADLOCK FALSE
