SPECIFICATION FairSpec
CONSTANTS
    Pages = {"workbench", "legacy"}
    MaxMessages = 2
    MaxEvents = 4
    MaxKept = 2
    MaxFaults = 2
INVARIANTS
    EventsOnce
    DecisionsHold
PROPERTIES
    WaitingEnds
CHECK_DEADLOCK FALSE
