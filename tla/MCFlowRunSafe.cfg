SPECIFICATION FairSpec
CONSTANTS
    Names <- MCNames
    Inputs <- AllInputs
    MaxClaims = 2
    MaxWaits = 2
    MaxErrors = 1
    MaxFaults = 1
    MaxCrashes = 1
INVARIANTS
    AnnouncedIsPersisted
    
    CancelStops
    
PROPERTIES
    RunEnds
    Implements
CHECK_DEADLOCK FALSE
