SPECIFICATION FairStream
CONSTANTS
    MaxEvents = 5
    PageSize = 2
    DetailLimit = 4
    MaxLoads = 2
    MaxDrops = 2
    MaxLapses = 2
INVARIANTS
    ShowsTheRun
    RunningIsFollowed
PROPERTIES
    NoEventSkipped
    CatchesUp
CHECK_DEADLOCK FALSE
