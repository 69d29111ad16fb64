SPECIFICATION FairSpec
CONSTANTS
    t1 = t1
    t2 = t2
    NoTask = NoTask
    Tasks = {t1, t2}
    Visited = {t1}
    MaxRuns = 2
    MaxGraph = 2
    MaxUses = 4
    MaxFailures = 1
INVARIANTS
    DataOfOneRun
    BackgroundStreams
    TaskOfShown
PROPERTIES
    GraphCatchesUp
CHECK_DEADLOCK FALSE
