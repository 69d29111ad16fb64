SPECIFICATION FairSpec
CONSTANTS
    p1 = p1
    p2 = p2
    other = other
    Procs = {p1}
    StartModes = {"demo"}
    MaxRounds = 3
    AgentCalls = {}
    Anomalous = {"detect_anomalies"}
    HasDocuments = TRUE
    HasDimensions = TRUE
    MaxCrashes = 2
    MaxFaults = 1
INVARIANTS
    ResumeReplays
PROPERTIES
    ResumeCompletes
CHECK_DEADLOCK FALSE
