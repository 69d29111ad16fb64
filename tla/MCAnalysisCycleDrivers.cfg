SPECIFICATION FairSpec
CONSTANTS
    p1 = p1
    p2 = p2
    other = other
    Procs = {p1, p2}
    StartModes = {"connected"}
    MaxRounds = 2
    AgentCalls <- MCAgentCalls
    Anomalous = {"detect_anomalies"}
    HasDocuments = TRUE
    HasDimensions = TRUE
    MaxCrashes = 1
    MaxFaults = 1
INVARIANTS
    WaitingIsCheckpointed
    RecordsHold
    DriversAgree
PROPERTIES
    ExecutionsImmutable
CHECK_DEADLOCK FALSE
