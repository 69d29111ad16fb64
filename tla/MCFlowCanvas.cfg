SPECIFICATION Spec
CONSTANTS
    Names <- MCNames
    Runs <- MCRuns
    MaxClaims = 2
    Batches = 3
    MaxSwitches = 1
INVARIANTS
    DrawsWhatIsSaved
    OutcomeIsShown
PROPERTIES
    NodesStay
    PlaybackCatchesUp
CHECK_DEADLOCK FALSE
