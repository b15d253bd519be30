CONSTANTS
    Enrolling = TRUE
    MaxLog = 2
    MaxEvents = 2
    MaxRuns = 2
    MaxAborts = 0
    MaxKills = 0
    MaxFaults = 0
    MaxTorn = 0
    MaxOverlaps = 1
    None = None
SPECIFICATION Spec
INVARIANTS
    NothingIsLost
CHECK_DEADLOCK FALSE
