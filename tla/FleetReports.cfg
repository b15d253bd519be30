CONSTANTS
    Enrolling = TRUE
    MaxLog = 2
    MaxEvents = 4
    MaxRuns = 2
    MaxAborts = 1
    MaxKills = 1
    MaxFaults = 1
    MaxTorn = 1
    MaxOverlaps = 1
    None = None
SPECIFICATION FairSpec
INVARIANTS
    TypeOK
    NothingVanishes
    LogIsBounded
    InstalledIsEnrolled
PROPERTIES
    EventsArrive
CHECK_DEADLOCK FALSE
