CONSTANTS
    Versions <- ThreeVersions
    MaxPoisoned = 1
    MaxBootAttempts = 1
    Bucket <- MCBucket
    InitialVersion = 1
    Manifests <- PlainManifests
    Unrunnable = {}
    Broken = {3}
    BrokenStatuses = {"1"}
    RestartStatuses <- SystemdRestarts
    MaxCrashes = 0
    MaxFaults = 0
    MaxKills = 1
    MaxOverlaps = 0
    MaxCutShort = 0
    None = None
    Packages = {1, 2}
    AbsentIsError = TRUE
    MaxRuns = 3
    MaxStops = 1
    MaxRefusals = 1
SPECIFICATION InstallSpec
INVARIANTS
    InstallTypeOK
    TornIsNeverUsed
    RepairHolds
PROPERTIES
    InstallComesUp
    UninstallLeavesNothing
CHECK_DEADLOCK FALSE
