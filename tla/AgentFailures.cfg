CONSTANTS
    Versions <- ThreeVersions
    MaxPoisoned = 1
    MaxBootAttempts = 3
    Bucket <- MCBucket
    InitialVersion = 1
    Manifests <- PlainManifests
    Unrunnable = {}
    Broken = {3}
    BrokenStatuses = {"1", "2"}
    RestartStatuses <- SystemdRestarts
    MaxCrashes = 2
    MaxFaults = 1
    MaxKills = 1
    MaxOverlaps = 1
    MaxCutShort = 0
    None = None
SPECIFICATION FairSpec
INVARIANTS
    TypeOK
    HandOverFindsProgram
    ACopySurvives
    BackupBacksTrial
    LaunchesAreCounted
    ThreeChancesWithBackup
PROPERTIES
    PlacesWhatWasRecorded
    ProgramComesBack
