CONSTANTS
    Versions <- FourVersions
    MaxPoisoned = 2
    MaxBootAttempts = 2
    Bucket <- MCBucket
    InitialVersion = 1
    Manifests <- AllManifests
    Unrunnable = {4}
    Broken = {3}
    BrokenStatuses = {"1", "2"}
    RestartStatuses <- SystemdRestarts
    MaxCrashes = 0
    MaxFaults = 0
    MaxKills = 2
    MaxOverlaps = 0
    MaxCutShort = 1
    None = None
SPECIFICATION FairSpec
INVARIANTS
    ThreeChances
    PoisonIsEarned
    RunningNotPoisoned
PROPERTIES
    TrialEndsOnEvidence
    ImplementsContract
    TrialEnds
    StagedIsConsumed
