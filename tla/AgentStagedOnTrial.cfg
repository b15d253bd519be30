CONSTANTS
    Versions <- ThreeVersions
    MaxPoisoned = 1
    MaxBootAttempts = 3
    Bucket <- MCBucket
    InitialVersion = 1
    Manifests <- PlainManifests
    Unrunnable = {}
    Broken = {2, 3}
    BrokenStatuses = {"1"}
    RestartStatuses <- SystemdRestarts
    MaxCrashes = 0
    MaxFaults = 0
    MaxKills = 0
    MaxOverlaps = 0
    MaxCutShort = 0
    None = None
SPECIFICATION FairSpec
PROPERTIES
    BrokenIsReplaced
