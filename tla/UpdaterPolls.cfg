CONSTANTS
    Versions <- ThreeVersions
    MaxPoisoned = 1
    MaxBootAttempts = 3
    Bucket <- MCBucket
    InitialVersion = 1
    Releases <- MCReleases
    Unrunnable = {3}
    Keys <- TwoKeys
    TrustedKeys <- MCTrustedKeys
    Second = 10
    MinInterval = 30
    MaxInterval = 200
    Interval = 20
    MaxShift = 2
    WordHalf = 8192
    MaxPublishes = 3
    MaxKills = 2
    MaxFaults = 1
    None = None
    Torn = Torn
SPECIFICATION FairSpec
INVARIANTS
    TypeOK
    SleepIsBounded
    ValidatorIsAdopted
PROPERTIES
    ReportedOnce
    ReleasesAreSeen
