CONSTANTS
    Versions <- ThreeVersions
    MaxPoisoned = 1
    MaxBootAttempts = 3
    Bucket <- MCBucket
    InitialVersion = 1
    Releases <- OneRelease
    Unrunnable = {}
    Keys <- TwoKeys
    TrustedKeys <- MCTrustedKeys
    Second = 10
    MinInterval = 30
    MaxInterval = 200
    Interval = 50
    MaxShift = 5
    WordHalf = 8192
    MaxPublishes = 1
    MaxKills = 0
    MaxFaults = 0
    None = None
    Torn = Torn
SPECIFICATION FairSpec
PROPERTIES
    PutOffIsRetried
