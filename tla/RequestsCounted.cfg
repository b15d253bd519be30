CONSTANTS
    Installs = {a, b}
    MaxClockSkew = 2
    Second = 2
    Drifts <- MCDrifts
    MaxTime = 5
    MaxRequests = 2
    MaxCopies = 3
    MaxStalls = 1
    MaxDamaged = 1
    MaxRestarts = 1
SPECIFICATION Spec
CHECK_DEADLOCK FALSE
SYMMETRY InstallSymmetry
INVARIANTS
    TypeOK
    RepeatsAreBounded
    TableSpansOneWindow
PROPERTIES
    AcceptedApart
    DriftIsTolerated
