CONSTANTS
    j1 = j1
    Stick = {s1, s2}
    s1 = s1
    s2 = s2
    Carries <- MCCarries
    NoStick = NoStick
    Job = {j1}
    Bundle <- MCBundle
    NoBundle = NoBundle
    NoResult = NoResult
SPECIFICATION FairSpec
INVARIANTS
    TypeOK
    SafeRemoveMeansUnmounted
    SafeRemoveMeansDelivered
    LatestIsBacked
PROPERTIES
    OnlyAuthorisedRuns
    LockComesFree
