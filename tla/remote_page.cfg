SPECIFICATION Spec
CONSTANTS
    NumReplicas = 2
    Process = {"p1", "p2"}
    Home <- MCHome
    Skew <- MCNoSkew
    Page = 1
    Cap = 1
    MaxClock = 3
    MaxFails = 0
INVARIANT
    InOrderPulledUpToCursor
