SPECIFICATION Spec
CONSTANTS
    NumReplicas = 2
    Process = {"p1", "p2"}
    Home <- MCHome
    Skew <- MCSecondAhead
    Page = 1
    Cap = 2
    MaxClock = 3
    MaxFails = 0
INVARIANT
    EveryLocalPushed
