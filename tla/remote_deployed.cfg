SPECIFICATION Spec
CONSTANTS
    NumReplicas = 2
    Process = {"p1", "p2"}
    Home <- MCHome
    Skew <- MCSecondAhead
    Page = 1
    Cap = 1
    MaxClock = 3
    MaxFails = 1
INVARIANT
    PulledUnlessHidden
