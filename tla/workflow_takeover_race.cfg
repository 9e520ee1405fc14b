SPECIFICATION Spec
CONSTANTS
    Agents = {ann, bob}
    Procs = {p1, p2}
    NoOne = NoOne
    NumSteps = 2
    NonIdempotent = {1}
    NeedsApproval = {2}
    Overlap = TRUE
    MaxEvents = 6
SYMMETRY MCSymmetry
CHECK_DEADLOCK FALSE
INVARIANTS
    NonIdempotentNotRepeated
