SPECIFICATION CloudSpec
CONSTANTS
    Agents = {ann, bob}
    Procs = {p1, p2}
    NoOne = NoOne
    NumSteps = 1
    NonIdempotent = {1}
    NeedsApproval = {}
    Overlap = TRUE
    MaxEvents = 4
    WorkspaceId = uuid
    ListedAs = uuid
SYMMETRY MCSymmetry
CHECK_DEADLOCK FALSE
INVARIANTS
    TakeoverIsGranted
