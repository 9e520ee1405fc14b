SPECIFICATION CloudSpec
CONSTANTS
    Agents = {ann, bob}
    Procs = {p1, p2}
    NoOne = NoOne
    NumSteps = 1
    NonIdempotent = {}
    NeedsApproval = {}
    Overlap = TRUE
    MaxEvents = 5
    WorkspaceId = uuid
    ListedAs = uuid
SYMMETRY MCSymmetry
CHECK_DEADLOCK FALSE
INVARIANTS
    RetryIsGranted
