SPECIFICATION CloudSpec
CONSTANTS
    Agents = {ann, bob}
    Procs = {p1, p2}
    NoOne = NoOne
    NumSteps = 2
    NonIdempotent = {1}
    NeedsApproval = {}
    Overlap = TRUE
    MaxEvents = 2
    WorkspaceId = uuid
    ListedAs = instance
SYMMETRY MCSymmetry
CHECK_DEADLOCK FALSE
INVARIANTS
    StartedRunIsFound
