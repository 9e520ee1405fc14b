SPECIFICATION CloudSpec
CONSTANTS
    Agents = {ann, bob}
    Procs = {p1, p2}
    NoOne = NoOne
    NumSteps = 2
    NonIdempotent = {2}
    NeedsApproval = {}
    Overlap = TRUE
    MaxEvents = 6
    WorkspaceId = uuid
    ListedAs = uuid
SYMMETRY MCSymmetry
CHECK_DEADLOCK FALSE
INVARIANTS
    RowsAudited
    ClaimKeptUntilTaken
