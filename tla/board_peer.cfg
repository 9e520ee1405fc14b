SPECIFICATION Spec
CONSTANTS
    Repo = {"here", "there"}
    Used = {"here"}
    Proc = {"codex", "claude"}
    Home <- MCHome
    Served = {"claude"}
    Syncing = {"codex"}
    InboxLimit = 1
    MaxClock = 3
    MaxFails = 0
    None = None
INVARIANT ImportedAppear
CHECK_DEADLOCK FALSE
