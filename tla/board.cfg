SPECIFICATION Spec
CONSTANTS
    Repo = {"here", "there"}
    Used = {"here"}
    Proc = {"codex", "claude"}
    Home <- MCHome
    Served = {"claude"}
    Syncing = {"codex"}
    InboxLimit = 1
    MaxClock = 3
    MaxFails = 1
    None = None
INVARIANTS
    TypeOK
    ImportedIsListed
PROPERTIES
    CompletedUntilLaterMove
    BoardsAgree
    ShownUnlessBuried
CHECK_DEADLOCK FALSE
