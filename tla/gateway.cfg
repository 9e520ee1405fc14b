SPECIFICATION Spec
CONSTANTS
    Conn = {r1, r2}
    Listener = {"a", "b"}
    Base <- MCBase
    Repo = {"here", "there"}
    Http = {}
    Stl = {"there"}
    Fresh = {"here"}
    Config <- MCConfig
    Default <- MCDefault
    Asked <- MCAsked
    MaxProjects = 3
    MaxEvents = 1
    MaxStops = 2
    Edits <- MCEdits
    Client = Client
    Torn = Torn
    None = None
CHECK_DEADLOCK FALSE
INVARIANTS TypeOK AddedStays DrainAnswers StoredStaysListed
PROPERTY SignalStops
