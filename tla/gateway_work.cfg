SPECIFICATION Spec
CONSTANTS
    Conn = {r1, r2, r3}
    Listener = {"a"}
    Base <- MCBase
    Repo = {"here"}
    Http = {}
    Stl = {}
    Fresh = {"here"}
    Config <- MCWorkConfig
    Default = None
    Asked <- MCWorkAsked
    MaxProjects = 1
    MaxEvents = 2
    MaxStops = 2
    Edits = {}
    Client = Client
    Torn = Torn
    None = None
SYMMETRY MCSymmetry
CHECK_DEADLOCK FALSE
INVARIANT StoredStaysListed
