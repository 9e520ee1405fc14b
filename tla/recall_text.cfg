SPECIFICATION Spec
CONSTANTS
    Proc = {"stl", "mcp"}
    Server = {"mcp"}
    Type = {"memory", "decision", "message"}
    Word <- MCWord
    Lower <- MCLower
    AsciiLower <- MCAsciiLower
    AnyChar = 3
    AnyText = 1
    Text <- MCAccented
    Query <- MCQuery
    AdapterId = {}
    Fit = {}
    TopK = {}
    MinScore = {}
    Limit = 1
    MaxTokens = 1
    MaxClock = 1
    MaxIds = 1
    Torn = Torn
    None = None
INVARIANT RecalledByText
CHECK_DEADLOCK FALSE
