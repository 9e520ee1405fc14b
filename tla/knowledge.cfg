SPECIFICATION Spec
CONSTANTS
    Proc = {"stl", "mcp"}
    Server = {"mcp"}
    Type = {"memory", "decision", "message"}
    Word <- MCWord
    Lower <- MCLower
    AsciiLower <- MCAsciiLower
    AnyChar = 3
    AnyText = 1
    Text <- MCText
    Query <- MCQuery
    AdapterId = {1, 2}
    Fit = {0, 1, 39}
    TopK = {1, 2}
    MinScore = {1}
    Limit = 1
    MaxTokens = 1
    MaxClock = 2
    MaxIds = 2
    Torn = Torn
    None = None
INVARIANT RememberedIsRecalled
PROPERTY ExportIsWhole
CHECK_DEADLOCK FALSE
