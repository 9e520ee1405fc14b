SPECIFICATION Spec
CONSTANTS
    Proc = {s1, s2}
    Order <- MCOrder
    Latest <- MCLatest
    ReadsFirst <- MCReadsFirst
    Client = {k}
    Code = {c}
    Token = {t1, t2}
    Legacy = {t1}
    Dynamic = TRUE
    Known = {}
    MaxRequests = 1
    Window = 1
    CodeLife = 1
    TokenLife = 2
    MaxTime = 2
    MaxFails = 1
SYMMETRY Symmetric
INVARIANTS TypeOK OpenedIsComplete CodeRedeemedOnce
PROPERTY AnswerIsRight
