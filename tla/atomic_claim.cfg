SPECIFICATION Spec
CONSTANTS
    ann = ann
    bob = bob
    old = old
    annAsks = annAsks
    bobAsks = bobAsks
    annTakes = annTakes
    bobTakes = bobTakes
    oldClaim = oldClaim
    push1 = push1
    push1Again = push1Again
    Nobody = Nobody
    NoEvent = NoEvent
    Agents <- MCAgents
    Requests <- MCRequests
    Takeovers <- MCTakeovers
    Imports <- MCImports
    AgentOf <- MCAgentOf
    Pushes <- MCPushes
    EventOf <- MCEventOf
INVARIANTS
    TypeOK
    RowIsAudited
    OneFirstClaim
    TwoOwnersNeedTakeover
    GrantIsAudited
PROPERTY
    LockSpec
