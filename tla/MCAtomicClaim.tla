--------------------------- MODULE MCAtomicClaim ---------------------------
(***************************************************************************)
(* AtomicClaim for TLC: two agents compete with two claims each asked      *)
(* plainly and by takeover, while a claim of a third is pushed from its    *)
(* history and the push is repeated.                                       *)
(***************************************************************************)
EXTENDS AtomicClaim

CONSTANTS ann, bob, old,          \* agents
          annAsks, bobAsks,       \* claim requests
          annTakes, bobTakes,     \* takeover requests
          oldClaim,               \* pushed claim event
          push1, push1Again       \* its deliveries

MCAgents    == {ann, bob, old}
MCTakeovers == {annTakes, bobTakes}
MCRequests  == {annAsks, bobAsks} \cup MCTakeovers
MCImports   == {oldClaim}
MCPushes    == {push1, push1Again}

MCAgentOf ==
    [e \in MCRequests \cup MCImports |->
        IF e \in {annAsks, annTakes} THEN ann
        ELSE IF e \in {bobAsks, bobTakes} THEN bob ELSE old]

MCEventOf   == [d \in MCPushes |-> oldClaim]
=============================================================================
