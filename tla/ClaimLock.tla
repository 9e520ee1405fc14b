----------------------------- MODULE ClaimLock -----------------------------
(***************************************************************************)
(* What a claim endpoint of the gateway promises for one task or one       *)
(* workflow step, with the tables, the batch and the reads it is made of   *)
(* left out: the thing claimed has at most one owner; a claim gets it only *)
(* while it is free, a takeover whoever has it; a pushed piece of history  *)
(* installs the owner it names; and an answer tells the truth about the    *)
(* owner at the instant it is given.                                       *)
(***************************************************************************)
CONSTANTS
    Agents, Nobody,
    Requests,     \* claim requests, each with an event id of its own
    Takeovers,    \* those with takeover = true
    AgentOf,      \* the agent each request or event speaks for
    Imports       \* claim events of pushed history

VARIABLES
    owner,        \* the agent that has the claim, or Nobody
    told          \* the last answer each request got

lockVars == <<owner, told>>

Init ==
    /\ owner \in Agents \cup {Nobody}
    /\ told = [r \in Requests |-> "none"]

Acquire(r) ==
    /\ owner = Nobody \/ r \in Takeovers
    /\ owner' = AgentOf[r]
    /\ UNCHANGED told

Install(i) ==
    /\ owner' = AgentOf[i]
    /\ UNCHANGED told

Grant(r) ==
    /\ owner = AgentOf[r]
    /\ told' = [told EXCEPT ![r] = "yours"]
    /\ UNCHANGED owner

Refuse(r) ==
    /\ owner \notin {Nobody, AgentOf[r]}
    /\ told' = [told EXCEPT ![r] = "taken"]
    /\ UNCHANGED owner

Next ==
    \/ \E r \in Requests : Acquire(r) \/ Grant(r) \/ Refuse(r)
    \/ \E i \in Imports : Install(i)

Spec == Init /\ [][Next]_lockVars
=============================================================================
