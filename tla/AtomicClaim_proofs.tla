------------------------- MODULE AtomicClaim_proofs -------------------------
(***************************************************************************)
(* Proofs about AtomicClaim, for any agents, requests and pushes.          *)
(*                                                                         *)
(* The inductive invariant adds to the properties of AtomicClaim that the  *)
(* row is never given back: once a first claim is in the log, or a request *)
(* has run its batch, the row has an owner; and that an upsert only runs   *)
(* for an event that is stored.                                            *)
(***************************************************************************)
EXTENDS AtomicClaim, TLAPS

FirstClaims == Requests \ Takeovers

\* The row is taken as soon as a first claim is in the log.
FirstClaimOwns == events \cap FirstClaims # {} => row # FreeRow

\* After a batch, whether it won or lost, somebody owns the row.
BatchLeavesOwner == \A r \in Requests : claim[r] # "ready" => row # FreeRow

\* A push writes the row only after its event.
PushStoredFirst == \A d \in Pushes : push[d] = "stored" => EventOf[d] \in events

IndInv ==
    /\ TypeOK
    /\ RowIsAudited
    /\ OneFirstClaim
    /\ FirstClaimOwns
    /\ BatchLeavesOwner
    /\ PushStoredFirst
    /\ GrantIsAudited

-----------------------------------------------------------------------------
\* What the UPDATE writes is an owned row of the right type.
LEMMA RowOfType ==
    ASSUME NEW e \in Events
    PROVE  /\ RowOf(e) \in [by : Agents \cup {Nobody}, event : Events \cup {NoEvent}]
           /\ RowOf(e) # FreeRow
           /\ RowOf(e).event = e
           /\ RowOf(e).by = AgentOf[e]
           /\ AgentOf[e] \in Agents
  BY ClaimAssumption DEF RowOf, FreeRow

\* The row is free exactly when nobody is its claimed_by.
LEMMA FreeMeansNobody ==
    ASSUME TypeOK, RowIsAudited
    PROVE  row = FreeRow <=> row.by = Nobody
<1>1. CASE row = FreeRow
  BY <1>1 DEF FreeRow
<1>2. CASE row # FreeRow
  <2>1. row.event \in Events /\ row = RowOf(row.event)
    BY <1>2 DEF RowIsAudited, TypeOK
  <2>2. row.by \in Agents
    BY <2>1, RowOfType
  <2> QED BY <1>2, <2>2, ClaimAssumption
<1> QED BY <1>1, <1>2

\* Every variable keeps its type under every step.
LEMMA TypeStep ==
    ASSUME TypeOK, [Next]_vars
    PROVE  TypeOK'
<1> USE DEF TypeOK
<1>1. ASSUME NEW r \in Requests, Batch(r)
      PROVE  TypeOK'
  <2>1. row' \in [by : Agents \cup {Nobody}, event : Events \cup {NoEvent}]
    BY <1>1, RowOfType DEF Batch, Events
  <2>2. events' \subseteq Events /\ claim' \in [Requests -> {"ready", "batched", "answered"}]
    BY <1>1 DEF Batch, Events
  <2> QED BY <1>1, <2>1, <2>2 DEF Batch
<1>2. ASSUME NEW r \in Requests, Readback(r)
      PROVE  TypeOK'
  BY <1>2 DEF Readback, Answer, Replies
<1>3. ASSUME NEW r \in Requests, SendAgain(r)
      PROVE  TypeOK'
  BY <1>3 DEF SendAgain
<1>4. ASSUME NEW d \in Pushes, LookUp(d) \/ Store(d) \/ Project(d) \/ Die(d)
      PROVE  TypeOK'
  <2>1. EventOf[d] \in Events
    BY ClaimAssumption DEF Events
  <2>2. RowOf(EventOf[d]) \in [by : Agents \cup {Nobody}, event : Events \cup {NoEvent}]
    BY <2>1, RowOfType
  <2> QED BY <1>4, <2>1, <2>2 DEF LookUp, Store, Project, Die
<1>5. CASE UNCHANGED vars
  BY <1>5 DEF vars
<1> QED BY <1>1, <1>2, <1>3, <1>4, <1>5 DEF Next

\* The seed of migration 0002 gives the row a type and an event in the log.
LEMMA InitRow ==
    ASSUME Init
    PROVE  TypeOK /\ RowIsAudited
<1>1. CASE events = {}
  BY <1>1 DEF Init, FreeRow, TypeOK, RowIsAudited, Events, Replies
<1>2. CASE events # {}
  <2>1. PICK i \in events : row = RowOf(i)
    BY <1>2 DEF Init
  <2>2. i \in Events
    BY <2>1 DEF Init, Events
  <2> QED BY <2>1, <2>2, RowOfType DEF Init, TypeOK, RowIsAudited, Events, Replies
<1> QED BY <1>1, <1>2

\* In every behaviour the row, the log and the requests keep their types.
THEOREM Typing == Spec => []TypeOK
<1>1. Init => TypeOK
  BY InitRow
<1>2. TypeOK /\ [Next]_vars => TypeOK'
  BY TypeStep
<1> QED BY <1>1, <1>2, PTL DEF Spec

-----------------------------------------------------------------------------
\* The batch is where claims compete.
LEMMA BatchStep ==
    ASSUME IndInv, TypeOK', NEW r \in Requests, Batch(r)
    PROVE  IndInv'
<1> USE DEF IndInv
<1>1. r \in Events /\ RowOf(r) # FreeRow /\ RowOf(r).event = r
  BY RowOfType DEF Events
<1>2. row' # FreeRow
  <2>1. CASE Wins(r)
    BY <2>1, <1>1 DEF Batch
  <2>2. CASE ~Wins(r)
    BY <2>2, FreeMeansNobody DEF Batch, Wins
  <2> QED BY <2>1, <2>2
<1>3. events \subseteq events'
  BY DEF Batch
<1>4. RowIsAudited'
  <2>1. CASE Wins(r)
    BY <2>1, <1>1 DEF Batch, RowIsAudited, RowOf
  <2>2. CASE ~Wins(r)
    BY <2>2, <1>3 DEF Batch, RowIsAudited, RowOf
  <2> QED BY <2>1, <2>2
<1>5. OneFirstClaim'
  <2>1. CASE events' = events
    BY <2>1 DEF OneFirstClaim
  <2>2. CASE events' # events
    <3>1. row' = RowOf(r) /\ r \notin events /\ events' = events \cup {r}
      BY <2>2 DEF Batch
    <3>2. Wins(r)
      BY <3>1, <1>1 DEF Batch, RowIsAudited
    <3>3. CASE r \in Takeovers
      BY <3>1, <3>3 DEF OneFirstClaim
    <3>4. CASE r \notin Takeovers
      <4>1. row = FreeRow
        BY <3>2, <3>4, FreeMeansNobody DEF Wins
      <4>2. events \cap FirstClaims = {}
        BY <4>1 DEF FirstClaimOwns
      <4> QED BY <3>1, <4>2 DEF OneFirstClaim, FirstClaims
    <3> QED BY <3>3, <3>4
  <2> QED BY <2>1, <2>2
<1>6. FirstClaimOwns' /\ BatchLeavesOwner'
  BY <1>2 DEF FirstClaimOwns, BatchLeavesOwner
<1>7. PushStoredFirst' /\ GrantIsAudited'
  BY <1>3 DEF Batch, PushStoredFirst, GrantIsAudited
<1> QED BY <1>4, <1>5, <1>6, <1>7

\* Reading back and resending change neither the row nor the log.
LEMMA ReadbackStep ==
    ASSUME IndInv, TypeOK', NEW r \in Requests, Readback(r) \/ SendAgain(r)
    PROVE  IndInv'
<1> USE DEF IndInv
<1>1. UNCHANGED <<row, events, push>>
  BY DEF Readback, SendAgain
<1>2. RowIsAudited' /\ OneFirstClaim' /\ FirstClaimOwns' /\ PushStoredFirst'
  BY <1>1 DEF RowIsAudited, OneFirstClaim, FirstClaimOwns, PushStoredFirst
<1>3. BatchLeavesOwner'
  BY <1>1 DEF BatchLeavesOwner, Readback, SendAgain, TypeOK
<1>4. GrantIsAudited'
  <2>1. CASE SendAgain(r)
    BY <2>1 DEF SendAgain, GrantIsAudited
  <2>2. CASE Readback(r)
    <3>1. row # FreeRow
      BY <2>2 DEF Readback, BatchLeavesOwner
    <3>2. row.event \in events /\ row.by = AgentOf[row.event]
      <4>1. row.event \in events /\ row = RowOf(row.event)
        BY <3>1 DEF RowIsAudited
      <4> QED BY <4>1, RowOfType DEF TypeOK
    <3>3. Answer(r) \in {"claimed", "kept", "conflict"}
      BY <3>2 DEF Answer
    <3>4. Answer(r) = "claimed" => r \in events
      BY DEF Answer
    <3>5. Answer(r) \in Granted => \E e \in events : AgentOf[e] = AgentOf[r]
      BY <3>2 DEF Answer, Granted
    <3>6. \A s \in Requests : reply'[s] = IF s = r THEN Answer(r) ELSE reply[s]
      BY <2>2 DEF Readback, TypeOK
    <3> QED BY <1>1, <3>3, <3>4, <3>5, <3>6 DEF GrantIsAudited
  <2> QED BY <2>1, <2>2
<1> QED BY <1>2, <1>3, <1>4

\* A push adds its event first and the row after it; no step of it can make
\* the row free or a first claim appear.
LEMMA PushStep ==
    ASSUME IndInv, TypeOK', NEW d \in Pushes,
           LookUp(d) \/ Store(d) \/ Project(d) \/ Die(d)
    PROVE  IndInv'
<1> USE DEF IndInv
<1>1. EventOf[d] \in Imports /\ EventOf[d] \in Events /\ EventOf[d] \notin FirstClaims
  BY ClaimAssumption DEF Events, FirstClaims
<1>2. /\ events' \in {events, events \cup {EventOf[d]}}
      /\ UNCHANGED <<claim, reply>>
  BY DEF LookUp, Store, Project, Die
<1>3. \/ row' = row
      \/ row' = RowOf(EventOf[d]) /\ EventOf[d] \in events
  BY DEF LookUp, Store, Project, Die, PushStoredFirst
<1>4. row # FreeRow => row' # FreeRow
  BY <1>1, <1>3, RowOfType
<1>5. RowIsAudited'
  BY <1>1, <1>2, <1>3, RowOfType DEF RowIsAudited, RowOf
<1>6. OneFirstClaim' /\ FirstClaimOwns'
  <2>1. events' \cap FirstClaims = events \cap FirstClaims
    BY <1>1, <1>2
  <2> QED BY <2>1, <1>4 DEF OneFirstClaim, FirstClaimOwns, FirstClaims
<1>7. BatchLeavesOwner' /\ GrantIsAudited'
  BY <1>2, <1>4 DEF BatchLeavesOwner, GrantIsAudited
<1>8. PushStoredFirst'
  BY <1>2 DEF PushStoredFirst, LookUp, Store, Project, Die, TypeOK
<1> QED BY <1>5, <1>6, <1>7, <1>8

\* The invariant holds when the gateway opens its database.
LEMMA InitInv ==
    ASSUME Init
    PROVE  IndInv
<1>1. TypeOK /\ RowIsAudited
  BY InitRow
<1>2. events \cap FirstClaims = {}
  BY ClaimAssumption DEF Init, FirstClaims
<1>3. OneFirstClaim /\ FirstClaimOwns
  BY <1>2 DEF OneFirstClaim, FirstClaimOwns, FirstClaims
<1>4. BatchLeavesOwner /\ PushStoredFirst /\ GrantIsAudited
  BY DEF Init, BatchLeavesOwner, PushStoredFirst, GrantIsAudited, Granted
<1> QED BY <1>1, <1>3, <1>4 DEF IndInv

\* IndInv is an invariant.
THEOREM Inductive == Spec => []IndInv
<1>1. Init => IndInv
  BY InitInv
<1>2. IndInv /\ [Next]_vars => IndInv'
  <2> SUFFICES ASSUME IndInv, [Next]_vars
               PROVE  IndInv'
    OBVIOUS
  <2>1. TypeOK'
    BY TypeStep DEF IndInv
  <2>2. ASSUME NEW r \in Requests, Batch(r)
        PROVE  IndInv'
    BY <2>1, <2>2, BatchStep
  <2>3. ASSUME NEW r \in Requests, Readback(r) \/ SendAgain(r)
        PROVE  IndInv'
    BY <2>1, <2>3, ReadbackStep
  <2>4. ASSUME NEW d \in Pushes, LookUp(d) \/ Store(d) \/ Project(d) \/ Die(d)
        PROVE  IndInv'
    BY <2>1, <2>4, PushStep
  <2>5. CASE UNCHANGED vars
    BY <2>5 DEF vars, IndInv, TypeOK, RowIsAudited, OneFirstClaim, FirstClaimOwns,
                BatchLeavesOwner, PushStoredFirst, GrantIsAudited
  <2> QED BY <2>2, <2>3, <2>4, <2>5 DEF Next
<1> QED BY <1>1, <1>2, PTL DEF Spec

-----------------------------------------------------------------------------
\* The claim row always names an owner whose claim event is stored.
THEOREM RowAudited == Spec => []RowIsAudited
  BY Inductive, PTL DEF IndInv

\* At most one request without takeover ever enters the log.
THEOREM FirstClaimUnique == Spec => []OneFirstClaim
  BY Inductive, PTL DEF IndInv

\* A granted claim is in the log.
THEOREM GrantsAudited == Spec => []GrantIsAudited
  BY Inductive, PTL DEF IndInv

\* Two agents were both granted the claim only with a takeover or a pushed
\* event of one of them in the log: both have an event there, and two plain
\* ones cannot be.
THEOREM OwnersNeedTakeover == Spec => []TwoOwnersNeedTakeover
<1>1. IndInv => TwoOwnersNeedTakeover
  <2> SUFFICES ASSUME IndInv, NEW r \in Requests, NEW s \in Requests,
                      reply[r] \in Granted, reply[s] \in Granted,
                      AgentOf[r] # AgentOf[s]
               PROVE  \E e \in events \cap (Takeovers \cup Imports) :
                         AgentOf[e] \in {AgentOf[r], AgentOf[s]}
    BY DEF TwoOwnersNeedTakeover
  <2>1. PICK e \in events : AgentOf[e] = AgentOf[r]
    BY DEF IndInv, GrantIsAudited
  <2>2. PICK f \in events : AgentOf[f] = AgentOf[s]
    BY DEF IndInv, GrantIsAudited
  <2>3. ~(e \in Requests \ Takeovers /\ f \in Requests \ Takeovers)
    BY <2>1, <2>2 DEF IndInv, OneFirstClaim
  <2>4. events \subseteq Requests \cup Imports
    BY DEF IndInv, TypeOK, Events
  <2> QED BY <2>1, <2>2, <2>3, <2>4
<1> QED BY <1>1, Inductive, PTL

-----------------------------------------------------------------------------
\* A batch that wins takes the lock, one that loses leaves it alone.
LEMMA BatchRefines ==
    ASSUME IndInv, NEW r \in Requests, Batch(r)
    PROVE  [Lock!Next]_(Lock!lockVars)
<1>1. UNCHANGED told
  BY DEF Batch, told
<1>2. CASE Wins(r)
  <2>1. row'.by = AgentOf[r]
    BY <1>2 DEF Batch, RowOf
  <2>2. row.by = Nobody \/ r \in Takeovers
    BY <1>2 DEF Wins
  <2>3. Lock!Acquire(r)
    BY <1>1, <2>1, <2>2 DEF Lock!Acquire
  <2> QED BY <2>3 DEF Lock!Next
<1>3. CASE ~Wins(r)
  <2>1. row' = row
    BY <1>3 DEF Batch
  <2> QED BY <1>1, <2>1 DEF Lock!lockVars
<1> QED BY <1>2, <1>3

\* An answer agrees with the owner at the instant the row is read.
LEMMA ReadbackRefines ==
    ASSUME IndInv, NEW r \in Requests, Readback(r)
    PROVE  [Lock!Next]_(Lock!lockVars)
<1>1. /\ row' = row
      /\ row # FreeRow
      /\ row.by # Nobody
  BY FreeMeansNobody DEF Readback, BatchLeavesOwner, IndInv
<1>2. row.event \in events /\ row.by = AgentOf[row.event]
  <2>1. row.event \in events /\ row = RowOf(row.event)
    BY <1>1 DEF IndInv, RowIsAudited
  <2> QED BY <2>1, RowOfType DEF IndInv, TypeOK
<1>3. \A s \in Requests : reply'[s] = IF s = r THEN Answer(r) ELSE reply[s]
  BY DEF Readback, IndInv, TypeOK
<1>4. CASE row.by = AgentOf[r]
  <2>1. Answer(r) \in Granted
    BY <1>2, <1>4 DEF Answer, Granted
  <2>2. told' = [told EXCEPT ![r] = "yours"]
    BY <1>3, <2>1 DEF told, Granted
  <2>3. Lock!Grant(r)
    BY <1>1, <1>4, <2>2 DEF Lock!Grant
  <2> QED BY <2>3 DEF Lock!Next
<1>5. CASE row.by # AgentOf[r]
  <2>1. Answer(r) = "conflict"
    BY <1>2, <1>5 DEF Answer
  <2>2. told' = [told EXCEPT ![r] = "taken"]
    BY <1>3, <2>1 DEF told, Granted
  <2>3. Lock!Refuse(r)
    BY <1>1, <1>5, <2>2 DEF Lock!Refuse
  <2> QED BY <2>3 DEF Lock!Next
<1> QED BY <1>4, <1>5

\* Only the upsert of a push is visible: it installs the owner it names.
LEMMA PushRefines ==
    ASSUME IndInv, NEW d \in Pushes, LookUp(d) \/ Store(d) \/ Project(d) \/ Die(d)
    PROVE  [Lock!Next]_(Lock!lockVars)
<1>1. UNCHANGED told
  BY DEF LookUp, Store, Project, Die, told
<1>2. CASE Project(d)
  <2>1. row'.by = AgentOf[EventOf[d]] /\ EventOf[d] \in Imports
    BY <1>2, ClaimAssumption DEF Project, RowOf
  <2>2. Lock!Install(EventOf[d])
    BY <1>1, <2>1 DEF Lock!Install
  <2> QED BY <2>1, <2>2 DEF Lock!Next
<1>3. CASE LookUp(d) \/ Store(d) \/ Die(d)
  <2>1. row' = row
    BY <1>3 DEF LookUp, Store, Die
  <2> QED BY <1>1, <2>1 DEF Lock!lockVars
<1> QED BY <1>2, <1>3

\* The claim endpoint implements the lock: one owner, acquired only when free
\* or by takeover, and truthful answers.
THEOREM Refinement == Spec => LockSpec
<1>1. Init => Lock!Init
  <2> SUFFICES ASSUME Init PROVE Lock!Init
    OBVIOUS
  <2>1. row.by \in Agents \cup {Nobody}
    BY InitRow DEF TypeOK
  <2>2. told = [r \in Requests |-> "none"]
    BY DEF Init, told, Granted
  <2> QED BY <2>1, <2>2 DEF Lock!Init
<1>2. IndInv /\ [Next]_vars => [Lock!Next]_(Lock!lockVars)
  <2> SUFFICES ASSUME IndInv, [Next]_vars
               PROVE  [Lock!Next]_(Lock!lockVars)
    OBVIOUS
  <2>1. ASSUME NEW r \in Requests, SendAgain(r)
        PROVE  [Lock!Next]_(Lock!lockVars)
    BY <2>1 DEF SendAgain, told, Lock!lockVars
  <2>2. CASE UNCHANGED vars
    BY <2>2 DEF vars, told, Lock!lockVars
  <2> QED BY <2>1, <2>2, BatchRefines, ReadbackRefines, PushRefines DEF Next
<1> QED BY <1>1, <1>2, Inductive, PTL DEF Spec, LockSpec, Lock!Spec
=============================================================================
