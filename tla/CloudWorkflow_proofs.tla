------------------------ MODULE CloudWorkflow_proofs ------------------------
(***************************************************************************)
(* What the claim rows of the gateway guarantee, for any number of agents, *)
(* clients, steps and events.  The workers check a claim on a projection   *)
(* that others may have outdated; the proofs use nothing of what it says   *)
(* but the refusal of non-idempotent takeovers.  What carries the rest is  *)
(* the row, which is taken once and then changed by takeovers only.        *)
(***************************************************************************)
EXTENDS CloudWorkflow, Workflow_proofs

\* The claims that no takeover is.
InitialKinds == {"claimed", "reclaimed"}

(***************************************************************************)
(* The inductive invariant.                                                *)
(***************************************************************************)
\* What a worker is about to batch is the claim its client asked for.
RequestsMatch ==
    /\ request \in [Procs -> Slot]
    /\ \A p \in Procs : request[p] # Hole =>
          /\ command[p].at > 0
          /\ request[p] \in Event
          /\ request[p].action \in ClaimActions
          /\ command[p].event.action \in ClaimActions
          /\ request[p].step = command[p].event.step
          /\ request[p].action = "taken_over" =>
                command[p].event.action = "taken_over" /\ request[p].step \notin NonIdempotent

RowsMatch ==
    /\ row \in [Step -> [by : Agents \cup {NoOne}, at : Nat]]
    /\ \A s \in Step : row[s] # FreeRow =>
          /\ row[s].by \in Agents
          /\ row[s].at \in 1..Len(timeline)
          /\ timeline[row[s].at].action \in ClaimActions
          /\ timeline[row[s].at].step = s
          /\ timeline[row[s].at].agent = row[s].by

\* A step that was ever claimed has a row that is not free again.
RowsTaken ==
    \A i \in 1..Len(timeline) :
        timeline[i].action \in ClaimActions => row[timeline[i].step] # FreeRow

OneInitial ==
    \A i, j \in 1..Len(timeline) :
        /\ timeline[i].action \in InitialKinds /\ timeline[j].action \in InitialKinds
        /\ timeline[i].step = timeline[j].step
        => i = j

\* A takeover comes after the initial claim of its step in created_at order,
\* and is none of a non-idempotent step.
TakeoversFollow ==
    /\ \A i \in 1..Len(timeline) : timeline[i].action = "taken_over" =>
          /\ timeline[i].step \notin NonIdempotent
          /\ Evidence(timeline, i, InitialKinds, timeline[i].step)
    /\ \A p \in Procs : command[p].event.action = "taken_over" =>
          Evidence(timeline, Place(p), InitialKinds, command[p].event.step)

CloudRun ==
    /\ Sound
    /\ RequestsMatch
    /\ RowsMatch
    /\ RowsTaken
    /\ OneInitial
    /\ TakeoversFollow

\* The worker starts with empty tables.
LEMMA InitCloudRun == CloudInit => CloudRun
<1> SUFFICES ASSUME CloudInit PROVE CloudRun
  OBVIOUS
<1>1. Sound /\ Len(timeline) = 0
  BY InitSound DEF CloudInit, Init
<1>2. \A p \in Procs : command[p].event.action = "none" /\ request[p] = Hole
  BY IdleFields DEF CloudInit, Init
<1>3. RequestsMatch
  BY <1>2 DEF CloudInit, RequestsMatch, Slot
<1>4. RowsMatch
  BY DEF CloudInit, RowsMatch, FreeRow
<1>5. RowsTaken /\ OneInitial /\ TakeoversFollow
  BY <1>1, <1>2 DEF RowsTaken, OneInitial, TakeoversFollow
<1>6. QED
  BY <1>1, <1>3, <1>4, <1>5 DEF CloudRun

(***************************************************************************)
(* The steps.                                                              *)
(***************************************************************************)
\* What the client does alone.
ClientStep(p) ==
    /\ Starts \/ Begins(p) \/ Stamp(p) \/ Interrupt(p)
    /\ UNCHANGED <<row, request>>

CloudStepOf(p) == ClientStep(p) \/ CheckClaim(p) \/ BatchClaim(p) \/ PostEvent(p)

\* Every step is the step of one process.
LEMMA CloudNextSteps ==
    ASSUME Sound, CloudNext
    PROVE  \E p \in Procs : CloudStepOf(p)
<1>1. PICK p \in Procs :
         \/ \E a \in Agents : Command(p, a)
         \/ Stamp(p) /\ UNCHANGED <<row, request>>
         \/ Interrupt(p) /\ UNCHANGED <<row, request>>
         \/ CheckClaim(p) \/ BatchClaim(p) \/ PostEvent(p)
  BY DEF CloudNext
<1>2. ASSUME NEW a \in Agents, Command(p, a)
      PROVE  ClientStep(p)
  <2>1. WorkflowCommand(p, a) /\ UNCHANGED <<row, request>>
    BY <1>2 DEF Command, WorkflowCommand
  <2>2. CASE Start(p, a)
    BY <2>1, <2>2, StartStarts DEF ClientStep
  <2>3. CASE Begins(p)
    BY <2>1, <2>3 DEF ClientStep
  <2>4. QED
    BY <2>1, <2>2, <2>3, CommandsBegin
<1>3. QED
  BY <1>1, <1>2 DEF CloudStepOf, ClientStep

\* A claim on its way to the worker is the event of a stamped command.
LEMMA RequestsSound ==
    ASSUME CloudRun, NEW p \in Procs, request[p] # Hole
    PROVE  /\ Place(p) = command[p].at /\ command[p].at > 0
           /\ request[p] \in Event /\ request[p].step \in Step /\ request[p].agent \in Agents
           /\ request[p].action \in ClaimActions /\ request[p].action # "started"
  BY EventFields DEF CloudRun, RequestsMatch, Place, StepActions, ClaimActions

\* A stamped command carries an event that is not the start.
LEMMA CommandsSound ==
    ASSUME CloudRun, NEW p \in Procs, command[p].at > 0
    PROVE  command[p].event \in Event /\ command[p].event.action # "started"
<1>1. CommandsTyped /\ StampsAreHoles
  BY TypeParts DEF CloudRun, Sound
<1>2. command[p].event \in Event
  BY <1>1, IdleFields DEF CommandsTyped, StampsAreHoles, Slot
<1>3. QED
  BY <1>2 DEF CloudRun, Sound, Started

\* appendAtomicClaim: either the row stays and nothing is stored, or the row
\* is taken and the event stored.
LEMMA BatchCases ==
    ASSUME CloudRun, NEW p \in Procs, BatchClaim(p)
    PROVE  /\ request[p] # Hole
           /\ Fills(p, request[p])
           /\ \A q \in Procs \ {p} : request'[q] = request[q]
           /\ request'[p] = Hole /\ request' \in [Procs -> Slot]
           /\ \/ row' = row /\ timeline' = timeline
              \/ /\ WinsRow(request[p])
                 /\ timeline' = [timeline EXCEPT ![command[p].at] = request[p]]
                 /\ row' = [row EXCEPT ![request[p].step] =
                               [by |-> request[p].agent, at |-> command[p].at]]
<1> DEFINE e == request[p]
           mine == [by |-> e.agent, at |-> command[p].at]
<1>1. /\ e # Hole /\ e.step \in Step /\ command[p].at > 0
      /\ row' = IF WinsRow(e) THEN [row EXCEPT ![e.step] = mine] ELSE row
      /\ timeline' = IF row'[e.step] = mine
                     THEN [timeline EXCEPT ![command[p].at] = e] ELSE timeline
      /\ command' = [command EXCEPT ![p] = Idle]
      /\ request' = [request EXCEPT ![p] = Hole]
  BY RequestsSound DEF BatchClaim
<1>2. /\ \A q \in Procs \ {p} : request'[q] = request[q]
      /\ request'[p] = Hole /\ request' \in [Procs -> Slot]
  BY <1>1 DEF CloudRun, RequestsMatch, Slot
<1>3. Fills(p, e)
  BY <1>1 DEF Fills
<1>4. timeline[command[p].at] = Hole
  BY <1>1, RequestsSound, <1>3, FillChanges DEF CloudRun
<1>5. row[e.step] # mine
  <2>1. Hole.action \notin ClaimActions
    BY DEF Hole, ClaimActions
  <2>2. FreeRow # mine
    BY <1>1 DEF FreeRow
  <2>3. row[e.step] # FreeRow => timeline[row[e.step].at].action \in ClaimActions
    BY <1>1 DEF CloudRun, RowsMatch
  <2>4. mine.at = command[p].at
    OBVIOUS
  <2> HIDE DEF mine
  <2>5. QED
    BY <1>4, <2>1, <2>2, <2>3, <2>4
<1>6. CASE WinsRow(e)
  <2>1. row'[e.step] = mine
    BY <1>1, <1>6 DEF CloudRun, RowsMatch
  <2>2. QED
    BY <1>1, <1>2, <1>3, <1>6, <2>1
<1>7. CASE ~WinsRow(e)
  BY <1>1, <1>2, <1>3, <1>5, <1>7
<1>8. QED
  BY <1>6, <1>7

\* The local invariant survives every step of the cloud system.
LEMMA CloudSound ==
    ASSUME CloudRun, NEW p \in Procs, CloudStepOf(p)
    PROVE  Sound'
<1>1. CASE ClientStep(p)
  BY <1>1, StepSound DEF ClientStep, StepOf, CloudRun
<1>2. CASE CheckClaim(p)
  <2>1. CASE command' = [command EXCEPT ![p] = Idle]
    <3>1. Fills(p, command[p].event)
      BY <1>2, <2>1 DEF CheckClaim, Fills
    <3>2. QED
      BY <1>2, <3>1, CommandsSound, FillSound DEF CheckClaim, CloudRun
  <2>2. CASE command' = command
    BY <1>2, <2>2 DEF CheckClaim, CloudRun, Sound, TypeOK, Started, StartedOnce, Current, Stored
  <2>3. QED
    BY <1>2, <2>1, <2>2 DEF CheckClaim
<1>3. CASE BatchClaim(p)
  BY <1>3, BatchCases, RequestsSound, FillSound DEF CloudRun
<1>4. CASE PostEvent(p)
  <2>1. Fills(p, command[p].event)
    BY <1>4 DEF PostEvent, Fills
  <2>2. QED
    BY <1>4, <2>1, CommandsSound, FillSound DEF PostEvent, CloudRun
<1>5. QED
  BY <1>1, <1>2, <1>3, <1>4 DEF CloudStepOf

\* What the typing says of one state, in the form the steps use.
LEMMA CloudTypes ==
    ASSUME CloudRun
    PROVE  /\ timeline \in Seq(Slot) /\ Len(timeline) \in Nat
           /\ command \in [Procs -> [event : Slot, at : 0..MaxEvents]]
           /\ \A p \in Procs : Place(p) \in 1..(Len(timeline) + 1)
           /\ \A p \in Procs : command[p].event = Hole => command[p].at = 0
           /\ \A i \in 1..Len(timeline) : timeline[i] = Hole <=> timeline[i].action = "none"
<1>1. TimelineTyped /\ CommandsTyped /\ StampsAreHoles
  BY TypeParts DEF CloudRun, Sound
<1>2. timeline \in Seq(Slot) /\ Len(timeline) \in Nat
  BY <1>1 DEF TimelineTyped
<1>3. \A i \in 1..Len(timeline) : timeline[i] = Hole <=> timeline[i].action = "none"
  BY <1>2, HoleIsNoEvent
<1>4. QED
  BY <1>1, <1>2, <1>3, IdleFields, StoreAssumption DEF CommandsTyped, StampsAreHoles, Place

\* A step of a client: the claims stored, and the claims requested, stay.
LEMMA ClientKeeps ==
    ASSUME CloudRun, NEW p \in Procs, ClientStep(p)
    PROVE  /\ Len(timeline') \in Nat /\ Len(timeline) <= Len(timeline')
           /\ \A i \in 1..Len(timeline) : timeline'[i] = timeline[i]
           /\ \A i \in 1..Len(timeline') : timeline'[i].action \in ClaimActions =>
                                              i \in 1..Len(timeline)
           /\ \A q \in Procs : request[q] # Hole => command'[q] = command[q]
           /\ row' = row /\ request' = request
<1>1. request[p] = Hole \/ command[p].at > 0
  BY DEF CloudRun, RequestsMatch
<1>2. CASE Starts
  <2>1. PICK e \in Event : e.action = "started" /\ timeline' = <<e>>
    BY <1>2 DEF Starts
  <2>2. Len(timeline) = 0 /\ Len(timeline') = 1 /\ timeline'[1] = e
    BY <1>2, <2>1 DEF Starts
  <2>3. command' = command /\ row' = row /\ request' = request
    BY <1>2 DEF Starts, ClientStep
  <2>4. QED
    BY <2>1, <2>2, <2>3 DEF ClaimActions
<1>3. CASE Begins(p) \/ Interrupt(p)
  <2>1. /\ timeline' = timeline /\ command[p].at = 0
        /\ \A q \in Procs \ {p} : command'[q] = command[q]
    BY <1>3, CloudTypes, IdleFields DEF Begins, MayBegin, Begin, Interrupt
  <2>2. QED
    BY <1>1, <2>1, CloudTypes DEF ClientStep
<1>4. CASE Stamp(p)
  <2>1. /\ timeline' = Append(timeline, Hole) /\ command[p].at = 0
        /\ \A q \in Procs \ {p} : command'[q] = command[q]
    BY <1>4, CloudTypes DEF Stamp
  <2>2. /\ Len(timeline') = Len(timeline) + 1
        /\ \A i \in 1..Len(timeline) : timeline'[i] = timeline[i]
        /\ timeline'[Len(timeline) + 1].action = "none"
    BY <2>1, CloudTypes DEF Hole
  <2>3. \A i \in 1..Len(timeline') : timeline'[i].action \in ClaimActions =>
                                              i \in 1..Len(timeline)
    BY <2>2, CloudTypes DEF ClaimActions
  <2>4. QED
    BY <1>1, <2>1, <2>2, <2>3, CloudTypes DEF ClientStep
<1>5. QED
  BY <1>2, <1>3, <1>4 DEF ClientStep

\* What a validator admits as a takeover follows an initial claim.
LEMMA AdmittedFollows ==
    ASSUME CloudRun, NEW e \in Event, Admits(Current, e), e.action = "taken_over"
    PROVE  Evidence(timeline, Len(timeline) + 1, InitialKinds, e.step)
<1>1. e.step \in Step /\ Current.steps[e.step].status = "claimed"
  BY EventFields DEF Admits, ClaimIs, ClaimActions, StepActions
<1>2. StepHasCause(timeline, Len(timeline) + 1, e.step, Current.steps[e.step])
  BY <1>1, CurrentHasEvents DEF CloudRun, RunHasCause
<1>3. PICK j \in 1..Len(timeline) : timeline[j].action \in ClaimActions
                                    /\ timeline[j].step = e.step
  BY <1>1, <1>2, CloudTypes DEF StepHasCause, ClaimedBy
<1>4. CASE timeline[j].action \in InitialKinds
  BY <1>3, <1>4, CloudTypes DEF Evidence
<1>5. CASE timeline[j].action = "taken_over"
  <2>1. Evidence(timeline, j, InitialKinds, e.step)
    BY <1>3, <1>5 DEF CloudRun, TakeoversFollow
  <2>2. QED
    BY <1>3, <2>1, CloudTypes DEF Evidence
<1>6. QED
  BY <1>3, <1>4, <1>5 DEF ClaimActions, InitialKinds

\* Commands go on or begin; their places only move back in the timeline.
CommandsGoOn ==
    \A q \in Procs : command'[q].event.action = "taken_over" =>
        \/ command'[q].event = command[q].event /\ Place(q) <= Place(q)' /\ Place(q)' \in Nat
        \/ /\ Evidence(timeline, Len(timeline) + 1, InitialKinds, command'[q].event.step)
           /\ Place(q)' = Len(timeline) + 1

\* Storing one event moves the other commands on.
LEMMA FillGoesOn ==
    ASSUME CloudRun, NEW p \in Procs, NEW e \in Event, Fills(p, e)
    PROVE  CommandsGoOn
<1>1. /\ Len(timeline') = Len(timeline)
      /\ command'[p] = Idle
      /\ \A q \in Procs \ {p} : command'[q] = command[q]
  BY FillChanges DEF CloudRun
<1>2. \A q \in Procs \ {p} : Place(q)' = Place(q)
  BY <1>1 DEF Place
<1>3. QED
  BY <1>1, <1>2, CloudTypes, IdleFields DEF CommandsGoOn

\* So does every step.
LEMMA CloudGoesOn ==
    ASSUME CloudRun, NEW p \in Procs, CloudStepOf(p)
    PROVE  CommandsGoOn
<1>1. CASE Begins(p) /\ ClientStep(p)
  <2>1. PICK e \in Event : Admits(Current, e) /\ Begin(p, e)
    BY <1>1 DEF Begins
  <2>2. /\ timeline' = timeline
        /\ command'[p].event = e /\ command'[p].at = 0
        /\ \A q \in Procs \ {p} : command'[q] = command[q]
    BY <2>1, CloudTypes DEF Begin
  <2>3. /\ Place(p)' = Len(timeline) + 1
        /\ \A q \in Procs \ {p} : Place(q)' = Place(q)
    BY <2>2 DEF Place
  <2>4. QED
    BY <2>1, <2>2, <2>3, AdmittedFollows, CloudTypes DEF CommandsGoOn
<1>2. CASE Stamp(p)
  <2>1. /\ Len(timeline') = Len(timeline) + 1
        /\ command'[p] = [event |-> command[p].event, at |-> Len(timeline) + 1]
        /\ command[p].at = 0
        /\ \A q \in Procs \ {p} : command'[q] = command[q]
    BY <1>2, CloudTypes DEF Stamp
  <2>2. \A q \in Procs : /\ command'[q].event = command[q].event
                         /\ Place(q) <= Place(q)' /\ Place(q)' \in Nat
    BY <2>1, CloudTypes DEF Place
  <2>3. QED
    BY <2>2 DEF CommandsGoOn
<1>3. CASE Starts \/ Interrupt(p)
  <2>1. \A q \in Procs : command'[q] \in {command[q], Idle}
    BY <1>3, CloudTypes DEF Starts, Interrupt
  <2>2. Starts => \A q \in Procs : command[q] = Idle
    BY DEF Starts, CloudRun, Sound, Started
  <2>3. Interrupt(p) => timeline' = timeline
    BY DEF Interrupt
  <2>4. \A q \in Procs : command'[q].event.action = "taken_over" =>
           command'[q] = command[q] /\ Place(q)' = Place(q)
    BY <1>3, <2>1, <2>2, <2>3, IdleFields DEF Place
  <2>5. QED
    BY <2>4, CloudTypes DEF CommandsGoOn
<1>4. CASE CheckClaim(p)
  <2>1. CASE command' = command
    <3>1. \A q \in Procs : Place(q)' = Place(q)
      BY <1>4, <2>1 DEF CheckClaim, Place
    <3>2. QED
      BY <2>1, <3>1, CloudTypes DEF CommandsGoOn
  <2>2. CASE command' = [command EXCEPT ![p] = Idle]
    <3>1. Fills(p, command[p].event) /\ command[p].at > 0
      BY <1>4, <2>2 DEF CheckClaim, Fills
    <3>2. QED
      BY <3>1, CommandsSound, FillGoesOn
  <2>3. QED
    BY <1>4, <2>1, <2>2 DEF CheckClaim
<1>5. CASE BatchClaim(p)
  BY <1>5, BatchCases, RequestsSound, FillGoesOn
<1>6. CASE PostEvent(p)
  <2>1. Fills(p, command[p].event) /\ command[p].at > 0
    BY <1>6 DEF PostEvent, Fills
  <2>2. QED
    BY <2>1, CommandsSound, FillGoesOn
<1>7. QED
  BY <1>1, <1>2, <1>3, <1>4, <1>5, <1>6 DEF CloudStepOf, ClientStep

\* A request stays the event of the command that made it.
LEMMA RequestsStay ==
    ASSUME CloudRun, NEW p \in Procs, CloudStepOf(p)
    PROVE  RequestsMatch'
<1>1. /\ request \in [Procs -> Slot]
      /\ command \in [Procs -> [event : Slot, at : 0..MaxEvents]]
  BY CloudTypes DEF CloudRun, RequestsMatch
<1>2. CASE ClientStep(p)
  BY <1>2, ClientKeeps DEF CloudRun, RequestsMatch
<1>3. CASE CheckClaim(p)
  <2> DEFINE e == command[p].event
             takeover == e.action = "taken_over"
             action == WorkerAction(WorkerRun, e.step, takeover)
             claim == ActionEvent(action, e.step, e.agent, FALSE)
  <2>1. CASE WorkerAccepts(WorkerRun, e.step, takeover)
    <3>1. /\ request' = [request EXCEPT ![p] = claim]
          /\ command' = command /\ command[p].at > 0 /\ e.action \in ClaimActions
      BY <1>3, <2>1 DEF CheckClaim
    <3>2. e \in Event
      BY <3>1, CommandsSound
    <3>3. e.step \in Step /\ e.agent \in Agents
      BY <3>1, <3>2, EventFields DEF StepActions
    <3>4. /\ action \in ClaimActions
          /\ action = "taken_over" => takeover /\ e.step \notin NonIdempotent
      BY <2>1 DEF WorkerAction, WorkerAccepts, ClaimActions
    <3>5. claim \in Event /\ claim.action = action /\ claim.step = e.step
      BY <3>3, <3>4 DEF ActionEvent, Event, StepActions
    <3>6. \A q \in Procs : request'[q] = IF q = p THEN claim ELSE request[q]
      BY <1>1, <3>1
    <3>7. request' \in [Procs -> Slot]
      BY <1>1, <3>1, <3>5 DEF Slot
    <3>8. ASSUME NEW q \in Procs, request'[q] # Hole
          PROVE  /\ command'[q].at > 0
                 /\ request'[q] \in Event
                 /\ request'[q].action \in ClaimActions
                 /\ command'[q].event.action \in ClaimActions
                 /\ request'[q].step = command'[q].event.step
                 /\ request'[q].action = "taken_over" =>
                       /\ command'[q].event.action = "taken_over"
                       /\ request'[q].step \notin NonIdempotent
      <4>1. CASE q = p
        <5>1. request'[q] = claim /\ command'[q] = command[p]
          BY <3>1, <3>6, <4>1
        <5>2. QED
          BY <3>1, <3>4, <3>5, <5>1
      <4>2. CASE q # p
        <5>1. request'[q] = request[q] /\ command'[q] = command[q]
          BY <3>1, <3>6, <4>2
        <5>2. QED
          BY <3>8, <5>1 DEF CloudRun, RequestsMatch
      <4>3. QED
        BY <4>1, <4>2
    <3>9. QED
      BY <3>7, <3>8 DEF RequestsMatch
  <2>2. CASE ~WorkerAccepts(WorkerRun, e.step, takeover)
    <3>1. /\ request' = request /\ request[p] = Hole
          /\ \A q \in Procs \ {p} : command'[q] = command[q]
      BY <1>1, <1>3, <2>2 DEF CheckClaim
    <3>2. QED
      BY <3>1 DEF CloudRun, RequestsMatch
  <2>3. QED
    BY <2>1, <2>2
<1>4. CASE BatchClaim(p)
  <2>1. /\ request' \in [Procs -> Slot] /\ request'[p] = Hole
        /\ \A q \in Procs \ {p} : request'[q] = request[q]
    BY <1>4, BatchCases
  <2>2. \A q \in Procs \ {p} : command'[q] = command[q]
    <3>1. PICK e \in Event : e = request[p] /\ Fills(p, e)
      BY <1>4, BatchCases, RequestsSound
    <3>2. QED
      BY <3>1, FillChanges DEF CloudRun
  <2>3. QED
    BY <2>1, <2>2 DEF CloudRun, RequestsMatch
<1>5. CASE PostEvent(p)
  <2>1. /\ request' = request
        /\ \A q \in Procs \ {p} : command'[q] = command[q]
    BY <1>1, <1>5 DEF PostEvent
  <2>2. request[p] = Hole
    BY <1>5 DEF PostEvent, CloudRun, RequestsMatch
  <2>3. QED
    BY <2>1, <2>2 DEF CloudRun, RequestsMatch
<1>6. QED
  BY <1>2, <1>3, <1>4, <1>5 DEF CloudStepOf

\* No claim is stored and no row changes.
ClaimsKept ==
    /\ Len(timeline') \in Nat /\ Len(timeline) <= Len(timeline')
    /\ \A i \in 1..Len(timeline) : timeline[i].action # "none" => timeline'[i] = timeline[i]
    /\ \A i \in 1..Len(timeline') : timeline'[i].action \in ClaimActions =>
                                       i \in 1..Len(timeline) /\ timeline[i] = timeline'[i]
    /\ row' = row

ClaimsSafe == RowsMatch /\ RowsTaken /\ OneInitial /\ TakeoversFollow

\* A takeover keeps the initial claim it followed.
LEMMA FollowsKept ==
    ASSUME CloudRun, CommandsGoOn, Len(timeline') \in Nat,
           \A i \in 1..Len(timeline) : timeline[i].action # "none" => timeline'[i] = timeline[i]
    PROVE  /\ \A i \in 1..Len(timeline) : timeline[i].action = "taken_over" =>
                 Evidence(timeline', i, InitialKinds, timeline[i].step)
           /\ \A q \in Procs : command'[q].event.action = "taken_over" =>
                 Evidence(timeline', Place(q)', InitialKinds, command'[q].event.step)
<1>1. ASSUME NEW i \in 1..(Len(timeline) + 1), NEW i2 \in Nat, i <= i2, NEW s,
             Evidence(timeline, i, InitialKinds, s)
      PROVE  Evidence(timeline', i2, InitialKinds, s)
  <2>1. "none" \notin InitialKinds /\ i \in Nat
    BY CloudTypes DEF InitialKinds
  <2>2. \A j \in 1..(i - 1) : timeline[j].action # "none" => timeline'[j] = timeline[j]
    BY CloudTypes
  <2>3. QED
    BY <1>1, <2>1, <2>2, EvidenceKept
<1>2. ASSUME NEW i \in 1..Len(timeline), timeline[i].action = "taken_over"
      PROVE  Evidence(timeline', i, InitialKinds, timeline[i].step)
  <2>1. Evidence(timeline, i, InitialKinds, timeline[i].step)
    BY <1>2 DEF CloudRun, TakeoversFollow
  <2>2. QED
    BY <1>1, <2>1, CloudTypes
<1>3. ASSUME NEW q \in Procs, command'[q].event.action = "taken_over"
      PROVE  Evidence(timeline', Place(q)', InitialKinds, command'[q].event.step)
  <2>1. CASE command'[q].event = command[q].event /\ Place(q) <= Place(q)' /\ Place(q)' \in Nat
    <3>1. Evidence(timeline, Place(q), InitialKinds, command'[q].event.step)
      BY <1>3, <2>1 DEF CloudRun, TakeoversFollow
    <3>2. QED
      BY <1>1, <2>1, <3>1, CloudTypes
  <2>2. CASE /\ Evidence(timeline, Len(timeline) + 1, InitialKinds, command'[q].event.step)
             /\ Place(q)' = Len(timeline) + 1
    BY <1>1, <2>2, CloudTypes, SMTT(20)
  <2>3. QED
    BY <1>3, <2>1, <2>2 DEF CommandsGoOn
<1>4. QED
  BY <1>2, <1>3

\* A step that stores no claim keeps the claim rows true.
LEMMA KeptSafe ==
    ASSUME CloudRun, CommandsGoOn, ClaimsKept
    PROVE  ClaimsSafe'
<1>1. RowsMatch'
  <2>1. row \in [Step -> [by : Agents \cup {NoOne}, at : Nat]]
    BY DEF CloudRun, RowsMatch
  <2>2. ASSUME NEW s \in Step, row[s] # FreeRow
        PROVE  /\ row[s].by \in Agents
               /\ row[s].at \in 1..Len(timeline')
               /\ timeline'[row[s].at].action \in ClaimActions
               /\ timeline'[row[s].at].step = s
               /\ timeline'[row[s].at].agent = row[s].by
    <3>1. /\ row[s].by \in Agents
          /\ row[s].at \in 1..Len(timeline)
          /\ timeline[row[s].at].action \in ClaimActions
          /\ timeline[row[s].at].step = s
          /\ timeline[row[s].at].agent = row[s].by
      BY <2>2 DEF CloudRun, RowsMatch
    <3>2. timeline'[row[s].at] = timeline[row[s].at] /\ row[s].at \in 1..Len(timeline')
      BY <3>1, CloudTypes, SMTT(20) DEF ClaimsKept, ClaimActions
    <3>3. QED
      BY <3>1, <3>2
  <2>3. QED
    BY <2>1, <2>2 DEF RowsMatch, ClaimsKept
<1>2. RowsTaken'
  BY DEF CloudRun, RowsTaken, ClaimsKept
<1>3. OneInitial'
  BY DEF CloudRun, OneInitial, ClaimsKept, InitialKinds, ClaimActions
<1>4. TakeoversFollow'
  <2>1. /\ \A i \in 1..Len(timeline) : timeline[i].action = "taken_over" =>
              Evidence(timeline', i, InitialKinds, timeline[i].step)
        /\ \A q \in Procs : command'[q].event.action = "taken_over" =>
              Evidence(timeline', Place(q)', InitialKinds, command'[q].event.step)
    BY FollowsKept DEF ClaimsKept
  <2>2. ASSUME NEW i \in 1..Len(timeline'), timeline'[i].action = "taken_over"
        PROVE  /\ timeline'[i].step \notin NonIdempotent
               /\ Evidence(timeline', i, InitialKinds, timeline'[i].step)
    <3>1. i \in 1..Len(timeline) /\ timeline[i] = timeline'[i]
      BY <2>2 DEF ClaimsKept, ClaimActions
    <3>2. QED
      BY <2>1, <2>2, <3>1 DEF CloudRun, TakeoversFollow
  <2>3. QED
    BY <2>1, <2>2 DEF TakeoversFollow
<1>5. QED
  BY <1>1, <1>2, <1>3, <1>4 DEF ClaimsSafe

\* A batch that wins the row.
LEMMA WonSafe ==
    ASSUME CloudRun, CommandsGoOn, NEW p \in Procs, request[p] # Hole, Fills(p, request[p]),
           WinsRow(request[p]),
           timeline' = [timeline EXCEPT ![command[p].at] = request[p]],
           row' = [row EXCEPT ![request[p].step] =
                      [by |-> request[p].agent, at |-> command[p].at]]
    PROVE  ClaimsSafe'
<1> DEFINE e == request[p]
           at == command[p].at
<1>1. /\ e \in Event /\ e.step \in Step /\ e.agent \in Agents /\ e.action \in ClaimActions
      /\ Place(p) = at
  BY RequestsSound
<1>2. /\ at \in 1..Len(timeline) /\ timeline[at].action = "none"
      /\ Len(timeline') = Len(timeline)
      /\ \A i \in 1..Len(timeline) : i # at => timeline'[i] = timeline[i]
      /\ timeline'[at] = e
  <2>1. /\ at \in 1..Len(timeline) /\ timeline[at] = Hole
        /\ Len(timeline') = Len(timeline)
        /\ \A i \in 1..Len(timeline) : i # at => timeline'[i] = timeline[i]
    BY <1>1, FillChanges DEF CloudRun
  <2>2. timeline'[at] = e
    BY <2>1, CloudTypes
  <2>3. QED
    BY <2>1, <2>2, CloudTypes
<1>3. /\ row \in [Step -> [by : Agents \cup {NoOne}, at : Nat]]
      /\ row'[e.step] = [by |-> e.agent, at |-> at]
      /\ \A s \in Step \ {e.step} : row'[s] = row[s]
      /\ row' \in [Step -> [by : Agents \cup {NoOne}, at : Nat]]
  <2>1. row \in [Step -> [by : Agents \cup {NoOne}, at : Nat]]
    BY DEF CloudRun, RowsMatch
  <2>2. at \in Nat
    BY <1>2, CloudTypes
  <2>3. QED
    BY <1>1, <2>1, <2>2
<1>4. FreeRow.by = NoOne /\ NoOne \notin Agents /\ Len(timeline) \in Nat
  BY ManifestAssumption, CloudTypes DEF FreeRow
<1> HIDE DEF e, at
<1>5. RowsMatch'
  <2>1. ASSUME NEW s \in Step, row'[s] # FreeRow
        PROVE  /\ row'[s].by \in Agents
               /\ row'[s].at \in 1..Len(timeline')
               /\ timeline'[row'[s].at].action \in ClaimActions
               /\ timeline'[row'[s].at].step = s
               /\ timeline'[row'[s].at].agent = row'[s].by
    <3>1. CASE s = e.step
      BY <1>1, <1>2, <1>3, <3>1
    <3>2. CASE s # e.step
      <4>1. row'[s] = row[s]
        BY <1>3, <3>2
      <4>2. /\ row[s].by \in Agents
            /\ row[s].at \in 1..Len(timeline)
            /\ timeline[row[s].at].action \in ClaimActions
            /\ timeline[row[s].at].step = s
            /\ timeline[row[s].at].agent = row[s].by
        BY <2>1, <4>1 DEF CloudRun, RowsMatch
      <4>3. row[s].at # at
        BY <1>2, <4>2 DEF ClaimActions
      <4>4. QED
        BY <1>2, <4>1, <4>2, <4>3
    <3>3. QED
      BY <3>1, <3>2
  <2>2. QED
    BY <1>3, <2>1 DEF RowsMatch
<1>6. RowsTaken'
  <2>1. SUFFICES ASSUME NEW i \in 1..Len(timeline), timeline'[i].action \in ClaimActions
                 PROVE  row'[timeline'[i].step] # FreeRow
    BY <1>2 DEF RowsTaken
  <2>2. row'[e.step].by # NoOne
    BY <1>1, <1>3, <1>4
  <2>3. row'[e.step] # FreeRow
    BY <1>4, <2>2
  <2>4. CASE timeline'[i].step = e.step
    BY <2>3, <2>4
  <2>5. CASE timeline'[i].step # e.step
    <3>1. i # at /\ timeline'[i] = timeline[i]
      BY <1>2, <2>5
    <3>2. row[timeline[i].step] # FreeRow
      BY <2>1, <3>1 DEF CloudRun, RowsTaken
    <3>3. timeline[i].step \in Step
      <4>1. timeline[i] \in Slot
        BY CloudTypes
      <4>2. timeline[i] \in Event
        BY <2>1, <3>1, <4>1, HoleIsNoEvent DEF Slot, ClaimActions
      <4>3. QED
        BY <2>1, <3>1, <4>2, EventFields DEF StepActions
    <3>4. QED
      BY <1>3, <2>5, <3>1, <3>2, <3>3
  <2>6. QED
    BY <2>4, <2>5
<1>7. OneInitial'
  <2>1. e.action \in InitialKinds =>
           \A i \in 1..Len(timeline) : timeline[i].action \in InitialKinds =>
                                          timeline[i].step # e.step
    <3>1. SUFFICES ASSUME e.action \in InitialKinds, NEW i \in 1..Len(timeline),
                          timeline[i].action \in InitialKinds, timeline[i].step = e.step
                   PROVE  FALSE
      OBVIOUS
    <3>2. row[e.step].by = NoOne
      BY <3>1 DEF WinsRow, InitialKinds, e
    <3>3. row[e.step] # FreeRow
      BY <3>1 DEF CloudRun, RowsTaken, InitialKinds, ClaimActions
    <3>4. QED
      BY <1>1, <1>4, <3>2, <3>3 DEF CloudRun, RowsMatch
  <2>2. QED
    BY <1>2, <2>1 DEF CloudRun, OneInitial
<1>8. TakeoversFollow'
  <2>1. /\ \A i \in 1..Len(timeline) : timeline[i].action = "taken_over" =>
              Evidence(timeline', i, InitialKinds, timeline[i].step)
        /\ \A q \in Procs : command'[q].event.action = "taken_over" =>
              Evidence(timeline', Place(q)', InitialKinds, command'[q].event.step)
    <3>1. \A i \in 1..Len(timeline) : timeline[i].action # "none" => timeline'[i] = timeline[i]
      BY <1>2
    <3>2. QED
      BY <1>2, <1>4, <3>1, FollowsKept
  <2>2. e.action = "taken_over" =>
           e.step \notin NonIdempotent /\ Evidence(timeline', at, InitialKinds, e.step)
    <3>1. SUFFICES ASSUME e.action = "taken_over"
                   PROVE  e.step \notin NonIdempotent /\ Evidence(timeline', at, InitialKinds, e.step)
      OBVIOUS
    <3>2. /\ e.step \notin NonIdempotent /\ e.step = command[p].event.step
          /\ command[p].event.action = "taken_over"
      BY <3>1 DEF CloudRun, RequestsMatch, e
    <3>3. Evidence(timeline, at, InitialKinds, e.step)
      BY <1>1, <3>2 DEF CloudRun, TakeoversFollow
    <3>4. PICK j \in 1..(at - 1) : timeline[j].action \in InitialKinds /\ timeline[j].step = e.step
      BY <3>3 DEF Evidence
    <3>5. timeline'[j] = timeline[j]
      BY <1>2, <1>4
    <3>6. QED
      BY <3>2, <3>4, <3>5 DEF Evidence
  <2>3. ASSUME NEW i \in 1..Len(timeline'), timeline'[i].action = "taken_over"
        PROVE  /\ timeline'[i].step \notin NonIdempotent
               /\ Evidence(timeline', i, InitialKinds, timeline'[i].step)
    <3>1. CASE i = at
      BY <1>2, <2>2, <2>3, <3>1
    <3>2. CASE i # at
      <4>1. i \in 1..Len(timeline) /\ timeline'[i] = timeline[i]
        BY <1>2, <2>3, <3>2
      <4>2. QED
        BY <2>1, <2>3, <4>1 DEF CloudRun, TakeoversFollow
    <3>3. QED
      BY <3>1, <3>2
  <2>4. QED
    BY <2>1, <2>3 DEF TakeoversFollow
<1>9. QED
  BY <1>5, <1>6, <1>7, <1>8 DEF ClaimsSafe

\* Every step of the cloud system keeps the inductive invariant.
LEMMA CloudRunStep ==
    ASSUME CloudRun, NEW p \in Procs, CloudStepOf(p)
    PROVE  CloudRun'
<1>1. Sound' /\ RequestsMatch' /\ CommandsGoOn
  BY CloudSound, RequestsStay, CloudGoesOn
<1>2. CASE ClientStep(p)
  <2>1. ClaimsKept
    BY <1>2, ClientKeeps DEF ClaimsKept
  <2>2. QED
    BY <1>1, <2>1, KeptSafe DEF ClaimsSafe, CloudRun
<1>3. CASE CheckClaim(p)
  <2>1. ClaimsKept
    BY <1>3, CloudTypes DEF CheckClaim, ClaimsKept
  <2>2. QED
    BY <1>1, <2>1, KeptSafe DEF ClaimsSafe, CloudRun
<1>4. CASE BatchClaim(p)
  <2>1. CASE row' = row /\ timeline' = timeline
    <3>1. ClaimsKept
      BY <2>1, CloudTypes DEF ClaimsKept
    <3>2. QED
      BY <1>1, <3>1, KeptSafe DEF ClaimsSafe, CloudRun
  <2>2. CASE /\ WinsRow(request[p])
             /\ timeline' = [timeline EXCEPT ![command[p].at] = request[p]]
             /\ row' = [row EXCEPT ![request[p].step] =
                           [by |-> request[p].agent, at |-> command[p].at]]
    BY <1>1, <1>4, <2>2, BatchCases, WonSafe DEF ClaimsSafe, CloudRun
  <2>3. QED
    BY <1>4, <2>1, <2>2, BatchCases
<1>5. CASE PostEvent(p)
  <2>1. /\ Fills(p, command[p].event) /\ row' = row
        /\ command[p].at > 0 /\ command[p].event.action \notin ClaimActions
    BY <1>5 DEF PostEvent, Fills
  <2>2. ClaimsKept
    <3> DEFINE at == command[p].at
    <3>1. /\ at \in 1..Len(timeline) /\ timeline[at] = Hole
          /\ Len(timeline') = Len(timeline)
          /\ \A i \in 1..Len(timeline) : i # at => timeline'[i] = timeline[i]
          /\ timeline'[at] \in {Hole, command[p].event}
      BY <2>1, CommandsSound, FillChanges DEF CloudRun
    <3>2. timeline[at].action = "none" /\ timeline'[at].action \notin ClaimActions
      BY <2>1, <3>1 DEF Hole, ClaimActions
    <3>3. QED
      BY <2>1, <3>1, <3>2, CloudTypes DEF ClaimsKept
  <2>3. QED
    BY <1>1, <2>2, KeptSafe DEF ClaimsSafe, CloudRun
<1>6. QED
  BY <1>2, <1>3, <1>4, <1>5 DEF CloudStepOf

\* The inductive invariant of the cloud system.
LEMMA CloudRunAlways == CloudSpec => []CloudRun
<1>1. CloudRun /\ [CloudNext]_cloudVars => CloudRun'
  <2>1. ASSUME CloudRun, CloudNext PROVE CloudRun'
    BY <2>1, CloudNextSteps, CloudRunStep DEF CloudRun
  <2>2. ASSUME CloudRun, UNCHANGED cloudVars PROVE CloudRun'
    BY <2>2 DEF cloudVars, CloudRun, Sound, TypeOK, Started, StartedOnce, Current, Stored,
                RequestsMatch, RowsMatch, RowsTaken, OneInitial, TakeoversFollow, Place
  <2>3. QED
    BY <2>1, <2>2
<1>2. QED
  BY <1>1, InitCloudRun, PTL DEF CloudSpec

(***************************************************************************)
(* What the log shows.                                                     *)
(***************************************************************************)
\* The row of a claimed step points at a stored claim of that step by the
\* row's agent: no claim is granted without its audit event (the comment on
\* appendAtomicClaim).
THEOREM RowsAreAudited == CloudSpec => []RowsAudited
<1>1. CloudRun => RowsAudited
  BY DEF CloudRun, RowsMatch, RowsAudited
<1>2. QED
  BY <1>1, CloudRunAlways, PTL

\* Of two stored claims of one step the later one is a takeover.
LEMMA LaterClaimTakesOver ==
    ASSUME CloudRun, NEW i \in 1..Len(Stored), NEW j \in 1..Len(Stored), i < j,
           Stored[i].action \in ClaimActions, Stored[j].action \in ClaimActions,
           Stored[i].step = Stored[j].step
    PROVE  Stored[j].action = "taken_over"
<1>1. PICK at : Places(timeline, at)
  BY CloudTypes, ListingPlaces
<1>2. /\ at[i] \in 1..Len(timeline) /\ at[j] \in 1..Len(timeline) /\ at[i] < at[j]
      /\ timeline[at[i]] = Stored[i] /\ timeline[at[j]] = Stored[j]
  BY <1>1 DEF Places, Stored
<1>3. Stored[j].action # "taken_over" => FALSE
  <2>1. SUFFICES ASSUME Stored[j].action \in InitialKinds PROVE FALSE
    BY DEF InitialKinds, ClaimActions
  <2>2. CASE Stored[i].action \in InitialKinds
    <3>1. at[i] = at[j]
      BY <1>2, <2>1, <2>2 DEF CloudRun, OneInitial
    <3>2. QED
      BY <1>2, <3>1, CloudTypes
  <2>3. CASE Stored[i].action = "taken_over"
    <3>1. Evidence(timeline, at[i], InitialKinds, Stored[i].step)
      BY <1>2, <2>3 DEF CloudRun, TakeoversFollow
    <3>2. PICK m \in 1..(at[i] - 1) : /\ timeline[m].action \in InitialKinds
                                      /\ timeline[m].step = Stored[i].step
      BY <3>1 DEF Evidence
    <3>3. m \in 1..Len(timeline)
      BY <1>2, CloudTypes
    <3>4. m = at[j]
      BY <1>2, <2>1, <3>2, <3>3 DEF CloudRun, OneInitial
    <3>5. QED
      BY <1>2, <3>4, CloudTypes
  <2>4. QED
    BY <2>2, <2>3 DEF InitialKinds, ClaimActions
<1>4. QED
  BY <1>2, <1>3 DEF CloudRun, TakeoversFollow

\* A claim that nobody reported failed stays with its agent until a takeover
\* is recorded (the WHERE of the claim row's update).
THEOREM ClaimKept == CloudSpec => []ClaimKeptUntilTaken
<1>1. CloudRun => ClaimKeptUntilTaken
  BY LaterClaimTakesOver DEF ClaimKeptUntilTaken
<1>2. QED
  BY <1>1, CloudRunAlways, PTL
=============================================================================
