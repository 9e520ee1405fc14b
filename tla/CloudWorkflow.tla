--------------------------- MODULE CloudWorkflow ---------------------------
(***************************************************************************)
(* One workflow run in cloud-first mode.  stl validates as it does on the  *)
(* local store (module Workflow), on a listing of the gateway's events,    *)
(* and sends its event over HTTP (CloudEventStore.append_json): a claim to *)
(* the claim endpoint, anything else to the event endpoint, which checks   *)
(* nothing.  The claim endpoint computes the step states itself, with      *)
(* rules of its own (workflowStepStates), validates, and only then runs    *)
(* the batch on the claim row (appendAtomicClaim), so it too decides on    *)
(* events that others may have outdated.  What it answers is the subject   *)
(* of AtomicClaim and left out here.                                       *)
(*                                                                         *)
(* An event's id is its place in the timeline.  A request that is lost, or *)
(* a worker that ends before its batch, leaves what Interrupt leaves.  The *)
(* token of a client is taken to be that of its agent.                     *)
(*                                                                         *)
(* Two of the client's commands have no disjunct of their own.  Reconcile  *)
(* needs a step in needs_reconcile, and no takeover of a non-idempotent    *)
(* step is ever stored (see WorkerAccepts), so it never validates.         *)
(* ClaimTool validates as Claim does for a caller that claimed nothing, so *)
(* each of its steps is one of Claim.                                      *)
(***************************************************************************)
EXTENDS Workflow

CONSTANTS
    WorkspaceId,   \* the id the gateway gave the client's workspace row
    ListedAs       \* the workspace_id the client's listings ask for

VARIABLES
    row,       \* workflow_step_claims: owner and claim_event_id of each step
    request    \* per process: the claim event the worker is about to batch

cloudVars == <<timeline, command, row, request>>

FreeRow == [by |-> NoOne, at |-> 0]

CloudInit ==
    /\ Init
    /\ row = [s \in Step |-> FreeRow]
    /\ request = [p \in Procs |-> Hole]

(***************************************************************************)
(* The client.                                                             *)
(***************************************************************************)
\* The run a listing yields.  CloudEventStore stores every event under the
\* id ensure_workspace got from the gateway.
ListedRun == IF ListedAs = WorkspaceId THEN Current ELSE Unstarted

\* A client command; all but the start look the run up first.
Command(p, a) ==
    /\ \/ Start(p, a)
       \/ /\ Found(ListedRun)
          /\ \/ CompleteRun(p, a)
             \/ AbortRun(p, a)
             \/ \E s \in Step :
                   \/ Claim(p, a, s)
                   \/ CompleteStep(p, a, s)
                   \/ FailStep(p, a, s)
    /\ UNCHANGED <<row, request>>

(***************************************************************************)
(* The worker's own projection, workflowStepStates.                        *)
(***************************************************************************)
WorkerApply(run, e) ==
    LET Set(st, by) == [run EXCEPT !.steps[e.step] = [status |-> st, by |-> by]]
    IN  CASE e.action = "started" -> [Unstarted EXCEPT !.status = "active"]
          [] e.action \in {"completed", "aborted"} ->
                [run EXCEPT !.status = e.action]
          [] e.action = "taken_over" /\ e.step \in NonIdempotent ->
                Set("needs_reconcile", e.agent)
          [] e.action \in ClaimActions -> Set("claimed", e.agent)
          [] e.action \in {"completed_step", "reconciled"} -> Set("completed", NoOne)
          [] e.action = "failed_step" ->
                [Set("failed", e.agent) EXCEPT !.status = "failed"]
          [] OTHER -> run

WorkerRun ==
    LET log == Stored
        run[i \in 0..Len(log)] ==
            IF i = 0 THEN Unstarted ELSE WorkerApply(run[i - 1], log[i])
    IN  run[Len(log)]

\* The conditions of claimWorkflowStepService.
WorkerAccepts(run, s, takeover) ==
    /\ run.status \notin {"unstarted", "completed", "aborted"}
    /\ IsExpected(run, s)
    /\ run.steps[s].status # "needs_reconcile"
    /\ takeover => run.steps[s].status = "claimed" /\ s \notin NonIdempotent

\* What it records the claim as.
WorkerAction(run, s, takeover) ==
    IF run.steps[s].status = "failed" THEN "reclaimed"
    ELSE IF takeover THEN "taken_over" ELSE "claimed"

(***************************************************************************)
(* The worker's endpoints.                                                 *)
(***************************************************************************)
\* claimWorkflowStepService up to the batch.
CheckClaim(p) ==
    LET e == command[p].event
        takeover == e.action = "taken_over"
    IN  /\ command[p].at > 0
        /\ e.action \in ClaimActions
        /\ request[p] = Hole
        /\ IF WorkerAccepts(WorkerRun, e.step, takeover)
           THEN /\ request' = [request EXCEPT ![p] =
                       ActionEvent(WorkerAction(WorkerRun, e.step, takeover),
                                   e.step, e.agent, FALSE)]
                /\ UNCHANGED command
           ELSE /\ command' = [command EXCEPT ![p] = Idle]
                /\ UNCHANGED request
        /\ UNCHANGED <<timeline, row>>

\* Mutant: only a takeover looks at who has the row.
WinsRow_Free(e) == e.action = "taken_over" => row[e.step].by # e.agent

\* The WHERE of the UPDATE.
WinsRow(e) ==
    \/ row[e.step].by = NoOne
    \/ e.action = "taken_over" /\ row[e.step].by # e.agent

\* Mutant: the row is taken before the event is known to be stored.
BatchClaim_RowOnly(p) ==
    LET e == request[p]
        mine == [by |-> e.agent, at |-> command[p].at]
    IN  /\ e # Hole
        /\ row' = IF WinsRow(e) THEN [row EXCEPT ![e.step] = mine] ELSE row
        /\ command' = [command EXCEPT ![p] = Idle]
        /\ request' = [request EXCEPT ![p] = Hole]
        /\ UNCHANGED timeline

\* appendAtomicClaim: the row, and the event if the row is now its own.
BatchClaim(p) ==
    LET e == request[p]
        mine == [by |-> e.agent, at |-> command[p].at]
    IN  /\ e # Hole
        /\ row' = IF WinsRow(e) THEN [row EXCEPT ![e.step] = mine] ELSE row
        /\ timeline' = IF row'[e.step] = mine
                       THEN [timeline EXCEPT ![command[p].at] = e] ELSE timeline
        /\ command' = [command EXCEPT ![p] = Idle]
        /\ request' = [request EXCEPT ![p] = Hole]

\* Every other event goes to appendEventService, which stores it as it is.
PostEvent(p) ==
    LET c == command[p]
    IN  /\ c.at > 0
        /\ c.event.action \notin ClaimActions
        /\ timeline' = [timeline EXCEPT ![c.at] = c.event]
        /\ command' = [command EXCEPT ![p] = Idle]
        /\ UNCHANGED <<row, request>>

CloudNext ==
    \E p \in Procs :
        \/ \E a \in Agents : Command(p, a)
        \/ Stamp(p) /\ UNCHANGED <<row, request>>
        \/ Interrupt(p) /\ UNCHANGED <<row, request>>
        \/ CheckClaim(p)
        \/ BatchClaim(p)
        \/ PostEvent(p)

CloudSpec == CloudInit /\ [][CloudNext]_cloudVars

(***************************************************************************)
(* Properties                                                              *)
(***************************************************************************)
\* A claimed row has its audit event in the log: of that step, that agent,
\* and recorded as a kind of claim (the comment on appendAtomicClaim).
RowsAudited ==
    \A s \in Step : row[s] # FreeRow =>
        LET e == timeline[row[s].at]
        IN  e.action \in ClaimActions /\ e.step = s /\ e.agent = row[s].by

\* A claim that nobody reported failed stays with its agent until a takeover
\* is recorded, though the endpoint validates before the batch and stl long
\* before that: no second claim slips in between.
ClaimKeptUntilTaken ==
    LET log == Stored IN
    \A i, j \in DOMAIN log :
        /\ i < j
        /\ {log[i].action, log[j].action} \subseteq ClaimActions
        /\ log[i].step = log[j].step
        /\ \A k \in i..j : ~(log[k].action = "failed_step" /\ log[k].step = log[i].step)
        => log[j].action = "taken_over"

\* The endpoint would grant this claim if it were sent now: its own rules
\* accept it and its batch wins the row.
Grants(a, s, takeover) ==
    LET run == WorkerRun
    IN  /\ WorkerAccepts(run, s, takeover)
        /\ WinsRow(ActionEvent(WorkerAction(run, s, takeover), s, a, FALSE))

\* README: when another agent assumes an interrupted step, it claims it with
\* --takeover, and a claimed non_idempotent step then needs reconciliation.
\* With no command under way, the takeover that the client's rules grant to
\* another agent is granted by the endpoint.
TakeoverIsGranted ==
    (\A p \in Procs : command[p] = Idle) =>
        \A a \in Agents, s \in Step :
            /\ ClaimIs(ListedRun, s, TRUE, a, "taken_over")
            /\ ListedRun.steps[s].by # a
            => Grants(a, s, TRUE)

\* CHANGES: a failed step can be claimed again.  With no command under way,
\* the retry that the client's rules grant is granted by the endpoint.
RetryIsGranted ==
    (\A p \in Procs : command[p] = Idle) =>
        \A a \in Agents, s \in Step :
            ClaimIs(ListedRun, s, FALSE, a, "reclaimed") => Grants(a, s, FALSE)

\* README: the gateway is the authoritative event store.  A run whose start
\* it stored is the run the client's next command finds.
StartedRunIsFound == ListedRun = Current
=============================================================================
