---------------------------- MODULE WorkflowRun ----------------------------
(***************************************************************************)
(* The workflow run as src/src/workflow.rs computes it: a run is never     *)
(* stored, every command rebuilds it by folding the run's events in        *)
(* (created_at, id) order (project_runs, apply_action) and then asks one   *)
(* of the validators whether the command may append its own event.  This   *)
(* module holds those pure functions; Workflow and CloudWorkflow hold the  *)
(* stores the events live in.                                              *)
(*                                                                         *)
(* Left out: titles, spec paths, inputs, outputs and timestamps of the     *)
(* projection (no validator reads them).  Steps are numbered in manifest   *)
(* order; their ids are unique (validate_manifest).                        *)
(***************************************************************************)
EXTENDS Naturals, Sequences

CONSTANTS
    Agents,         \* names agents sign events with (RuntimeEnv.agent)
    NoOne,          \* claimed_by = None; the caller of an MCP claim
    NumSteps,       \* steps of the workflow, at least one
    NonIdempotent,  \* the steps of kind non_idempotent
    NeedsApproval   \* the steps with approval_required

Step == 1..NumSteps

ASSUME ManifestAssumption ==
    /\ NumSteps \in Nat \ {0}
    /\ NonIdempotent \subseteq Step
    /\ NeedsApproval \subseteq Step
    /\ NoOne \notin Agents

StepStatus == {"pending", "claimed", "completed", "failed", "needs_reconcile"}
RunStatus  == {"unstarted", "active", "needs_reconcile", "failed",
               "completed", "aborted"}
ClaimActions == {"claimed", "reclaimed", "taken_over"}
StepActions  == ClaimActions \cup {"completed_step", "failed_step", "reconciled"}

\* A workflow event; those of the run as a whole carry step 0, and approved
\* says whether the value holds approval evidence.
Event == [action : StepActions, step : Step, agent : Agents, approved : BOOLEAN]
         \cup [action : {"started", "completed", "aborted"},
               step : {0}, agent : Agents, approved : BOOLEAN]

ActionEvent(action, s, a, approved) ==
    [action |-> action, step |-> s, agent |-> a, approved |-> approved]

Run == [status : RunStatus,
        steps  : [Step -> [status : StepStatus, by : Agents \cup {NoOne}]]]

\* A run of which no started event is stored: workflow::run does not find it.
Unstarted ==
    [status |-> "unstarted",
     steps  |-> [s \in Step |-> [status |-> "pending", by |-> NoOne]]]

(***************************************************************************)
(* apply_action, one operator per event kind.                              *)
(***************************************************************************)
\* Mutant: a takeover of a non-idempotent step is a claim like any other.
ApplyClaim_NeverReconcile(run, e) ==
    [run EXCEPT !.status = IF @ = "failed" THEN "active" ELSE @,
                !.steps[e.step] = [status |-> "claimed", by |-> e.agent]]

\* Mutant: retrying a failed step leaves the run failed.
ApplyClaim_StaysFailed(run, e) ==
    LET interrupted == /\ e.action = "taken_over"
                       /\ run.steps[e.step].status = "claimed"
                       /\ e.step \in NonIdempotent
        status == IF interrupted THEN "needs_reconcile" ELSE "claimed"
    IN  [run EXCEPT !.status = IF interrupted THEN status ELSE @,
                    !.steps[e.step] = [status |-> status, by |-> e.agent]]

ApplyClaim(run, e) ==
    LET interrupted == /\ e.action = "taken_over"
                       /\ run.steps[e.step].status = "claimed"
                       /\ e.step \in NonIdempotent
    IN  IF interrupted
        THEN [run EXCEPT !.status = "needs_reconcile",
                         !.steps[e.step] = [status |-> "needs_reconcile",
                                            by |-> e.agent]]
        ELSE [run EXCEPT !.status = IF @ = "failed" THEN "active" ELSE @,
                         !.steps[e.step] = [status |-> "claimed",
                                            by |-> e.agent]]

ApplyAction(run, e) ==
    CASE e.action = "started"      -> [Unstarted EXCEPT !.status = "active"]
      [] e.action \in ClaimActions -> ApplyClaim(run, e)
      [] e.action \in {"completed_step", "reconciled"} ->
            [run EXCEPT !.status = "active",
                        !.steps[e.step].status = "completed"]
      [] e.action = "failed_step"  ->
            [run EXCEPT !.status = "failed",
                        !.steps[e.step].status = "failed"]
      [] e.action \in {"completed", "aborted"} ->
            [run EXCEPT !.status = e.action]

\* project_runs, for the events of one run in (created_at, id) order.
ProjectRun(events) ==
    LET run[i \in 0..Len(events)] ==
            IF i = 0 THEN Unstarted ELSE ApplyAction(run[i - 1], events[i])
    IN  run[Len(events)]

(***************************************************************************)
(* The validators.                                                         *)
(***************************************************************************)
Found(run) == run.status # "unstarted"
Open(run)  == run.status \in {"active", "failed", "needs_reconcile"}

\* Mutant: any step that is not completed may be claimed.
IsExpected_AnyOpen(run, s) == run.steps[s].status # "completed"

\* The step a claim must name: the first one not completed.
IsExpected(run, s) ==
    /\ run.steps[s].status # "completed"
    /\ \A t \in 1..(s - 1) : run.steps[t].status = "completed"

\* Mutant: retrying a failed step is recorded as an initial claim.
ClaimIs_RetryAsClaimed(run, s, takeover, caller, action) ==
    LET step == run.steps[s]
    IN  /\ Open(run)
        /\ IsExpected(run, s)
        /\ \/ /\ step.status \in {"pending", "failed"}
              /\ ~takeover /\ action = "claimed"
           \/ step.status = "claimed" /\ takeover /\ action = "taken_over"

\* Mutant: a step nobody claimed can be taken over.
ClaimIs_TakeUnclaimed(run, s, takeover, caller, action) ==
    /\ Open(run)
    /\ IsExpected(run, s)
    /\ run.steps[s].status # "needs_reconcile"
    /\ action = IF takeover THEN "taken_over"
                ELSE IF run.steps[s].status = "failed" THEN "reclaimed"
                ELSE "claimed"

\* validate_claim_for_agent: action is what the claim is recorded as; caller
\* is the CLI's agent, or NoOne for the MCP tool, which calls validate_claim.
ClaimIs(run, s, takeover, caller, action) ==
    LET step == run.steps[s]
    IN  /\ Open(run)
        /\ IsExpected(run, s)
        /\ \/ step.status = "pending" /\ ~takeover /\ action = "claimed"
           \/ step.status = "failed"  /\ ~takeover /\ action = "reclaimed"
           \/ step.status = "claimed" /\ takeover  /\ action = "taken_over"
           \/ /\ step.status = "claimed" /\ ~takeover
              /\ step.by = caller
              /\ action = "claimed"

Approved(s, approved) == s \in NeedsApproval => approved

\* Mutant: the owner of the claim is not compared.
CanComplete_AnyAgent(run, s, a, approved) ==
    run.steps[s].status = "claimed" /\ Approved(s, approved)

\* validate_complete
CanComplete(run, s, a, approved) ==
    /\ run.steps[s].status = "claimed"
    /\ run.steps[s].by = a
    /\ Approved(s, approved)

\* Mutant: the fail handlers compare the owner and not the status.
CanFail_AnyStatus(run, s, a) == run.steps[s].by = a

\* validate_step_claimed and the owner check of the fail handlers
CanFail(run, s, a) ==
    /\ run.steps[s].status = "claimed"
    /\ run.steps[s].by = a

\* validate_reconcile
CanReconcile(run, s, approved) ==
    /\ run.steps[s].status = "needs_reconcile"
    /\ Approved(s, approved)

\* Mutant: a run is complete when one step is.
CanFinish_OneStep(run) ==
    Found(run) /\ \E s \in Step : run.steps[s].status = "completed"

\* validate_run_complete
CanFinish(run) ==
    Found(run) /\ \A s \in Step : run.steps[s].status = "completed"
=============================================================================
