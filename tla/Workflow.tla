------------------------------ MODULE Workflow ------------------------------
(***************************************************************************)
(* One workflow run in the local store, driven by concurrent stl commands  *)
(* and MCP tool calls.  A command lists the run's events and validates     *)
(* (one action), then stamps its own event with created_at (Event::new),   *)
(* then inserts it (insert_event): nothing holds a lock across the three.  *)
(* The projection orders events by stamp, not by insertion, so the store   *)
(* is modelled as the timeline of stamps, a stamp whose event is not       *)
(* stored being a Hole.  The only thing an insert checks is the unique     *)
(* index idx_workflow_initial_claim of migration v4.                       *)
(*                                                                         *)
(* A process may die before its insert commits (Interrupt).                *)
(***************************************************************************)
EXTENDS WorkflowRun

CONSTANTS
    Procs,      \* processes that may run a command at the same time
    Overlap,    \* FALSE: a command starts only when no other one is running
    MaxEvents   \* bound: stamps given out over the life of the run

ASSUME StoreAssumption ==
    /\ Overlap \in BOOLEAN
    /\ MaxEvents \in Nat

VARIABLES
    timeline,   \* the run's stamps in created_at order
    command     \* per process: the event it means to append, and its stamp

vars == <<timeline, command>>

Hole == [action |-> "none", step |-> 0, agent |-> NoOne, approved |-> FALSE]
Idle == [event |-> Hole, at |-> 0]

\* A listing: the events stored, ORDER BY created_at.
Listing(stamps) ==
    LET kept[i \in 0..Len(stamps)] ==
            IF i = 0 THEN << >>
            ELSE IF stamps[i] = Hole THEN kept[i - 1]
            ELSE Append(kept[i - 1], stamps[i])
    IN  kept[Len(stamps)]

Stored  == Listing(timeline)
Current == ProjectRun(Stored)

TypeOK ==
    /\ timeline \in Seq(Event \cup {Hole})
    /\ Len(timeline) <= MaxEvents
    /\ command \in [Procs -> [event : Event \cup {Hole}, at : 0..MaxEvents]]
    /\ \A p \in Procs : LET c == command[p] IN
          /\ c.event = Hole => c = Idle
          /\ c.at > 0 => c.at <= Len(timeline) /\ timeline[c.at] = Hole
    /\ \A p, q \in Procs :
          p # q /\ command[p].at > 0 => command[p].at # command[q].at
    /\ Current \in Run

Init ==
    /\ timeline = << >>
    /\ command = [p \in Procs |-> Idle]

(***************************************************************************)
(* Reading the projection and validating.                                  *)
(***************************************************************************)
MayBegin(p) ==
    /\ command[p] = Idle
    /\ ~Overlap => \A q \in Procs : command[q] = Idle

Begin(p, e) ==
    /\ command' = [command EXCEPT ![p] = [event |-> e, at |-> 0]]
    /\ UNCHANGED timeline

\* The approvals a caller gives; where none is required it does not matter.
Approvals(s) == IF s \in NeedsApproval THEN BOOLEAN ELSE {FALSE}

\* The run's id is known to nobody before its started event is stored, so
\* stamping and inserting it are one step.
Start(p, a) ==
    /\ MayBegin(p)
    /\ ~Found(Current)
    /\ MaxEvents > 0
    /\ timeline' = <<ActionEvent("started", 0, a, FALSE)>>
    /\ UNCHANGED command

\* stl lets the owner repeat its claim; the index then refuses the event.
Claim(p, a, s) ==
    /\ MayBegin(p)
    /\ \E takeover \in BOOLEAN, action \in ClaimActions :
          /\ ClaimIs(Current, s, takeover, a, action)
          /\ Begin(p, ActionEvent(action, s, a, FALSE))

\* shuttle_workflow_step_claim does not say who asks.
ClaimTool(p, a, s) ==
    /\ MayBegin(p)
    /\ \E takeover \in BOOLEAN, action \in ClaimActions :
          /\ ClaimIs(Current, s, takeover, NoOne, action)
          /\ Begin(p, ActionEvent(action, s, a, FALSE))

CompleteStep(p, a, s) ==
    /\ MayBegin(p)
    /\ \E approved \in Approvals(s) :
          /\ CanComplete(Current, s, a, approved)
          /\ Begin(p, ActionEvent("completed_step", s, a, approved))

FailStep(p, a, s) ==
    /\ MayBegin(p)
    /\ CanFail(Current, s, a)
    /\ Begin(p, ActionEvent("failed_step", s, a, FALSE))

Reconcile(p, a, s) ==
    /\ MayBegin(p)
    /\ \E approved \in Approvals(s) :
          /\ CanReconcile(Current, s, approved)
          /\ Begin(p, ActionEvent("reconciled", s, a, approved))

CompleteRun(p, a) ==
    /\ MayBegin(p)
    /\ CanFinish(Current)
    /\ Begin(p, ActionEvent("completed", 0, a, FALSE))

AbortRun(p, a) ==
    /\ MayBegin(p)
    /\ Found(Current)
    /\ Begin(p, ActionEvent("aborted", 0, a, FALSE))

(***************************************************************************)
(* Appending.                                                              *)
(***************************************************************************)
\* Mutant: the stamp is the one the last event took.
Stamp_LastTaken(p) ==
    /\ command[p] # Idle
    /\ command[p].at = 0
    /\ Len(timeline) < MaxEvents
    /\ timeline' = Append(timeline, Hole)
    /\ command' = [command EXCEPT ![p].at = Len(timeline)]

\* Event::new takes created_at; the event is not in the store yet.
Stamp(p) ==
    /\ command[p] # Idle
    /\ command[p].at = 0
    /\ Len(timeline) < MaxEvents
    /\ timeline' = Append(timeline, Hole)
    /\ command' = [command EXCEPT ![p].at = Len(timeline) + 1]

\* Mutant: the index of migration v4 is missing.
ClaimCollides_NoIndex(e) == FALSE

\* idx_workflow_initial_claim: one 'claimed' event per run and step.
ClaimCollides(e) ==
    /\ e.action = "claimed"
    /\ \E i \in DOMAIN timeline : /\ timeline[i].action = "claimed"
                                  /\ timeline[i].step = e.step

\* insert_event in Strict mode: a collision is an error and stores nothing.
Insert(p) ==
    LET c == command[p]
    IN  /\ c.at > 0
        /\ timeline' = IF ClaimCollides(c.event) THEN timeline
                       ELSE [timeline EXCEPT ![c.at] = c.event]
        /\ command' = [command EXCEPT ![p] = Idle]

\* The process dies before its insert commits.  Dying after the stamp leaves
\* the same store as dying before it, so only the latter is enumerated.
Interrupt(p) ==
    /\ command[p] # Idle
    /\ command[p].at = 0
    /\ command' = [command EXCEPT ![p] = Idle]
    /\ UNCHANGED timeline

(***************************************************************************)
(* stl workflow ..., and the shuttle_workflow_* tools: they differ in the  *)
(* claim only.                                                             *)
(***************************************************************************)
WorkflowCommand(p, a) ==
    \/ Start(p, a)
    \/ CompleteRun(p, a)
    \/ AbortRun(p, a)
    \/ \E s \in Step :
          \/ Claim(p, a, s)
          \/ CompleteStep(p, a, s)
          \/ FailStep(p, a, s)
          \/ Reconcile(p, a, s)

ToolCall(p, a) ==
    \/ Start(p, a)
    \/ CompleteRun(p, a)
    \/ AbortRun(p, a)
    \/ \E s \in Step :
          \/ ClaimTool(p, a, s)
          \/ CompleteStep(p, a, s)
          \/ FailStep(p, a, s)
          \/ Reconcile(p, a, s)

Next ==
    \E p \in Procs :
        \/ Stamp(p)
        \/ Insert(p)
        \/ Interrupt(p)
        \/ \E a \in Agents : WorkflowCommand(p, a) \/ ToolCall(p, a)

Spec == Init /\ [][Next]_vars

(***************************************************************************)
(* What holds however commands overlap.                                    *)
(***************************************************************************)
\* Evidence(i, Kinds, s): some event before position i of the log is of one
\* of Kinds and about step s.
Evidence(log, i, kinds, s) ==
    \E j \in 1..(i - 1) : log[j].action \in kinds /\ log[j].step = s

\* Every stored event is preceded, in created_at order, by the events that
\* justify it: a retry by the failure it retries, a takeover by the claim it
\* takes, a reconciliation by the takeover it settles.  The validators read
\* the log long before the event gets its place in it.
EventsHaveCause ==
    LET log == Stored IN
    \A i \in DOMAIN log : LET e == log[i] IN
        /\ e.action = "reclaimed"  => Evidence(log, i, {"failed_step"}, e.step)
        /\ e.action = "taken_over" => Evidence(log, i, ClaimActions, e.step)
        /\ e.action = "reconciled" => /\ e.step \in NonIdempotent
                                      /\ Evidence(log, i, {"taken_over"}, e.step)

\* Only an agent that claimed a step itself reports its completion or its
\* failure, even when claims and takeovers of others are on their way
\* (validate_complete, the owner check of the fail handlers).
FinishFollowsOwnClaim ==
    LET log == Stored IN
    \A i \in DOMAIN log :
        log[i].action \in {"completed_step", "failed_step"} =>
            \E j \in 1..(i - 1) : /\ log[j].action \in ClaimActions
                                  /\ log[j].step = log[i].step
                                  /\ log[j].agent = log[i].agent

\* A step is claimed only after every earlier step was completed or
\* reconciled, with approval where the manifest asks for it, and a run is
\* completed only after every step was: the order of validate_claim survives
\* stale reads.
OrderedProgress ==
    LET log == Stored
        Done(s, i) == \E j \in 1..(i - 1) :
                         /\ log[j].action \in {"completed_step", "reconciled"}
                         /\ log[j].step = s
                         /\ Approved(s, log[j].approved)
    IN  \A i \in DOMAIN log :
           /\ log[i].action \in ClaimActions =>
                 \A s \in 1..(log[i].step - 1) : Done(s, i)
           /\ log[i].action = "completed" => \A s \in Step : Done(s, i)

\* Two claims that saw the same pending step never both succeed: the log has
\* one initial claim of a step, and it precedes all other events of the step,
\* so the agent told "claimed" was the first owner.
FirstClaimIsFirst ==
    LET log == Stored IN
    \A i, j \in DOMAIN log :
        /\ log[i].action = "claimed"
        /\ log[j].action \in StepActions
        /\ log[j].step = log[i].step
        => i <= j

\* Whatever races and interruptions made of an open run, once no command is
\* running every agent has a command that moves it on: one that validates
\* and whose event the unique index lets in.  (A failed step could not be
\* reclaimed before 'reclaimed' was told apart from 'claimed'.)
Resumable ==
    LET run == Current
        MovesOn(a, s) ==
            \/ \E takeover \in BOOLEAN, action \in ClaimActions :
                  /\ ClaimIs(run, s, takeover, a, action)
                  /\ ~ClaimCollides(ActionEvent(action, s, a, FALSE))
            \/ CanComplete(run, s, a, TRUE)
            \/ CanReconcile(run, s, TRUE)
    IN  (\A p \in Procs : command[p] = Idle) /\ Open(run) =>
            CanFinish(run) \/ \A a \in Agents : \E s \in Step : MovesOn(a, s)

(***************************************************************************)
(* What holds when commands do not overlap.                                *)
(***************************************************************************)
\* Steps before the expected one are completed and steps after it untouched.
StepsInOrder ==
    LET steps == Current.steps IN
    \A s, t \in Step :
        s < t /\ steps[t].status # "pending" => steps[s].status = "completed"

\* The run's status tells what its steps need: failed and needs_reconcile
\* name a step in that state, completed means every step is, and an open run
\* does not hide such a step.  Aborting and then finishing a step must not
\* break it.
StatusAgreesWithSteps ==
    LET run == Current
        SomeStep(st) == \E s \in Step : run.steps[s].status = st
    IN  /\ run.status = "completed" => CanFinish(run)
        /\ run.status \in {"failed", "needs_reconcile"} => SomeStep(run.status)
        /\ run.status = "active" => ~SomeStep("failed") /\ ~SomeStep("needs_reconcile")

\* README: taking over a claimed non_idempotent step changes its status to
\* needs_reconcile, so that its operation is inspected and not repeated.  A
\* non-idempotent step that is claimed is therefore claimed by an agent that
\* did not get it by takeover.
NonIdempotentNotRepeated ==
    LET log == Stored
        IsLastClaim(i) == /\ log[i].action \in ClaimActions
                          /\ \A j \in (i + 1)..Len(log) :
                                log[j].action \in ClaimActions =>
                                    log[j].step # log[i].step
    IN  \A i \in DOMAIN log :
            /\ IsLastClaim(i)
            /\ log[i].step \in NonIdempotent
            /\ Current.steps[log[i].step].status = "claimed"
            => log[i].action # "taken_over"

\* A completed step stays completed: no command takes, fails or reconciles it
\* again, whatever happens to the run.
CompletedStepsStay ==
    [][\A s \in Step : Current.steps[s].status = "completed" =>
                           Current'.steps[s].status = "completed"]_vars
=============================================================================
