------------------------------- MODULE Board -------------------------------
(***************************************************************************)
(* The coordination board of local mode: tasks, handoffs, messages and     *)
(* collaborations as events of one append-only log per repository, written *)
(* by stl commands and by the MCP and HTTP servers of a repository, read   *)
(* through projections (src/src/task.rs, collab.rs, message.rs), and       *)
(* carried between repositories by stl mesh (src/src/mesh.rs).             *)
(*                                                                         *)
(* A command or tool checks what it refers to, stamps its events           *)
(* (Event::new) and appends them one by one; a mesh command imports a list *)
(* of events one by one.  Either may be killed in between.  Checks and     *)
(* stamps share a step, because nothing that exists ever disappears.       *)
(*                                                                         *)
(* An event's id is its place in the order of (created_at, id).  All       *)
(* repositories share a clock: the databases of a mesh sync are files of   *)
(* one machine.  A database may be there before its workspace.json: the    *)
(* first command makes the one and the next command the other, and what a  *)
(* mesh sync brings in between keeps its workspace.  (How that file comes  *)
(* about is in Knowledge.)  Contents, tags and repository metadata are     *)
(* left out; a task's content is the id of the event that gave it.         *)
(***************************************************************************)
EXTENDS Naturals, Sequences, FiniteSets, SequencesExt

CONSTANTS
    Repo,        \* repositories, each with a database
    Used,        \* those in which commands have run before
    Proc,        \* agents, each with its stl commands or its server
    Home,        \* the repository an agent works in
    Served,      \* agents behind an MCP or HTTP server
    Syncing,     \* agents that run stl mesh
    InboxLimit,  \* the default limit of a listing
    MaxClock,    \* bound: events
    MaxFails,    \* bound: killed commands
    None

ASSUME BoardAssumption ==
    /\ IsFiniteSet(Proc)
    /\ Used \subseteq Repo
    /\ Home \in [Proc -> Repo]
    /\ Served \subseteq Proc
    /\ Syncing \subseteq Proc
    /\ InboxLimit \in Nat \ {0}
    /\ MaxClock \in Nat
    /\ MaxFails \in Nat

VARIABLES
    clock,      \* stamps given out
    workspace,  \* when the workspace.json of each repository was made
    store,      \* the events of each database
    queue,      \* what each process still has to insert, and where
    shown,      \* what stl inbox --watch of each agent has printed
    fails

vars == <<clock, workspace, store, queue, shown, fails>>

\* The repositories that have a workspace.json, and those that have had it for as
\* long as their database.
named == {r \in Repo : workspace[r] # "none"}
Settled == {r \in Repo : workspace[r] = "early"}

\* The workspace id of a repository stands for its name, and "ref" for the
\* task or handoff an event is about (the event itself when it opens one).
Event == [id : 1..MaxClock, ws : Repo, type : {"task", "handoff", "message"},
          action : {"created", "claimed", "updated", "completed",
                    "requested", "accepted", "sent"},
          agent : Proc, ref : 1..MaxClock, to : Proc \cup {None}]

Insertion == [repo : Repo, event : Event]

TypeOK ==
    /\ clock \in 0..MaxClock
    /\ workspace \in [Repo -> {"early", "none", "late"}]
    /\ store \in [Repo -> SUBSET Event]
    /\ \A r \in Repo : \A e \in store[r] : e.id <= clock
    /\ queue \in [Proc -> Seq(Insertion)]
    /\ shown \in [Proc -> SUBSET (1..clock)]
    /\ fails \in 0..MaxFails

Init ==
    /\ clock = 0
    /\ workspace \in {w \in [Repo -> {"early", "none"}] : \A r \in Used : w[r] = "early"}
    /\ store = [r \in Repo |-> {}]
    /\ queue = [p \in Proc |-> <<>>]
    /\ shown = [p \in Proc |-> {}]
    /\ fails = 0

(***************************************************************************)
(* Listings and projections                                                *)
(***************************************************************************)
Ids(S) == {e.id : e \in S}
Newest(n, S) == {e \in S : Cardinality({f \in S : f.id > e.id}) < n}
Latest(S) == CHOOSE e \in S : \A f \in S : f.id <= e.id

Listed(r, type) == {e \in store[r] : e.ws = r /\ e.type = type}

\* What happened to a task or handoff, for a projection that reads its events
\* in order and passes over those before the one that opens it.
Moves(S, x, actions) == {e \in S : e.ref = x /\ e.id >= x /\ e.action \in actions}

Opened(r, type, action) == {e.id : e \in {f \in Listed(r, type) : f.action = action}}

\* Mutant: any claim counts, whenever it was made.
TaskSummary_ClaimWins(r, t) ==
    LET of(actions) == Moves(Listed(r, "task"), t, actions)
        claims == of({"claimed"})
    IN  [status |-> IF claims # {} THEN "claimed" ELSE Latest(of({"created", "completed"})).action,
         claimed_by |-> IF claims = {} THEN None ELSE Latest(claims).agent,
         content |-> Latest(of({"created", "updated"})).id]

TaskSummary(r, t) ==
    LET of(actions) == Moves(Listed(r, "task"), t, actions)
        claims == of({"claimed"})
    IN  [status |-> Latest(of({"created", "claimed", "completed"})).action,
         claimed_by |-> IF claims = {} THEN None ELSE Latest(claims).agent,
         content |-> Latest(of({"created", "updated"})).id]

Tasks(r) == [t \in Opened(r, "task", "created") |-> TaskSummary(r, t)]

HandoffSummary(r, h) ==
    LET of(actions) == Moves(Listed(r, "handoff"), h, actions)
        accepts == of({"accepted"})
    IN  [status |-> Latest(of({"requested", "accepted", "completed"})).action,
         accepted_by |-> IF accepts = {} THEN None ELSE Latest(accepts).agent]

Handoffs(r) == [h \in Opened(r, "handoff", "requested") |-> HandoffSummary(r, h)]

\* message::inbox reads two listings, of any workspace.
Addressed(r, a, type) == {e \in store[r] : e.type = type /\ e.to = a}
Inbox(r, a) ==
    Newest(InboxLimit, Addressed(r, a, "message")) \cup
    Newest(InboxLimit, Addressed(r, a, "handoff"))

(***************************************************************************)
(* Events                                                                  *)
(***************************************************************************)
New(p, n, type, action, ref, to) ==
    [id |-> clock + n, ws |-> Home[p], type |-> type, action |-> action,
     agent |-> p, ref |-> ref, to |-> to]

NewTask(p, n) == New(p, n, "task", "created", clock + n, None)
NewClaim(p, t) == New(p, 1, "task", "claimed", t, None)
NewTaskUpdate(p, n, t) == New(p, n, "task", "updated", t, None)
NewTaskDone(p, t) == New(p, 1, "task", "completed", t, None)
NewHandoff(p, n, to) == New(p, n, "handoff", "requested", clock + n, to)
NewHandoffAccept(p, h) == New(p, 1, "handoff", "accepted", h, None)
NewHandoffDone(p, h) == New(p, 1, "handoff", "completed", h, None)
NewMessage(p, n, to) == New(p, n, "message", "sent", clock + n, to)

\* The task first, then a message to every other agent named.
StartEvents(p, agents) ==
    LET others == SetToSeq(agents \ {p})
    IN  <<NewTask(p, 1)>> \o [i \in DOMAIN others |-> NewMessage(p, i + 1, others[i])]

\* The handoff is stamped first and stored last.  It names the task as data,
\* not as the handoff it is about.
PassEvents(p, t, to) == <<NewTaskUpdate(p, 2, t), NewHandoff(p, 1, to)>>

(***************************************************************************)
(* Commands                                                                *)
(***************************************************************************)
\* RuntimeEnv::load of the first process that finds the database.
CreateWorkspace(r) ==
    /\ r \notin named
    /\ workspace' = [workspace EXCEPT ![r] = "late"]
    /\ UNCHANGED <<clock, store, queue, shown, fails>>

\* Mutant: one stamp for all events of a command.
AppendEvents_OneTick(p, events) ==
    /\ queue[p] = <<>> /\ Home[p] \in named
    /\ clock + Len(events) <= MaxClock
    /\ clock' = clock + 1
    /\ queue' = [queue EXCEPT ![p] =
           [i \in DOMAIN events |-> [repo |-> Home[p], event |-> events[i]]]]
    /\ UNCHANGED <<workspace, store, shown, fails>>

AppendEvents(p, events) ==
    /\ queue[p] = <<>> /\ Home[p] \in named
    /\ clock + Len(events) <= MaxClock
    /\ clock' = clock + Len(events)
    /\ queue' = [queue EXCEPT ![p] =
           [i \in DOMAIN events |-> [repo |-> Home[p], event |-> events[i]]]]
    /\ UNCHANGED <<workspace, store, shown, fails>>

EnsureTaskExists(p, t) == t \in DOMAIN Tasks(Home[p])
EnsureHandoffExists(p, h) == h \in DOMAIN Handoffs(Home[p])

CreateTask(p) == AppendEvents(p, <<NewTask(p, 1)>>)
ClaimTask(p, t) == EnsureTaskExists(p, t) /\ AppendEvents(p, <<NewClaim(p, t)>>)
UpdateTask(p, t) == EnsureTaskExists(p, t) /\ AppendEvents(p, <<NewTaskUpdate(p, 1, t)>>)
CompleteTask(p, t) == EnsureTaskExists(p, t) /\ AppendEvents(p, <<NewTaskDone(p, t)>>)
RequestHandoff(p, to) == AppendEvents(p, <<NewHandoff(p, 1, to)>>)
AcceptHandoff(p, h) == EnsureHandoffExists(p, h) /\ AppendEvents(p, <<NewHandoffAccept(p, h)>>)
CompleteHandoff(p, h) == EnsureHandoffExists(p, h) /\ AppendEvents(p, <<NewHandoffDone(p, h)>>)
SendMessage(p, to) == AppendEvents(p, <<NewMessage(p, 1, to)>>)
StartCollab(p, agents) == AppendEvents(p, StartEvents(p, agents))
PassTask(p, t, to) == EnsureTaskExists(p, t) /\ AppendEvents(p, PassEvents(p, t, to))

TaskCommand(p) ==
    \/ CreateTask(p)
    \/ \E t \in 1..MaxClock : ClaimTask(p, t) \/ UpdateTask(p, t) \/ CompleteTask(p, t)

HandoffCommand(p) ==
    \/ \E to \in Proc \ {p} : RequestHandoff(p, to)
    \/ \E h \in 1..MaxClock : AcceptHandoff(p, h) \/ CompleteHandoff(p, h)

\* A nudge is a message.
CollabCommand(p) ==
    \/ \E agents \in SUBSET Proc \ {{}} : StartCollab(p, agents)
    \/ \E to \in Proc \ {p} : SendMessage(p, to)
    \/ \E t \in 1..MaxClock, to \in Proc \ {p} : PassTask(p, t, to)

Command(p) == TaskCommand(p) \/ HandoffCommand(p) \/ CollabCommand(p)

\* The MCP server has a tool for each of these commands; the pages of the HTTP
\* app neither claim nor hand off.
TaskTool(p) == TaskCommand(p)
HandoffTool(p) == HandoffCommand(p)
CollabTool(p) == CollabCommand(p)
ToolCall(p) == TaskTool(p) \/ HandoffTool(p) \/ CollabTool(p)

AppRequest(p) ==
    \/ CreateTask(p)
    \/ \E t \in 1..MaxClock : UpdateTask(p, t) \/ CompleteTask(p, t)

(***************************************************************************)
(* Mesh                                                                    *)
(***************************************************************************)
\* Mutant: an imported event keeps its workspace.
ForWorkspace_Keep(e, r) == e
ForWorkspace(e, r) == [e EXCEPT !.ws = r]

\* Mutant: the default limit of a listing.
AllEvents_DefaultLimit(r) == Newest(InboxLimit, store[r])

\* all_events: the listing without a limit.
AllEvents(r) == store[r]

NewestFirst(S) ==
    [i \in 1..Cardinality(S) |->
        CHOOSE e \in S : Cardinality({f \in S : f.id > e.id}) = i - 1]

\* What is there already when the listing is read is left out of the imports:
\* it is skipped when its turn comes, and nothing is ever removed.
Missing(events, r) == NewestFirst({e \in events : e.id \notin Ids(store[r])})

\* A peer without a workspace.json gets the events as they are.
Imports(new, r) == [i \in DOMAIN new |->
    [repo |-> r, event |-> IF r \in named THEN ForWorkspace(new[i], r) ELSE new[i]]]

\* Both listings, newest event first, are read before the first insert.
SyncMesh(p, peer) ==
    /\ queue[p] = <<>> /\ Home[p] \in named /\ peer # Home[p]
    /\ queue' = [queue EXCEPT ![p] =
           Imports(Missing(AllEvents(peer), Home[p]), Home[p]) \o
           Imports(Missing(AllEvents(Home[p]), peer), peer)]
    /\ UNCHANGED <<clock, workspace, store, shown, fails>>

\* An archive of another repository, oldest event first.  That the file may be
\* old when it is read is the delay of the inserts.
ImportArchive(p, peer) ==
    /\ queue[p] = <<>> /\ Home[p] \in named /\ peer # Home[p]
    /\ queue' = [queue EXCEPT ![p] =
           Imports(Reverse(Missing(AllEvents(peer), Home[p])), Home[p])]
    /\ UNCHANGED <<clock, workspace, store, shown, fails>>

MeshCommand(p) == \E peer \in Repo : SyncMesh(p, peer) \/ ImportArchive(p, peer)

(***************************************************************************)
(* One insert, the end of a process, and the watched inbox                 *)
(***************************************************************************)
\* A new event's id is new; append_if_absent ignores one that is there.
InsertEvent(S, e) == IF e.id \in Ids(S) THEN S ELSE S \cup {e}

Insert(p) ==
    /\ queue[p] # <<>>
    /\ LET first == Head(queue[p])
       IN  store' = [store EXCEPT ![first.repo] = InsertEvent(@, first.event)]
    /\ queue' = [queue EXCEPT ![p] = Tail(@)]
    /\ UNCHANGED <<clock, workspace, shown, fails>>

Kill(p) ==
    /\ queue[p] # <<>>
    /\ fails < MaxFails
    /\ fails' = fails + 1
    /\ queue' = [queue EXCEPT ![p] = <<>>]
    /\ UNCHANGED <<clock, workspace, store, shown>>

\* Mutant: only what is newer than everything printed.
PollInbox_AfterNewest(a) ==
    /\ Home[a] \in named
    /\ shown' = [shown EXCEPT ![a] =
           @ \cup {i \in Ids(Inbox(Home[a], a)) : \A j \in @ : j < i}]
    /\ UNCHANGED <<clock, workspace, store, queue, fails>>

PollInbox(a) ==
    /\ Home[a] \in named
    /\ shown' = [shown EXCEPT ![a] = @ \cup Ids(Inbox(Home[a], a))]
    /\ UNCHANGED <<clock, workspace, store, queue, fails>>

Next ==
    \/ \E r \in Repo : CreateWorkspace(r)
    \/ \E p \in Proc :
        \/ p \notin Served /\ Command(p)
        \/ p \in Served /\ (ToolCall(p) \/ AppRequest(p))
        \/ p \in Syncing /\ MeshCommand(p)
        \/ Insert(p) \/ Kill(p) \/ PollInbox(p)

\* A command gets on with it, a watcher polls, and mesh sync is run again and
\* again by those that use it.
Fairness ==
    \A p \in Proc :
        /\ WF_vars(Insert(p)) /\ WF_vars(PollInbox(p))
        /\ p \in Syncing => \A peer \in Repo : SF_vars(SyncMesh(p, peer))

Spec == Init /\ [][Next]_vars /\ Fairness

(***************************************************************************)
(* Properties                                                              *)
(***************************************************************************)
\* Whatever a repository that had its workspace.json from the start has stored, by
\* its own commands or by an import cut off anywhere, is listed in its workspace.
\* Code: event_for_workspace in mesh.rs.
ImportedIsListed == \A r \in Settled : \A e \in store[r] : e \in Listed(r, e.type)

\* README.md:357: "Imported events appear in memory, message, task, and handoff
\* projections at the destination", in every repository that has a workspace.
\* Code: load_peer_workspace_id in stl.rs, None for a peer without workspace.json.
ImportedAppear == \A r \in named : \A e \in store[r] : e \in Listed(r, e.type)

\* A completed task is claimed again, and a completed handoff accepted again,
\* only by a move made after its completion: an older one that an import
\* brings later changes nothing.
MovedAfter(r, type, x) ==
    LET done == Moves(Listed(r, type), x, {"completed"})
    IN  \E e \in Listed(r, type)' : e.ref = x /\ e.action \in {"claimed", "accepted"} /\
            \A f \in done : f.id < e.id

Reopened(projection) == {x \in DOMAIN projection :
    projection[x].status = "completed" /\ projection'[x].status # "completed"}

CompletedUntilLaterMove ==
    [][\A r \in Repo :
         /\ \A t \in Reopened(Tasks(r)) : MovedAfter(r, "task", t)
         /\ \A h \in Reopened(Handoffs(r)) : MovedAfter(r, "handoff", h)]_store

\* When nothing more is recorded (the bound sees to that), repeated syncs lead
\* to boards that agree on every task and handoff, whatever was killed, in
\* whatever order the events came, where ImportedIsListed speaks of them.
BoardsAgree ==
    <>[](\A r, s \in Settled : Tasks(r) = Tasks(s) /\ Handoffs(r) = Handoffs(s))

\* A watched inbox prints every message and handoff sent to its agent, also one
\* that a mesh sync brings late, or under another workspace before workspace.json
\* was there, unless a whole listing of newer ones hides it.
\* Code: message.rs inbox, watch_inbox in stl.rs.
ShownUnlessBuried ==
    <>[](\A a \in Proc : \A e \in store[Home[a]] :
            LET sent == {f \in store[Home[a]] : f.to = a /\ f.type = e.type}
            IN  Home[a] \in named /\ e.to = a =>
                  e.id \in shown[a] \/ e \notin Newest(InboxLimit, sent))
=============================================================================
