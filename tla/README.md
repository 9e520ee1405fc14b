# Shuttle in TLA+

TLA+ models of shuttle-rs, a shared, append-only memory for coding agents: the
local event store and the workflow runs projected from it, the cloud gateway's
atomic claims, the synchronisation of local stores through the gateway and by
mesh, the task and handoff board, memories and adapters, the OAuth server on its
migrating database, and the multi-project gateway with its shutdown. TLC checks the
models on small instances; TLAPS proves the safety properties for any number of
agents, processes, events and requests: of workflow runs, local and in the cloud, of the
claim endpoint and what it refines, of cursors, boards, migrations, codes, tokens,
projects, recall and manifests.

Paths below are relative to the repository, which these modules see as `src/`.

## 1. The system

Everything an agent does is an **event** with a random id, a `created_at` taken
when the event is built, an agent name and a JSON payload. Events are only
ever added. Tasks, handoffs and workflow runs are not stored at all: each
command lists the events and folds them in `(created_at, id)` order. That is
the source of most of what is hard here: *a command decides on a log it read,
and other commands append before it does.*

| component | state it keeps | operations | hard behaviour | what makes it correct |
|---|---|---|---|---|
| Event store (`src/store.rs`, `src/core.rs`) | SQLite table of events, two unique indexes (id, initial claim) | append, append_if_absent, list, migrate, backup | several processes on one file; migration by two of them | ids are stored once, one initial claim per run and step |
| Workflow engine (`src/workflow.rs`) | none: a run is a fold of its events | start, claim, retry, takeover, complete, fail, reconcile, finish, abort | validation on a stale read, events stamped and inserted in different orders | steps in order, non-idempotent work not repeated, a finished step stays finished, an open run can go on |
| CLI and local MCP server (`src/bin/stl.rs`, `src/mcp.rs`) | none | the commands and tools over the engine | run concurrently, killed anywhere | each command validates before it appends |
| Cloud gateway, claims (`workers/shuttle-gateway/src/repository.ts`) | D1 tables `events`, `task_claims`, `workflow_step_claims` | appendAtomicClaim, appendEvent | reads and writes around one transaction, retries under the same id, imports of history | one owner, every ownership audited, truthful answers |
| Cloud gateway, services and API (`services.ts`, `api.ts`, `mcp.ts`) | none | validated claims, list pages | the step state is read before the batch | the same rules as the local engine |
| Cloud sync (`src/remote.rs`) | checkpoint file: push cursor, pull phase, two pull cursors | push, pull (backfill, incremental), sync | cut off between any two requests; answers lost; events that arrive late; clocks that differ; two syncs at once | nothing behind a cursor is missing; everything arrives |
| Cloud-first client (`CloudEventStore` in `src/remote.rs`) | workspace id from `ensure_workspace` | connect, append, list, claim | the gateway's ids against the client's | what was appended is found again |
| Mesh and archives (`src/mesh.rs`) | none | export, import into another workspace | two logs that contradict each other are merged | imports are idempotent, projections agree afterwards |
| Tasks, handoffs, collaboration, messages (`task.rs`, `collab.rs`, `message.rs`) | none | open, claim, update, complete, hand off, pass, watch inbox | claims race, two appends per command, a polled list of 50 | no lost handoff, no lost message |
| Context and memory (`context.rs`, `memory.rs`) | none | remember (every kind), recall, search, assemble | a process keeps the workspace id it started with; every listing cuts | what was remembered is recalled |
| Adapters, telemetry (`src/adapter/`, `telemetry.rs`) | registry and selection cache in the database | register, generate by a runner, select, merge, export | a runner works beside other commands; rounding | a manifest is whole |
| OAuth server (`oauth.rs`, routes of `app.rs` and `gateway.rs`) | clients, codes, tokens, rate counters, version rows | register, authorize, exchange, validate, revoke, purge, migrate | two servers on one file, migrating it, at every statement | a code is worth one token, a token is accepted exactly while it should be |
| Rust gateway (`gateway.rs`, `gateway/lifecycle.rs`) | project registry, current project, config file, listeners | add and use projects, work in a repository, serve, shut down | file, registry and current project under different locks; shutdown against requests and failing listeners; crashes | a project keeps its name and repository, stored events are listed, shutdown ends |
| HTTP app (`app.rs`) | none of its own | its routes call the components above | one listener with the same shutdown | as those components |
| Worker tokens (`auth.ts`), `crates/` | token hashes; an older split of the same code | mint, revoke | one-time bootstrap token | outside this project (section 6) |

How they interact: the CLI and the MCP server call the engine and the store in
one process; processes meet only in the SQLite file, in `workspace.json` and in the
checkpoint of sync. The HTTP app and the Rust gateway are servers over the same
functions, the gateway for many repositories: by itself, through an `stl` it starts,
or through another server. Mesh sync opens the databases of two repositories. Sync
runs in the CLI and talks HTTP to the gateway worker, whose invocations meet only in D1. A claim in
cloud-first mode goes to the claim endpoint, history goes through `appendEvent`.

`PROJECT.json` lists the hazards of all this line by line, with the properties
that cover them or the reason why none does.

## 2. Modules

| module | models | source |
|---|---|---|
| `WorkflowRun` | the pure fold and the validators: `apply_action`, `project_runs`, `validate_*` | `src/workflow.rs` |
| `Workflow` | a run in one local store under concurrent commands; extends `WorkflowRun` | `stl.rs`, `mcp.rs`, `store.rs`, `workflow.rs` |
| `AtomicClaim` | one claim row and the log under concurrent claim requests and pushes | `repository.ts`, migration `0002` |
| `ClaimLock` | abstract: what the claim endpoint promises | the comments of `repository.ts` |
| `CloudWorkflow` | a run in cloud-first mode: client commands, the worker's own validation, the claim rows; extends `Workflow` | `remote.rs` (`CloudEventStore`), `services.ts`, `repository.ts` |
| `RemoteSync` | push, pull and sync of several repositories through a project | `src/remote.rs`, `api.ts`, `repository.ts` |
| `Board` | tasks, handoffs, messages and collaborations of several repositories, mesh and archives | `task.rs`, `collab.rs`, `message.rs`, `mesh.rs`, their commands, tools and routes |
| `Migration` | opening a database that others open and migrate | `store.rs`, `oauth.rs` |
| `Access` | the OAuth store and its routes, statement by statement; extends `Migration` | `oauth.rs`, `app.rs`, `gateway.rs` |
| `Gateway` | listeners, project registry and config, work in a repository, the end of the process | `gateway.rs`, `gateway/lifecycle.rs`, `bin/shuttle-gateway.rs` |
| `Knowledge` | remembering and recall, adapters, in one repository | `memory.rs`, `context.rs`, `src/adapter/`, `store.rs`, their commands, tools and routes |
| `MC...` | the instances TLC runs | |
| `..._proofs` | theorems about the module of that name (`Access_proofs` about `Migration` too) | |

Operators named `X_Y` next to an operator `X` are *mutants*: `X` as a plausible
bug would have it. `PROJECT.json` names the property each one breaks.

### Workflow

*State.* `timeline` is the run's sequence of `created_at` stamps; a place holds
the event stored with that stamp or a `Hole` if it is not stored (not yet, or
never). `command[p]` is the event process `p` validated and its stamp. The run
itself is `Current == ProjectRun(Stored)`, computed, as in the code.

*Steps.* A command is three actions, because the code holds no lock across
them: validate on a listing (`Claim`, `CompleteStep`, `FailStep`, `Reconcile`,
`CompleteRun`, `AbortRun`), take `created_at` (`Stamp`), insert (`Insert`, which
may hit the index of migration v4). `Interrupt` is a process killed in between.
`Start` is one action: nobody else knows the run's id before its event is
stored. CLI (`WorkflowCommand`) and MCP server (`ToolCall`) differ only in how a claim
treats the owner's own step: `Claim` is that of stl (`validate_claim_for_agent`),
`ClaimTool` that of the server (`validate_claim`, which knows no caller).

*Abstracted.* Titles, contents, inputs, outputs, evidence (a boolean
`approved`), manifests (a number of steps, which are non-idempotent and which
need approval, as `validate_manifest` leaves them). Stamps never tie: ids are
random and break ties, so a tie is one of the two orders. A clock set back is
not modelled.

### AtomicClaim

*State.* `row` (`claimed_by`, `claim_event_id`), `events` (ids of stored events),
the progress and last answer of each request, the progress of each delivery of a
pushed event.

*Steps.* `Batch` is the D1 batch, a transaction: INSERT OR IGNORE of the row, UPDATE
under its WHERE, conditional insert of the event. `Readback` is the SELECT after it,
which other requests may precede. `SendAgain` is a lost answer, a dead invocation
or a client's retry, under the same event id. `LookUp`, `Store`, `Project` are the
three awaits of `appendEvent`; `Die` ends it between them. Task and step claims
run this same code on different tables, so one row stands for either.

*Abstracted.* Key columns, reasons, timestamps, tags, snapshots, workspaces.
What the services validate before the batch is *not* assumed: any request may
reach it at any time, which is more than the services allow.

*ClaimLock* has an owner and answers only. `AtomicClaim` implements it with
`owner <- row.by` and the answers grouped into "yours" and "taken".

### CloudWorkflow

*State.* That of `Workflow`, with the gateway's log in place of the SQLite file, and
`row` (the claim row of each step), `request[p]` (a claim the worker validated and
will batch). An event's id is its place in the timeline.

*Steps.* The client commands are those of `Workflow`; `Insert` is replaced by the
two endpoints. A claim is validated a second time by the worker (`CheckClaim`), on
a projection of its own, `WorkerRun`, which differs from `apply_action` in the
code too: a completed or aborted run stays so, and any takeover of a
non-idempotent step needs reconciliation. Then `BatchClaim` runs the batch. Everything
else is stored as it comes (`PostEvent`). `ListedAs` is the workspace a client's
listings ask for, `WorkspaceId` the one its events are stored under. Two commands of
`Workflow` have no disjunct: no step needs reconciliation in the worker's log, as it
refuses the takeover that would lead there, so `Reconcile` never passes its validator; and
`ClaimTool` validates as `Claim` does for an agent that claimed nothing, so each of its steps is one of
`Claim`.

*Abstracted.* The answers to claims (that is `AtomicClaim`), paging of listings.
The agent of a client's token is taken to be the agent stl signs with.

### RemoteSync

*State.* Per replica the local log and the checkpoint on disk; per process its
session in memory, with the checkpoint as it loaded it (`saved`); the gateway's log.
`Home` says in which replica a process works. An event *is* its place in the order of
cursors `(created_at, id)`: `Stamp(r, t)` is the moment plus the replica's clock skew,
so all three cursors of the code are numbers. Three history variables: `late`, the
events that arrived at the gateway behind a newer one; `behind`, those recorded
by a clock behind an event that was there already; and `hidden`, what was on the gateway
before the page that a backfill was told is the last.

*Steps.* A push lists the local events (`BeginPush`) and then loads the checkpoint
(`LoadPush`), which another sync may have saved in between. Each request and each save of
the checkpoint is an action; a sync may fail or be killed at each (`Fail`, which in an import leaves a prefix of the
page stored), and the answer to an append may be lost (`Retry`: the request goes out
again although its event is stored). Other commands record events at any time, other
replicas push between two pages. A save writes the whole checkpoint as this process
knows it, over what another sync saved. `ListedPage` is the handler's "one row more than
the page", and `Cap` the clamp in the repository.

*Abstracted.* Payloads, the rewriting of workspace ids, the temporary file that two
saves at one moment share.

### Board

*State.* The database of each repository (`store`); for each process the inserts
it still has to make, with the database each goes to (`queue`); what a watched inbox has
printed (`shown`). Tasks and handoffs are computed: `Tasks(r)`, `Handoffs(r)`.

*Steps.* A command checks that the task or handoff it names exists, stamps its events
and queues them; `Insert` is one INSERT, `Kill` the end of the process with the rest
undone. `StartCollab` and `PassTask` append several events, `SyncMesh` and
`ImportArchive` a list read at the start, with the workspace changed and duplicates
ignored. A check and the stamps share a step because what exists never
disappears. Commands, MCP tools (`ToolCall`) and pages of the HTTP app (`AppRequest`)
lead to the same appends.

A repository outside `Settled` has a database and no `workspace.json` yet: what a sync brings
there keeps its workspace (`ForWorkspace` is applied only to the `named`), and
`CreateWorkspace` is the next command that makes the file.

*Abstracted.* Titles, contents, tags (a content is the id of the event that gave it).
A listing is a set of events; where the code's order matters, `NewestFirst` gives it.
All repositories share a clock: a mesh sync opens files of one machine.

### Migration and Access

*State.* `Migration`: the two version rows, which migrations have been applied, how
far each process is with its opening, and which processes hold a snapshot that is still
current (`fresh`). `Access` adds the rows of the OAuth tables, a small clock, the
request each server works on and what it answered; `issued` and `revoked` are history.

*Steps.* SQLite in WAL mode with deferred transactions: one that begins with a write
holds the lock to its commit and is one action; one that begins with a read holds a
snapshot, and its first write fails if anything was committed since. So `Begin` and
`Commit` of a migration and `SelectCode` and `UseCode` of an exchange are
separate. Every other statement that writes for a request is an action of its own: the count
of a rate limit (`CountRequest`), then the client (`RegisterClient`), the code (`CreateCode`)
or the token. One step holds several statements: `Enter` purges codes, purges tokens and
reads the rate limit. What is purged has run out or was revoked, and no statement would use
it any more; the same purge may come alone at any moment before (`CleanupExpired`), so a
step of another server between the three reaches no state that is not reached anyway. `ReadVersion` includes
the two commits before it, of the version table and of its first row, which only make the
snapshots of others outdated. The purge at the end of `OAuthStore::init` is a
`CleanupExpired`. `End` is a process
that ends or does not get the lock in time, `AppendEvent` a commit of anybody else.
`Init` is a file of any earlier or of a later version, with the rows such a file has.

*Abstracted.* A code carries the client that was approved; PKCE, redirect URI and scope
match or do not. A server works on one request at a time, as its connection is behind
a mutex. The routes of app and gateway are the same operations.

### Gateway

*State.* The phase of the process, its listeners, the request of each connection (where it
has got to, what it asks, and what it has read so far), and the requests nobody waits for
any more while other processes still work on them (`orphans`); the configuration file, the
registry, the current project and the holder of the registry's mutex; of each repository
`workspace.json`, whether there is a database (`opened`), and the log. `added`, `stored`,
`cut` and `overlapped` are history.

*Steps.* `ReadConfig`, `WriteConfig` and `InsertNamed` are `add_project` under the
registry's mutex, `SetCurrent` comes after it, under the other one; a file that cannot be
read is `RefuseProject`, one that cannot be replaced `WriteConfigFails`. Work in a
repository is `Resolve`, `LoadWorkspace`, if there is no workspace `OpenWorkspace` (which
empties the file) and `CreateWorkspace` (which fills it), and an append or a listing. The gateway
does this in a blocking task of its own (`Append`), an external stl does the same (`Stl`), another
server is taken to have its workspace (`Http`); the latter two are `Forward`. An stl that finds no
database uses its client name (`Client`) and creates one. `Fails` is a file that is not
written, a database that does not open or is busy, a refused task. `TimeOut` is the gateway giving
up on another process, which goes on: its event may be stored at any time later, also after the gateway
has ended. `Signal`, `ListenerEnds`, `Drained`, `Deadline`, `BindFails`
and `Gone` are `serve_listeners` and the end of the runtime, which waits for blocking
tasks and drops the others; `Crash` may come anywhere, and may or may not take the other
processes with it. `EditConfig` is the owner's editor.

*Abstracted.* Backend, token and description of a project are its repository. Whether a
listener lets a request in (the tokens are in `Access`), the session file. The owner is
taken not to edit between the gateway's read and its rename.

### Knowledge

*State.* Whether the database exists, the id in `workspace.json` (or that it is torn), the
environment of each process (read once, at its start), the log, the adapter registry, the
cached selection, and the last manifest.

*Steps.* `Load`, `OpenWorkspace` and `WriteWorkspace` are `RuntimeEnv::load`, which may end
between emptying the file and filling it; then a
command is one step on the database and ends, a server goes on. `Doc2Lora`,
`Generated` and `GenerationFails` are the run of an external generator. Recall is an
operator, `RankedRecall`, with each of the code's cuts in its own order: `Listing` is the
SQL one, equal times by falling id, `Newest` the one of `memory.rs`, by rising id. `Like` is
the match in SQL, with its two wildcards and a text lowered by SQLite; `Includes` the one
that scores, lowered by Rust. `Listings` are the orders in which adapters of
one name may be listed; `SelectAdapters`, `MergePlan`
and `ExportManifest` are the adapter functions, in hundredths. `Sorted` stands for each
`sort_by` and `ORDER BY` among them: the k-th element has k - 1 before it.

*Abstracted.* An event's content, title, tags and metadata are one sequence of words, each a
letter with its case; all events come from one repository and branch, which recall weighs
too. Vectors: how well an adapter fits is any number of hundredths, where the code has a
floating-point number that it rounds to hundredths before it compares; a share of exactly half a
hundredth is rounded up, which in floating point may be either way.

## 3. Runs

| run | question | instance |
|---|---|---|
| `workflow_overlap` | what is left of the engine's rules when commands overlap in every way | 2 processes, 2 agents, 2 steps, step 1 non-idempotent, step 2 with approval, 6 stamps; about 730 000 states |
| `workflow_turns` | the stronger promises, when commands take turns | the same, 7 stamps |
| `workflow_takeover_race` | *violated:* a non-idempotent step is never handed on by takeover | as `workflow_overlap` |
| `atomic_claim` | audit, single first claim, truthful answers, and the refinement of `ClaimLock` | 2 agents that claim and take over, a third agent's old claim pushed twice; about 990 000 states |
| `cloud_workflow` | what the claim endpoint guarantees when clients and worker both decide on stale events | as `workflow_overlap`, step 2 non-idempotent, no approvals, 6 stamps; about 390 000 states |
| `cloud_listing` | *violated:* a started run is found | the same, 2 stamps, listings by instance name as in stl |
| `remote_sync` | no cursor passes a missing event, and everything in order arrives | 2 replicas, the second clock one ahead, page of 1, 3 events, 1 lost answer or failure; about 390 000 states |
| `remote_page` | *violated:* the pull follows the pages to the last one | page as large as the clamp, no failures, no skew |
| `board` | do boards converge, and is anything lost on the way | 2 repositories, a syncing stl in one and a server in the other, listings of 1, 3 events, 1 kill; about 52 000 states |
| `access` | one token per code, right answers, complete migrations | 2 servers, 1 migration of events and 3 of OAuth, one client, one code, an old and a new token, limit, window and code life 1, token life 2, clock to 2, 1 end; about 1 300 000 states |
| `gateway` | are projects and events kept, does a drain answer, does a signal end the process | 2 connections, 2 listeners, a local and a remote repository, 3 projects, 1 event, 2 ends; about 210 000 states |
| `knowledge` | is what was remembered recalled, is a manifest whole | an stl and a server, texts and queries of up to two words, 2 adapters that may share a name, fits of 0, 0.01 and 0.39, listings of 1, 3 changes, 1 workspace id; about 180 000 states |

Why these bounds show what they should. *Workflow:* two steps are the least with
an order; making one non-idempotent and the other approved has every branch of
`apply_action` and of the validators; two processes are enough for each
read-validate-append race, which are all pairwise; six stamps allow start, claim,
fail, retry, takeover and a completion, or an abort and a command stale by it,
seven the reconciliation of a takeover and the second step. Agents and processes
are interchangeable, so they are symmetry sets; none of those runs has a
liveness property. Deadlock is not checked there: a completed run really
stops and the number of stamps is bounded. *AtomicClaim:* a row has one owner,
so two rivals with a first claim and a takeover each reach every case of the WHERE
and of the answer; two deliveries of one pushed event are the duplicate that
`retry_request` may produce. Deadlock is checked: a request can always be sent
again. *RemoteSync:* three events with a page of one make three pages, so a
backfill has a first, a middle and a last page, and each can be the one that fails
or that an event arrives behind. A skew of one is the least that puts a pulled event
before one still to be recorded. *Board:* a listing of one is full with the second
message; three events are a task or handoff, what an agent does with it, and a move of the
other agent that may come in any order by sync; each list can be cut at each place. *Access:*
limits and lifetimes of one are both below and above what happens; two servers and one
snapshot each are every conflict of two transactions. *Gateway:* one name asked for
twice, one add with and one without `use`, a read without and a write with a project; each
listener can be the one that is busy, fails or hangs. *Knowledge:* a query of two words
with one looked up alone has both ways to match; `"2 1"` and `"1 2"` tell them apart;
fits of 0.01 and 0.39 round to shares that need the rest.

Larger instances, run once and not part of the list: `board` with both agents syncing
(340 000 states); `remote_sync` with two failures and no skew (1.1 million), and its
invariants with three processes, two of them in one repository, so that one puts back
the cursors of the other (2 moments, 1 failure, 5 million); `gateway` with two events
(730 000), and its invariants with three connections besides (3.4 million up to
symmetry); `knowledge` with two workspace ids (910 000), and manifests alone with three
adapters and four changes (88 000). All hold. Deadlock is not checked in `board`, `gateway`
and `knowledge`: when their bounds are used up, nothing has to happen any more.

`cloud_workflow` sets `ListedAs` to the stored workspace, as for a
client that finds its runs: with the listings of stl nothing but starts would happen
(`cloud_listing`). Step 2 is the non-idempotent one there, so that the first step
can pass between agents; the bound leaves room for two commands that are stale at
once on either. With 7 stamps the same properties hold over 2.1 million states.

`remote_sync` sets `Cap` above `Page`: a gateway that keeps the contract of
`has_more`, like the one in the client's tests. It shows that the client's cursor
logic is right. The code's two constants are both 500, and `remote_page`
shows what follows.

### Properties worth a second look

- `FinishFollowsOwnClaim`, `OrderedProgress`, `EventsHaveCause`: each event of the
  log is justified by earlier ones *in created_at order*, although its
  validator read the log long before the event got its stamp.
- `Resumable`: whatever raced or died, once all is quiet every agent has a
  command that moves an open run on and that the index accepts. It fails when a
  retry is recorded as an initial claim, the defect that `CHANGES.md` reports fixed.
- `TwoOwnersNeedTakeover`, `LockSpec`: the answer is chosen outside the
  transaction, and is truthful nevertheless.
- `NonIdempotentClaimedOnce`, `ClaimKeptUntilTaken`: what the row of the gateway adds: the race of
  `workflow_takeover_race` cannot happen there.
- `PushedUpToCursor`, `InOrderPulledUpToCursor`, `BackfillHasNoGap`: what a push or a
  pull may skip when it resumes. Each leaves out exactly the events that the order of
  cursors cannot bring (`behind`, `late`); section 5 says what becomes of those.
- `BoardsAgree`: projections fold in the order of stamps, not of arrival, so
  whatever was cut off and in whatever order, the boards agree in the end.
- `CompletedUntilLaterMove`: a late import never reopens finished work.
- `ShownUnlessBuried`: a watched inbox remembers ids and not a moment, or it would miss
  what an import brings late.
- `CodeRedeemedOnce`: rests on the snapshot of the deferred transaction; with the read
  before the transaction it fails.
- `AnswerIsRight`: an equivalence. Tokens written by an older binary survive every order
  of migrations, even one repeated by a slow process.
- `AddedStays`: file and registry, related through every interleaving, edit and crash.
- `DrainAnswers`, `SignalStops`: the drain waits for every listener, and no longer than
  the deadline.
- `RememberedIsRecalled`: relates the environment a process read when it started, four
  cuts of listings and the match by whole query or single token.

### Fairness

`RemoteSync`: `WF(Step(p))`: a running sync proceeds; every request has
a timeout, after which the code retries or fails. `SF(BeginPush(p, TRUE))`: `stl sync`
is started again and again in every repository. The code does not do that; its
user, or a timer, does, and eventual delivery can hold on no weaker assumption.
It is strong because other pushes and pulls disable it for a while, infinitely
often. Failures are bounded (`MaxFails`) and so are recordings (`MaxClock`),
which makes `<>[]` meaningful.

`Board`: `WF(Insert(p))`, a command gets on with its inserts; `WF(PollInbox(p))`, the
loop of `watch_inbox`; `SF(SyncMesh(p, peer))`, the same assumption as for sync, for
the agents that run it and every peer.

`Gateway`: each listener binds and notices the signal, each is a task of its own
(`WF(Bind(l))`, `WF(ListenerEnds(l))`); the select of `serve_listeners` (`WF(Drained)`,
`WF(Deadline)`: a timer); the runtime (`WF(Gone)`), and blocking work once the process
exits (`WF(phase = "exit" /\ Finish(r))`). While the gateway is up or draining a
request may hang for good: `SignalStops` rests on the deadline. That blocking work ends
is needed: its calls have timeouts of their own, and the runtime waits for it.

## 4. What is proved

Each theorem holds for every value of the constants that the assumptions of its module
allow; TLC evaluates those in the runs. Sets of agents, processes and tokens may be
infinite unless an assumption says otherwise. No safety property is inductive as it
stands. What follows says, per module, which invariant is, and why its parts are needed;
each was checked with TLC before it was proved. Steps are shown one by one, and what several need (what
one more event does to a projection, what a longer log does to a checkpoint) is a lemma.

*Workflow.* A run is a fold over a listing, and a listing leaves out the holes, so facts
about runs need induction over the timeline. The lemmas come first: a fold takes one
step more on `Append` (`StepsAppend`), and induction is stated for *sets* of sequences, which
the provers can instantiate (`SequenceInduction`). Then:

- `Sound` adds to `TypeOK` that the start comes once and first. It suffices for what
  the projection itself guarantees: each part of a run has its cause among the events
  (`RunHasCause`).
- `JustifiedRun` adds `AllJustified`: every event, stored *or on its way*, has in the timeline
  before its place what its kind needs. A validated command is justified by the log it read;
  its stamp comes later, and what is inserted in between can only add before it, never
  remove. The index of the initial claim (`OneInitialClaim`) makes the first claim
  the first event. From it follow `CausesStored`, `FinishersClaimed`, `ProgressInOrder`,
  `InitialClaimFirst`, and `RunsResume`, whose premise is that no command is under way.
- `TurnRun`, for `Overlap = FALSE` (stated as hypothesis of each of the four theorems):
  when commands take turns, the run a command validated is the one it changes. So the
  steps stay `InOrder`, the status `Agrees`, nothing is `NotRepeated`. What
  overlap breaks of these is what `workflow_takeover_race` shows.

*CloudWorkflow.* `CloudRun` adds to `Sound` that the row of a step names a stored claim
(`RowsMatch`) and, once claimed, is never free again (`RowsTaken`). So a step has one initial claim, and
every later claim is a takeover, of an idempotent step (`LaterClaimTakesOver`). Hence
`ClaimedOnce`; and `ClaimKept` even where `failed_step` would let a claim go: the code never
clears a row, the hazard listed in `PROJECT.json`.

*AtomicClaim.* `IndInv` adds to `TypeOK`, `RowIsAudited`, `OneFirstClaim` and `GrantIsAudited`:

- `FirstClaimOwns`: if a request without takeover is in the log, the row is not
  free. Without it a second first claim could win a row that looks free.
- `BatchLeavesOwner`: once a request's batch has run, the row is not free, so the
  answer that follows never reports a free row as a conflict.
- `PushStoredFirst`: a delivery that is about to write the row has its event in
  the log, so the upsert keeps the row audited.

From it follow `RowAudited`, `FirstClaimUnique`, `GrantsAudited`,
`OwnersNeedTakeover` (from the grants and the single first claim) and `Refinement`:
every step of `AtomicClaim` is a step of `ClaimLock` or leaves owner and answers
alone.

*RemoteSync.* `SyncInv` says that *every copy* of a checkpoint is true: on disk, and in the
memory of each sync. Two syncs of one repository save whole checkpoints over each
other, so what is on disk may go back; but it goes back to a copy that was true and is
true still, for logs only grow, and what they gain at or below a cursor is `late` or
`behind` (`Grows`). A session adds what its queue (`QueueTrue`), its next request
(`FetchTrue`) and its page (`PageTrue`) have covered. The queue need not hold every
unpushed event: what it misses, another sync has pushed. `PushesReachGateway` and
`BackfillsKeepUp` hold for any page and clamp; `PullsReachCursor` has the hypothesis
`Page < Cap`, because a gateway that cannot return one row more than a page ends a backfill
early. The deployed constants do not satisfy it; `remote_page` shows what happens. The
theorem says that nothing else can go wrong with pulls.

*Board.* `BoardInv`: stored events are of their repository, ids are unique in a log, and a
task or handoff is named after the event that opens it; inserts under way are the same. With it an insert
under a workspace is listed there (`ImportsListed`), and `CompletionsLast`, an
action property: the latest of the moves of a task changes only by an insert of a later
one. That one needs that a set of events has a latest, by well-founded induction.

*Migration and Access.*

- `OpensComplete`. `OpenedIsComplete` says nothing of a process still on its way. `OpenInv`
  adds `VersionIsApplied`, that a version row, whoever put it back, never exceeds what is
  applied, and `Reached`, what a process that came to a migration may rely on: the rows
  before are complete, and its own up to that migration. Nothing applied is ever undone
  (`ReachedStays`), so another process disturbs neither.
- `CodesRedeemedOnce`. `CodeInv` adds `UnusedNotIssued`, an unused code has no token;
  `SeenUnused`, a process whose snapshot is current has read a code that is unused
  still, because every commit makes every snapshot outdated; `NewCodesAreNew`, a code about to
  be stored is nowhere yet; and `WorkersAreOpen`, so that a process that opens the
  file and takes a snapshot there is not one that exchanges a code.
- `Typing`. A rate limit is read by one statement and raised by another, so that no count
  passes its limit needs `RatesAdmitted`: who was admitted holds a snapshot in which the count
  was below it.
- `AnswersRight`. `TokenInv` says what the tables owe to history: stored tokens are hashed
  once migration 3 is complete (`RowsHashed`) and say of their token what was issued
  and revoked (`RowsKnown`); what is neither revoked nor run out is stored (`LiveStored`), so
  a purge takes nothing that is valid; and no answer is given before a server is open
  (`Unanswered`). With `OpenInv` an open server has migration 3 behind it, which is why
  `AccessAssumption` says what that migration does: it is there and begins by reading tokens.

*Gateway.* `GatewayInv` adds to `TypeOK`:

- `Names`: who holds the registry's mutex has read what the file holds (so its rename
  loses no project), and a project keeps its name and repository once written. Needed
  because file, registry and report are three steps (`ProjectsStay`).
- `Works`: unless two first requests of a repository overlapped, at most one of them is
  creating its workspace, everybody who has an id has the repository's, and before that
  the log is empty (`WritesListed`).
- `Serves`: while the process does not exit, the listener of a request serves; so when the
  last one has ended, no request is left to cut off (`DrainsAnswer`).
- `Counts`: projects and events, stored and on their way, fit the bounds, so that there is
  always a name for another project. It makes the bounds harmless: no action of
  the model is blocked by one in the middle of a request.

*Knowledge.* `RecallsWhatWasRemembered`. Recall cuts what it finds by word, by type
and over all types. Whatever a cut takes away has `Limit` newer events in the set it was cut
from, all of them meant (`Cut`, `RecalledOrBuried`); that needs only ids that differ. Ranking
loses nothing and repeats nothing (`RankedFacts`): by score, then id, every event has a rank of its
own, and every rank is taken. That who recalls looks where the other remembered is a
matter of the state. `KnowledgeInv` says that once `workspace.json` is settled, whoever starts
has its id, and so has all that is stored since (`SettledStays`); a workspace is created only
where there is a database (`Created`), and with a database and the file nobody begins to create
another.

`ManifestsWhole`, an action property, needs only that adapters differ by id
(`RegistryTyped`); the rest is about the functions. Selecting and retaining are sorts
again, and the i-th retained adapter stands at place i or later of the selection (`PlacesGrow`), which is why
the first of the cached selection fit too. Shares are numbers (`RoundTyped`), and what
changes the first changes the sum by as much (`SumOfFirst`), so that the rest makes one hundred
whatever rounding lost. That takes induction over the partial sums.

What stays with TLC: liveness (`EventuallyEverywhere`, `BoardsAgree`,
`ShownUnlessBuried`, `SignalStops`), which is out of the prover's reach, and what expected
violations show. Every invariant and action property of a passing run has a theorem.

## 5. What the models showed of the code

1. **Takeover race** (`workflow_takeover_race`). A takeover turns a claimed
   non-idempotent step into `needs_reconcile` only if the step is still claimed where
   the event lands in the log. Of two takeovers validated together the second
   leaves the step claimed by its agent. `README.md:179` promises otherwise.
2. **Runs not found in the cloud** (`cloud_listing`). stl lists by client instance name,
   the gateway stores under the workspace id it made.
3. **One page only** (`remote_page`). The gateway asks its repository for 501 rows
   to see whether there are more than 500, and the repository clamps that to 500;
   the client always asks for 500. The backfill takes the first page for the last.

What the modelling showed besides, without a run of its own, because no
document promises otherwise, or because the property that would fail is the one
the runs check with these cases left out:

- A failed step is never retried in the cloud: its claim row keeps its owner.
  `CHANGES.md:37` reports retries fixed, which is true of the local store.
- Incremental pulls follow `created_at`, not arrival. What is recorded offline and pushed
  late is not pulled by repositories that are past it (`late`).
- Pulled events are pushed back and move the push cursor; one from a clock ahead moves
  it past local events still to come, which are never uploaded (`behind`).
- A process that starts before the database is there stores under its client id, and
  no later process recalls that. Two first requests on a fresh repository use two
  workspace ids, and the events of one are listed nowhere (`overlapped`).
- Two processes that migrate at once may put the version row back below what is applied;
  the next open repeats a migration, harmlessly (`OpenedIsComplete`), but `stl db check` reports
  the file as unhealthy until then.
- The selection cache of adapters is written and never read.
- With many adapters the rest of the rounding may make the first weight the smallest,
  or negative. Plan and manifest look adapters up by name, and two may share a name.
- An admin grant limited to a project uses up the worker's bootstrap token.

## 6. Not modelled, and the plan

Not modelled:

- *Worker authentication* (`auth.ts`): each operation is one read or one statement of
  D1; the client of `CloudWorkflow` holds a valid token of its agent.
- *Worker services for tasks, handoffs and messages* (`services.ts`): TypeScript
  doubles of the local projections with rules of their own; `PROJECT.json` lists
  the hazard of their task claim.
- *Backends of the Rust gateway* beyond what they store, the order of its listener
  authentication, its schemas and configuration parsing; the session file.
- *Database check, backup and archive files*: they read, or write a file of their own.
- *Vectors and documents* of adapters, telemetry, the weights of recall for
  repository and branch: data, with no state behind it.
- *Text form of cursors*: events are numbered in cursor order; that timestamps ending in
  `Z` and in `+00:00` sort differently as text within one second is listed as a hazard.
- *Partial logs of workflows* (an import cut off before the start of a run): `Board`
  imports like `mesh.rs` but carries no workflow events.
- *Workspace crates* (`crates/`): an older split of the same code; the binaries are
  built from `src/src`, and the same definitions would model it.

What is left is proofs of what the models promise to each other: abstract specifications
like `ClaimLock` for the registry of the gateway, for a code of the OAuth server, and for the
claim rows of `CloudWorkflow`, each with its refinement.
