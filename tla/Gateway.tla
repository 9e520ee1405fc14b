------------------------------ MODULE Gateway ------------------------------
(***************************************************************************)
(* The multi-project gateway (src/src/gateway.rs and gateway/lifecycle.rs): *)
(* listeners that share one GatewayService, its project registry, its      *)
(* current project and its configuration file, the work of a request in a  *)
(* project's repository, and the end of the process by signal, error,      *)
(* deadline or crash.  The HTTP app (src/src/app.rs) ends the same way,    *)
(* with one listener.                                                      *)
(*                                                                         *)
(* Requests run on several threads.  add_project keeps the registry's mutex *)
(* while it reads the file, replaces it and inserts the project; the       *)
(* current project has a mutex of its own.  A request in a repository      *)
(* resolves its project under the mutex and then works without it: in a    *)
(* blocking task that the end of the process waits for, or by an stl or    *)
(* another server, which go on when nobody waits for them any more.        *)
(*                                                                         *)
(* A project's backend, database path, token and description are one       *)
(* value, its repository.  Left out are the bearer and OAuth checks of a   *)
(* listener (the tokens are in Access), the session file, which is created *)
(* like workspace.json and only labels events, and how another server      *)
(* comes to its workspace (Knowledge has that).  An answer of failure      *)
(* after a timeout is sent at once.                                        *)
(***************************************************************************)
EXTENDS Naturals, FiniteSets, FiniteSetsExt

CONSTANTS
    Conn,         \* requests in flight, and work nobody waits for
    Listener,
    Base,         \* project names people ask for
    Repo,
    Http,         \* repositories behind an http backend
    Stl,          \* repositories worked on by an external stl
    Fresh,        \* repositories nobody has used: no .shuttle directory
    Config,       \* the projects of the configuration file at first
    Default,      \* its default project, if any
    Asked,        \* the requests people make
    Edits,        \* projects the owner may write into the file
    MaxProjects,  \* bound: projects of one name
    MaxEvents,    \* bound: events
    MaxStops,     \* bound: ended processes
    Client,       \* the client name of an stl (SHUTTLE_CLIENT_INSTANCE_ID)
    Torn,         \* a workspace.json that was opened and not written
    None

\* "extra", "extra-2", "extra-3", ...
Name == Base \X (1..MaxProjects)

\* "write" stands for remember and the task commands, "read" for context,
\* recall and task list.
AddRequest == [listener : Listener, op : {"add"}, base : Base, repo : Repo, use : BOOLEAN]
UseRequest == [listener : Listener, op : {"use"}, name : Name]
RunRequest == [listener : Listener, op : {"read", "write"}, name : Name \cup {None}]
Request == AddRequest \cup UseRequest \cup RunRequest

\* The projects of a registry or a configuration file.
Projects == UNION {[names -> Repo] : names \in SUBSET Name}
NoProjects == [name \in {} |-> None]
Put(projects, name, repo) ==
    [n \in DOMAIN projects \cup {name} |-> IF n = name THEN repo ELSE projects[n]]

ASSUME GatewayAssumption ==
    /\ IsFiniteSet(Conn)
    /\ Config \in Projects /\ IsFiniteSet(DOMAIN Config)
    /\ Default \in DOMAIN Config \cup {None}
    /\ Asked \subseteq Request
    /\ Edits \subseteq [name : Name, repo : Repo]
    /\ Http \subseteq Repo /\ Stl \subseteq Repo \ Http /\ Fresh \subseteq Repo \ Http
    /\ {MaxProjects, MaxEvents, MaxStops} \subseteq Nat
    /\ Cardinality(DOMAIN Config) <= MaxProjects
    /\ None \notin Name \cup Conn \cup Repo \cup Request
    /\ {Client, Torn} \cap (Conn \cup Repo \cup {None}) = {} /\ Client # Torn

VARIABLES
    phase,      \* of the process
    listeners,
    conn,       \* the request of each connection
    orphans,    \* work of another process whose request is over
    file,       \* the projects of the configuration file
    registry,
    current,
    holder,     \* who holds the registry's mutex
    workspace,  \* the id in each repository's workspace.json
    opened,     \* repositories with a database
    log,        \* each repository's events, with the id they are stored under
    overlapped, \* history: repositories whose first two requests overlapped
    added,      \* history: projects reported as added, or added by hand
    stored,     \* history: events reported as stored
    cut,        \* history: requests dropped by a drain that ended in time
    stops

process == <<phase, listeners, stops>>
naming == <<file, registry, current, holder, added>>
files == <<workspace, opened>>
repositories == <<files, log, overlapped, stored>>
vars == <<process, conn, orphans, cut, naming, repositories>>

\* What a connection keeps: its request, how far it got, and what it found.
Free == [step |-> "free", ask |-> None, doc |-> NoProjects, name |-> None,
         repo |-> None, id |-> None, event |-> 0]

Connection == [
    step  : {"free", "accepted", "read", "persisted", "inserted", "found",
             "resolved", "create", "write", "append", "answer", "refused"},
    ask   : Request \cup {None},
    doc   : Projects,             \* add: the file as read
    name  : Name \cup {None},     \* add: the name it gets
    repo  : Repo \cup {None},     \* the repository it works in
    id    : Repo \cup Conn \cup {Client, None},
    event : 0..MaxEvents]

Events == UNION {log[repo] : repo \in Repo}

Is(r, op, step) == conn[r].step = step /\ conn[r].ask.op = op
Run(r, step) == conn[r].step = step /\ conn[r].ask.op \in {"read", "write"}
Active == {r \in Conn : conn[r].step # "free"}
Waiting == Active \ orphans

Event == [event : 1..MaxEvents, id : Repo \cup Conn \cup {Client}]

TypeOK ==
    /\ phase \in {"down", "up", "drain", "exit"}
    /\ listeners \in [Listener -> {"binding", "serving", "ended"}]
    /\ conn \in [Conn -> Connection]
    /\ \A r \in Active : conn[r].ask \in Request
    /\ orphans \subseteq Active
    /\ file \in Projects /\ registry \in Projects
    /\ phase # "down" => current \in DOMAIN registry \cup {None}
    /\ holder \in Active \cup {None}
    /\ workspace \in [Repo -> Repo \cup Conn \cup {Torn, None}]
    /\ opened \subseteq Repo
    /\ log \in [Repo -> SUBSET Event]
    /\ overlapped \subseteq Fresh
    /\ added \subseteq Name \X Repo
    /\ stored \in [Repo -> SUBSET (1..MaxEvents)]
    /\ cut \subseteq Conn
    /\ stops \in 0..MaxStops

Init ==
    /\ phase = "down"
    /\ listeners = [l \in Listener |-> "ended"]
    /\ conn = [r \in Conn |-> Free]
    /\ orphans = {}
    /\ file = Config
    /\ registry = NoProjects
    /\ current = None
    /\ holder = None
    /\ workspace = [repo \in Repo |-> IF repo \in Fresh THEN None ELSE repo]
    /\ opened = Repo \ Fresh
    /\ log = [repo \in Repo |-> {}]
    /\ overlapped = {}
    /\ added = {<<name, Config[name]>> : name \in DOMAIN Config}
    /\ stored = [repo \in Repo |-> {}]
    /\ cut = {}
    /\ stops = 0

(***************************************************************************)
(* The process                                                             *)
(***************************************************************************)
\* The configuration is loaded once; nothing is current until it is chosen.
Start ==
    /\ phase = "down" /\ stops < MaxStops
    /\ phase' = "up"
    /\ listeners' = [l \in Listener |-> "binding"]
    /\ registry' = file
    /\ current' = None
    /\ UNCHANGED <<stops, conn, orphans, cut, file, holder, added, repositories>>

\* Work of another process, which its request may leave behind.
Elsewhere == {r \in Active :
    /\ \E step \in {"resolved", "create", "write", "append"} : Run(r, step)
    /\ conn[r].repo \in Http \cup Stl}

\* serve_listeners returns: requests that wait are dropped, and a started stl
\* is left alone; those in a blocking task or on a thread of their own are
\* finished, without an answer.
Dropped == {r \in Waiting : conn[r].step \in {"accepted", "resolved", "answer", "refused"}}

Exit(inTime) ==
    /\ phase' = "exit"
    /\ LET left == {r \in Elsewhere : conn[r].repo \in Stl}
       IN  \E dropped \in SUBSET Dropped :
            /\ \A r \in Dropped \ dropped : conn[r].step = "accepted" \/ r \in left
            /\ conn' = [r \in Conn |-> IF r \in dropped THEN Free ELSE conn[r]]
            /\ orphans' = orphans \cup (left \ dropped)
    /\ cut' = cut \cup (IF inTime THEN Waiting ELSE {})
    /\ UNCHANGED <<stops, naming, repositories>>

Bind(l) ==
    /\ phase \in {"up", "drain"}
    /\ listeners[l] = "binding"
    /\ listeners' = [listeners EXCEPT ![l] = "serving"]
    /\ UNCHANGED <<phase, stops, conn, orphans, cut, naming, repositories>>

\* An error of one listener ends all of them, but is passed over in a drain.
BindFails(l) ==
    /\ listeners[l] = "binding"
    /\ listeners' = [listeners EXCEPT ![l] = "ended"]
    /\ \/ phase = "up" /\ Exit(FALSE)
       \/ /\ phase = "drain"
          /\ UNCHANGED <<phase, stops, conn, orphans, cut, naming, repositories>>

Signal ==
    /\ phase = "up"
    /\ phase' = "drain"
    /\ UNCHANGED <<listeners, stops, conn, orphans, cut, naming, repositories>>

\* Graceful shutdown: a listener ends when its connections are done.
ListenerEnds(l) ==
    /\ phase = "drain"
    /\ listeners[l] = "serving"
    /\ \A r \in Waiting : conn[r].ask.listener # l
    /\ listeners' = [listeners EXCEPT ![l] = "ended"]
    /\ UNCHANGED <<phase, stops, conn, orphans, cut, naming, repositories>>

\* Mutant: the first listener that ends ends the drain.
Drained_First ==
    /\ phase = "drain"
    /\ \E l \in Listener : listeners[l] = "ended"
    /\ Exit(TRUE)
    /\ UNCHANGED listeners

Drained ==
    /\ phase = "drain"
    /\ \A l \in Listener : listeners[l] = "ended"
    /\ Exit(TRUE)
    /\ UNCHANGED listeners

\* Mutant: the timer runs only while nothing is in flight.
Deadline_Idle ==
    /\ phase = "drain" /\ Waiting = {}
    /\ \E l \in Listener : listeners[l] # "ended"
    /\ Exit(FALSE)
    /\ listeners' = [l \in Listener |-> "ended"]

Deadline ==
    /\ phase = "drain"
    /\ \E l \in Listener : listeners[l] # "ended"
    /\ Exit(FALSE)
    /\ listeners' = [l \in Listener |-> "ended"]

\* The runtime waits for blocking tasks before the process is gone.
Gone ==
    /\ phase = "exit" /\ Waiting = {}
    /\ phase' = "down"
    /\ listeners' = [l \in Listener |-> "ended"]
    /\ stops' = stops + 1
    /\ registry' = NoProjects
    /\ current' = None
    /\ UNCHANGED <<conn, orphans, cut, file, holder, added, repositories>>

\* The process is killed, and the machine or other processes may be too.
Crash ==
    /\ phase # "down"
    /\ phase' = "down"
    /\ listeners' = [l \in Listener |-> "ended"]
    /\ \E left \in SUBSET (Elsewhere \cup orphans) :
        /\ conn' = [r \in Conn |-> IF r \in left THEN conn[r] ELSE Free]
        /\ orphans' = left
    /\ holder' = None
    /\ stops' = stops + 1
    /\ registry' = NoProjects
    /\ current' = None
    /\ UNCHANGED <<cut, file, added, repositories>>

(***************************************************************************)
(* A request                                                               *)
(***************************************************************************)
\* The bounds: requests under way are counted with what is there.
Underway(op) == Cardinality({r \in Active : conn[r].ask.op = op})
Room == Cardinality(DOMAIN file) + Underway("add") < MaxProjects
WithinBounds(op) ==
    /\ op = "add" => Room
    /\ op = "write" => Cardinality(Events) + Underway("write") < MaxEvents

Go(r, c) == conn' = [conn EXCEPT ![r] = c]
Goto(r, step) == Go(r, [conn[r] EXCEPT !.step = step])

Accept(r, request) ==
    /\ phase = "up"
    /\ WithinBounds(request.op)
    /\ conn[r] = Free
    /\ listeners[request.listener] = "serving"
    /\ Go(r, [Free EXCEPT !.step = "accepted", !.ask = request])
    /\ UNCHANGED <<process, orphans, cut, naming, repositories>>

\* The answer is sent, unless serve_listeners has returned or given up on it.
Answer(r) ==
    /\ conn[r].step \in {"answer", "refused"}
    /\ Go(r, Free)
    /\ orphans' = orphans \ {r}
    /\ LET c == conn[r]
           told(op) == /\ phase # "exit" /\ r \notin orphans
                       /\ c.step = "answer" /\ c.ask.op = op
       IN  /\ added' = IF told("add") THEN added \cup {<<c.name, c.ask.repo>>} ELSE added
           /\ stored' = IF told("write") THEN [stored EXCEPT ![c.repo] = @ \cup {c.event}]
                        ELSE stored
    /\ UNCHANGED <<process, cut, file, registry, current, holder, files, log, overlapped>>

(***************************************************************************)
(* Projects                                                                *)
(***************************************************************************)
\* A name or a configuration that does not validate, before any lock, or a file
\* that cannot be read or parsed, which leaves the mutex as it was.
RefuseProject(r) ==
    /\ Is(r, "add", "accepted")
    /\ Goto(r, "refused")
    /\ UNCHANGED <<process, orphans, cut, naming, repositories>>

\* persist_project_config reads the file under the registry's mutex.
\* Mutant: the file is read and written before the mutex is taken.
ReadConfig_NoMutex(r) ==
    /\ Is(r, "add", "accepted")
    /\ Go(r, [conn[r] EXCEPT !.step = "read", !.doc = file])
    /\ UNCHANGED <<process, orphans, cut, naming, repositories>>

ReadConfig(r) ==
    /\ Is(r, "add", "accepted")
    /\ holder = None
    /\ holder' = r
    /\ Go(r, [conn[r] EXCEPT !.step = "read", !.doc = file])
    /\ UNCHANGED <<process, orphans, cut, file, registry, current, added, repositories>>

\* The file is replaced whole (temporary file and rename).
WriteConfig(r) ==
    /\ Is(r, "add", "read")
    /\ LET taken == DOMAIN registry \cup DOMAIN conn[r].doc
           base == conn[r].ask.base
           free == {n \in 1..MaxProjects : <<base, n>> \notin taken}
           name == <<base, Min(free)>>
       IN  /\ file' = Put(conn[r].doc, name, conn[r].ask.repo)
           /\ Go(r, [conn[r] EXCEPT !.step = "persisted", !.name = name])
    /\ UNCHANGED <<process, orphans, cut, registry, current, holder, added, repositories>>

\* The file cannot be replaced: nothing is changed, and the mutex is released.
WriteConfigFails(r) ==
    /\ Is(r, "add", "read")
    /\ holder' = IF holder = r THEN None ELSE holder
    /\ Goto(r, "refused")
    /\ UNCHANGED <<process, orphans, cut, file, registry, current, added, repositories>>

\* insert_named refuses a name that is there, and the mutex is released.
InsertNamed(r) ==
    /\ Is(r, "add", "persisted")
    /\ holder' = IF holder = r THEN None ELSE holder
    /\ IF conn[r].name \in DOMAIN registry
       THEN Goto(r, "refused") /\ UNCHANGED registry
       ELSE /\ registry' = Put(registry, conn[r].name, conn[r].ask.repo)
            /\ Goto(r, IF conn[r].ask.use THEN "inserted" ELSE "answer")
    /\ UNCHANGED <<process, orphans, cut, file, current, added, repositories>>

\* Mutant: the name is not looked up.
FindProject_Any(r) ==
    /\ Is(r, "use", "accepted")
    /\ holder = None
    /\ Goto(r, "found")
    /\ UNCHANGED <<process, orphans, cut, naming, repositories>>

FindProject(r) ==
    /\ Is(r, "use", "accepted")
    /\ holder = None
    /\ Goto(r, IF conn[r].ask.name \in DOMAIN registry THEN "found" ELSE "refused")
    /\ UNCHANGED <<process, orphans, cut, naming, repositories>>

SetCurrent(r) ==
    /\ \/ Is(r, "add", "inserted") /\ current' = conn[r].name
       \/ Is(r, "use", "found") /\ current' = conn[r].ask.name
    /\ Goto(r, "answer")
    /\ UNCHANGED <<process, orphans, cut, file, registry, holder, added, repositories>>

(***************************************************************************)
(* Work in a repository                                                    *)
(***************************************************************************)
\* A write names its project, a read may mean the default one.
Resolvable(r) ==
    IF conn[r].ask.name # None THEN conn[r].ask.name \in DOMAIN registry
    ELSE conn[r].ask.op = "read" /\ Default # None

Resolve(r) ==
    /\ Run(r, "accepted")
    /\ holder = None
    /\ LET name == IF conn[r].ask.name = None THEN Default ELSE conn[r].ask.name
       IN  IF Resolvable(r)
           THEN Go(r, [conn[r] EXCEPT !.step = "resolved", !.repo = registry[name]])
           ELSE Goto(r, "refused")
    /\ UNCHANGED <<process, orphans, cut, naming, repositories>>

Creators(repo) ==
    {q \in Conn : (Run(q, "create") \/ Run(q, "write")) /\ conn[q].repo = repo}

\* LocalEnv::load reads workspace.json.  So does the RuntimeEnv::load of an stl,
\* but only if there is a database.  A torn file does not parse; a file that is
\* there can be read.
\* Mutant: an id is made whether or not there is one.
LoadWorkspace_Anew(r) ==
    /\ Run(r, "resolved") /\ (phase # "exit" \/ r \in orphans)
    /\ Go(r, [conn[r] EXCEPT !.step = "create", !.id = r])
    /\ UNCHANGED <<process, orphans, cut, naming, repositories>>

LoadWorkspace(r) ==
    /\ Run(r, "resolved") /\ (phase # "exit" \/ r \in orphans)
    /\ LET repo == conn[r].repo
           found == workspace[repo]
           unread == repo \in Stl /\ repo \notin opened
       IN  /\ \/ unread /\ Go(r, [conn[r] EXCEPT !.step = "append", !.id = Client])
              \/ /\ ~unread /\ found = None
                 /\ Go(r, [conn[r] EXCEPT !.step = "create", !.id = r])
              \/ ~unread /\ found = Torn /\ Goto(r, "refused")
              \/ /\ ~unread /\ found \notin {None, Torn}
                 /\ Go(r, [conn[r] EXCEPT !.step = "append", !.id = found])
           /\ overlapped' = overlapped \cup
                  (IF ~unread /\ found = None /\ Creators(repo) # {} THEN {repo} ELSE {})
    /\ UNCHANGED <<process, orphans, cut, naming, files, log, stored>>

\* A new id, whoever may have written one since: fs::write opens the file,
\* which empties it, and then writes it.
OpenWorkspace(r) ==
    /\ Run(r, "create")
    /\ workspace' = [workspace EXCEPT ![conn[r].repo] = Torn]
    /\ Goto(r, "write")
    /\ UNCHANGED <<process, orphans, cut, naming, opened, log, overlapped, stored>>

\* Mutant: the id is used though the file was not written.
CreateWorkspace_NotSaved(r) ==
    /\ Run(r, "write")
    /\ Goto(r, "append")
    /\ UNCHANGED <<process, orphans, cut, naming, repositories>>

CreateWorkspace(r) ==
    /\ Run(r, "write")
    /\ workspace' = [workspace EXCEPT ![conn[r].repo] = conn[r].id]
    /\ Goto(r, "append")
    /\ UNCHANGED <<process, orphans, cut, naming, opened, log, overlapped, stored>>

\* The database is opened, which creates it, and one event appended, or a
\* listing read.
Store(r) ==
    /\ Run(r, "append")
    /\ opened' = opened \cup {conn[r].repo}
    /\ IF conn[r].ask.op = "read" THEN Goto(r, "answer") /\ UNCHANGED log
       ELSE LET n == Cardinality(Events) + 1
            IN  /\ log' = [log EXCEPT ![conn[r].repo] = @ \cup {[event |-> n, id |-> conn[r].id]}]
                /\ Go(r, [conn[r] EXCEPT !.step = "answer", !.event = n])
    /\ UNCHANGED <<process, orphans, cut, naming, workspace, overlapped, stored>>

\* local_backend_call works on the repository's database itself, the other
\* backends have it done by an stl or by another server.
Append(r) == conn[r].step = "append" /\ conn[r].repo \notin Http \cup Stl /\ Store(r)
Forward(r) == conn[r].step = "append" /\ conn[r].repo \in Http \cup Stl /\ Store(r)

\* workspace.json is not written, the database does not open or is busy, the
\* task is not there.
Fails(r) ==
    /\ Run(r, "write") \/ Run(r, "append")
    /\ Goto(r, "refused")
    /\ opened' \in {opened, IF Run(r, "append") THEN opened \cup {conn[r].repo} ELSE opened}
    /\ UNCHANGED <<process, orphans, cut, naming, workspace, log, overlapped, stored>>

\* The gateway gives up on the other side and answers with a failure; the other
\* side goes on.
TimeOut(r) ==
    /\ r \in Elsewhere \ orphans
    /\ orphans' = orphans \cup {r}
    /\ UNCHANGED <<process, conn, cut, naming, repositories>>

(***************************************************************************)
(* Requests of the HTTP routes and of the MCP tools                        *)
(***************************************************************************)
ProjectsRequest(r) ==
    \E request \in Asked : request.op \in {"add", "use"} /\ Accept(r, request)

WorkRequest(r) ==
    \E request \in Asked : request.op \in {"read", "write"} /\ Accept(r, request)

\* The tools require a project where the service does.
McpRequest(r) ==
    \E request \in Asked :
        /\ request.op = "write" => request.name # None
        /\ Accept(r, request)

\* The owner adds a project to the file, while nobody else writes it.
EditConfig(edit) ==
    /\ \A r \in Conn : ~Is(r, "add", "read")
    /\ Room
    /\ edit.name \notin DOMAIN file
    /\ file' = Put(file, edit.name, edit.repo)
    /\ added' = added \cup {<<edit.name, edit.repo>>}
    /\ UNCHANGED <<process, conn, orphans, cut, registry, current, holder, repositories>>

\* On the way to a blocking task when the process exits.
Forsaken(r) ==
    /\ phase = "exit" /\ Run(r, "resolved") /\ r \notin orphans
    /\ Go(r, Free)
    /\ UNCHANGED <<process, orphans, cut, naming, repositories>>

Finish(r) ==
    \/ RefuseProject(r) \/ ReadConfig(r) \/ WriteConfig(r) \/ WriteConfigFails(r) \/ InsertNamed(r)
    \/ FindProject(r) \/ SetCurrent(r)
    \/ Resolve(r) \/ Forsaken(r) \/ LoadWorkspace(r) \/ OpenWorkspace(r) \/ CreateWorkspace(r)
    \/ Append(r) \/ Forward(r) \/ Fails(r)
    \/ Answer(r)

Step(r) == Finish(r) \/ TimeOut(r)

Next ==
    \/ Start \/ Signal \/ Drained \/ Deadline \/ Gone \/ Crash
    \/ \E l \in Listener : Bind(l) \/ BindFails(l) \/ ListenerEnds(l)
    \/ \E r \in Conn : ProjectsRequest(r) \/ WorkRequest(r) \/ McpRequest(r) \/ Step(r)
    \/ \E edit \in Edits : EditConfig(edit)

\* A listener binds or fails to, and notices the signal; the deadline is a
\* timer; blocking work ends, and so does the process after it.
Fairness ==
    /\ \A l \in Listener : WF_vars(Bind(l)) /\ WF_vars(ListenerEnds(l))
    /\ WF_vars(Drained) /\ WF_vars(Deadline) /\ WF_vars(Gone)
    /\ \A r \in Conn : WF_vars(phase = "exit" /\ Finish(r))

Spec == Init /\ [][Next]_vars /\ Fairness

(***************************************************************************)
(* Properties                                                              *)
(***************************************************************************)
\* A project reported as added, or written into the file by its owner, keeps
\* its name and repository in the file, whatever is added at the same time and
\* wherever the process ends; and the running gateway never means another
\* repository by a name than the file does.
AddedStays ==
    /\ \A a \in added : a[1] \in DOMAIN file /\ file[a[1]] = a[2]
    /\ \A n \in DOMAIN registry : n \in DOMAIN file /\ file[n] = registry[n]

\* The workspace of a repository is "derived the same way the `stl` CLI derives
\* it, so in-process execution observes identical workspace ... state" (comment
\* on LocalEnv): a write that was reported as stored is listed in its
\* repository's workspace, by whichever process finds its workspace.json.
Listed(repo, n, ids) == \E e \in log[repo] : e.event = n /\ e.id \in ids

StoredIsListed ==
    \A repo \in Repo : workspace[repo] \notin {None, Torn} =>
        \A n \in stored[repo] : Listed(repo, n, {workspace[repo]})

\* What is left of that: a write that was reported as stored is in the log for
\* good, and listed, but for two cases.  An stl that found no database has
\* stored it under the client's name, or the first two requests of its
\* repository overlapped and each made an id.  Nothing else takes the id of a
\* repository from under a write: no timed-out request that goes on, no crash
\* that leaves a torn workspace.json, no later request.
StoredStaysListed ==
    \A repo \in Repo : \A n \in stored[repo] :
        IF repo \in overlapped THEN \E e \in log[repo] : e.event = n
        ELSE Listed(repo, n, {workspace[repo], Client})

\* docs/operations.md: the servers "stop accepting new connections, and drain
\* in-flight requests": a drain that is over before the deadline has answered
\* every request of every listener.
DrainAnswers == cut = {}

\* A signal ends the process, whatever its requests wait for.
SignalStops == (phase = "drain") ~> (phase = "down")
=============================================================================
