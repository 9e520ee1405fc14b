----------------------------- MODULE Knowledge -----------------------------
(***************************************************************************)
(* What the agents of one repository know together in local mode: the      *)
(* memories and typed findings that stl commands, the MCP server and the   *)
(* HTTP app append (src/src/memory.rs), how recall finds them again, and   *)
(* the registry of adapters with its selection, merge plan and manifest    *)
(* (src/src/adapter).                                                      *)
(*                                                                         *)
(* A process reads its environment once, when it starts, and then runs one *)
(* command, or as a server many.  Every command is a step on the database. *)
(* The environment says under which workspace id it stores and recalls.    *)
(*                                                                         *)
(* An event's words are its content, title, tags and metadata, each a word *)
(* of one character.  Times may be equal; ids are random and never are.    *)
(* All events come from one checkout, so repository and branch, which      *)
(* recall also weighs, agree.  The vectors are left out: how well an       *)
(* adapter fits is any number of hundredths, and so is a weight.           *)
(***************************************************************************)
EXTENDS Integers, Sequences, FiniteSets, SequencesExt

CONSTANTS
    Proc,        \* processes: commands and servers
    Server,      \* those that go on after a command
    Type,        \* event types, with "memory", "decision" and "message"
    Word,        \* words, as numbers in the order of their bytes
    Lower,       \* str::to_lowercase of a word
    AsciiLower,  \* lower() of SQLite, which knows ASCII only
    AnyChar,     \* the word "_", which LIKE takes for any character
    AnyText,     \* the word "%", which LIKE takes for any characters
    Text,        \* contents: sequences of words
    Query,       \* what recall is asked for, a sequence of words too
    AdapterId,   \* ids and names of adapters, as numbers, in order
    Fit,         \* similarities, in hundredths
    TopK,        \* values of --top-k
    MinScore,    \* values of --min-score, in hundredths
    Limit,       \* limit of a listing (50)
    MaxTokens,   \* tokens of a query looked up one by one (8)
    MaxClock,    \* bound: events stored and adapters registered
    MaxIds,      \* bound: workspace ids created
    Torn,        \* a workspace.json that was opened and not written
    None

ASSUME KnowledgeAssumption ==
    /\ Server \subseteq Proc
    /\ {"memory", "decision", "message"} \subseteq Type
    /\ Limit \in Nat \ {0}
    /\ TopK \subseteq Nat
    /\ MaxTokens \in Nat
    /\ Word \subseteq Nat
    /\ Lower \in [Word -> Word] /\ AsciiLower \in [Word -> Word]
    /\ \A w \in Word : Lower[Lower[w]] = Lower[w] /\ Lower[AsciiLower[w]] = Lower[w]
    /\ Text \subseteq Seq(Word) /\ Query \subseteq Seq(Word)
    /\ {None, Torn} \cap Nat = {} /\ None # Torn
    /\ AdapterId \subseteq Nat
    /\ Fit \subseteq Int /\ MinScore \subseteq Int
    /\ MaxClock \in Nat

VARIABLES
    clock,       \* events stored and adapters registered
    database,    \* does .shuttle/shuttle.db exist
    workspace,   \* the id in .shuttle/workspace.json, Torn or None
    ids,         \* workspace ids created
    env,         \* the environment of each process that runs
    log,         \* the events
    registry,    \* the registered adapters, by id
    cache,       \* the last selection
    manifest     \* the last manifest printed

vars == <<clock, database, workspace, ids, env, log, registry, cache, manifest>>

\* The workspace id of a process that finds no database: its client id.
Client == 0

Init ==
    /\ clock = 0
    /\ database = FALSE
    /\ workspace = None
    /\ ids = 0
    /\ env = [p \in Proc |-> None]
    /\ log = {}
    /\ registry = {}
    /\ cache = <<>>
    /\ manifest = [base_model |-> None, adapters |-> <<>>]

(***************************************************************************)
(* Recall                                                                  *)
(***************************************************************************)
\* ORDER BY created_at DESC, id DESC LIMIT n in store.rs, and a sort that takes
\* equal times the other way round, with a truncate, in memory.rs.
Listing(n, S) ==
    {e \in S : Cardinality({f \in S : f.at > e.at \/ (f.at = e.at /\ f.id > e.id)}) < n}
Newest(n, S) ==
    {e \in S : Cardinality({f \in S : f.at > e.at \/ (f.at = e.at /\ f.id < e.id)}) < n}

\* lower(text) LIKE "%query%", the query lowered by Rust: where its words end in
\* the text.  A "%" between blanks stands for one word or more.
Like(text, query) ==
    \E end \in [0..Len(query) -> 0..Len(text)] : \A i \in 1..Len(query) :
        LET word == Lower[query[i]]
        IN  IF word = AnyText THEN end[i] > end[i - 1]
            ELSE /\ end[i] = end[i - 1] + 1
                 /\ word = AnyChar \/ AsciiLower[text[end[i]]] = word

\* Does a text contain a query, whatever the case of its letters.
Includes(text, query) ==
    \E i \in 0..(Len(text) - Len(query)) :
        \A j \in 1..Len(query) : Lower[text[i + j]] = Lower[query[j]]

\* The first MaxTokens words of a query in order, each once.
Tokens(query) ==
    {w \in ToSet(query) : Cardinality({v \in ToSet(query) : v < w}) < MaxTokens}

\* store.list of one type; a workspace of None is any.
Listed(type, ws) == {e \in log : e.type = type /\ ws \in {None, e.ws}}
Search(type, ws, query) == Listing(Limit, {e \in Listed(type, ws) : Like(e.words, query)})

Candidates(type, ws, query) ==
    Newest(Limit, UNION ({Search(type, ws, query)} \cup
                         {Search(type, ws, <<w>>) : w \in Tokens(query)}))

Kinds == Type \ {"message"}

\* Mutant: the results of the types are cut before they are sorted.
RecallByType_Unsorted(kind, ws, query) ==
    IF kind # None THEN Candidates(kind, ws, query)
    ELSE LET of(type) == Candidates(type, ws, query)
             rest == UNION {of(type) : type \in Kinds \ {"memory"}}
         IN  of("memory") \cup Newest(Limit - Cardinality(of("memory")), rest)

\* What the MCP server's search finds, in every workspace.
SearchMemory(query) == Candidates("memory", None, query)

\* A kind of None is every kind that counts as memory.
RecallByType(kind, ws, query) ==
    IF kind # None THEN Candidates(kind, ws, query)
    ELSE Newest(Limit, UNION {Candidates(type, ws, query) : type \in Kinds})

Score(e, query) ==
    LET hit(q) == Includes(e.words, q)
        matches == Cardinality({i \in DOMAIN query : hit(<<query[i]>>)})
    IN  (IF query # <<>> /\ hit(query) THEN 50 ELSE 10 * matches)
        + CASE e.type = "memory" -> 0 [] e.type = "decision" -> 8 [] OTHER -> 4

\* The elements of a set in a total order: the k-th has k - 1 before it.
Sorted(S, before(_, _)) ==
    [k \in 1..Cardinality(S) |-> CHOOSE e \in S : Cardinality({f \in S : before(f, e)}) = k - 1]

RankedRecall(kind, ws, query) ==
    LET before(e, f) == \/ Score(e, query) > Score(f, query)
                        \/ /\ Score(e, query) = Score(f, query)
                           /\ e.at > f.at \/ (e.at = f.at /\ e.id < f.id)
    IN  Sorted(RecallByType(kind, ws, query), before)

(***************************************************************************)
(* Adapters                                                                *)
(***************************************************************************)
\* What list_adapters may list: ORDER BY name leaves equal names in any order.
Listings == {all \in [1..Cardinality(registry) -> registry] :
    \A i, j \in 1..Cardinality(registry) : i < j => all[i] # all[j] /\ all[i].name <= all[j].name}

\* The similarity of each adapter to the project: the embedding is built from
\* files, git and events on every call, nothing is taken from the cache.
ProjectFits == [{a.id : a \in registry} -> Fit]

SelectAdapters(all, fit) ==
    LET before(i, j) == \/ fit[all[i].id] > fit[all[j].id]
                        \/ fit[all[i].id] = fit[all[j].id] /\ i < j
        order == Sorted(DOMAIN all, before)
    IN  [k \in DOMAIN order |->
            [name |-> all[order[k]].name, score |-> fit[all[order[k]].id]]]

Sum(s) ==
    LET sum[i \in 0..Len(s)] == IF i = 0 THEN 0 ELSE sum[i - 1] + s[i]
    IN  sum[Len(s)]

\* round(100 a / b), halves away from zero, for a >= 0 and b > 0.
Round2(a, b) == (200 * a + b) \div (2 * b)

Retained(selected, k, min) ==
    LET fits == {i \in DOMAIN selected : selected[i].score > 0 /\ selected[i].score >= min}
        kept == Sorted(fits, <)
    IN  [i \in 1..(IF k < Len(kept) THEN k ELSE Len(kept)) |-> selected[kept[i]]]

\* The first adapter of a name.
Named(all, name) == all[SelectInSeq(all, LAMBDA a : a.name = name)]

Total(retained) == Sum([i \in DOMAIN retained |-> retained[i].score])

\* Mutant: what rounding loses goes to the last.
Weights_Last(retained) ==
    LET total == Total(retained)
        rounded == [i \in DOMAIN retained |-> Round2(retained[i].score, total)]
        rest == 100 - Sum(rounded)
    IN  [i \in DOMAIN retained |->
            IF i = Len(retained) THEN rounded[i] + rest ELSE rounded[i]]

\* Weights in hundredths; what rounding loses goes to the first.
Weights(retained) ==
    LET total == Total(retained)
        rounded == [i \in DOMAIN retained |-> Round2(retained[i].score, total)]
        rest == 100 - Sum(rounded)
    IN  [i \in DOMAIN retained |-> IF i = 1 THEN rounded[1] + rest ELSE rounded[i]]

MergePlan(all, selected, k, min) ==
    LET retained == Retained(selected, k, min)
        weight == Weights(retained)
    IN  [base_model |-> IF retained = <<>> THEN None ELSE Named(all, retained[1].name).base_model,
         adapters |-> [i \in DOMAIN retained |->
                         [name |-> retained[i].name, weight |-> weight[i]]]]

ExportManifest(all, plan) ==
    [plan EXCEPT !.adapters = [i \in DOMAIN plan.adapters |->
        [name |-> plan.adapters[i].name, weight |-> plan.adapters[i].weight,
         path |-> Named(all, plan.adapters[i].name).path]]]

(***************************************************************************)
(* Environments                                                            *)
(***************************************************************************)
Creating(p) == env[p] # None /\ env[p].step \in {"create", "write"}
Ready(p) == env[p] # None /\ env[p].step = "ready"

\* "settled" is history: no process can change workspace.json any more.
Settled == workspace \notin {None, Torn} /\ \A p \in Proc : ~Creating(p)

Environment(ws, step) == [ws |-> ws, step |-> step, settled |-> Settled, adapter |-> None]

\* RuntimeEnv::load, up to a missing workspace.json.  A torn one does not parse,
\* and the process ends.
Load(p) ==
    /\ env[p] = None
    /\ database => workspace # Torn
    /\ LET missing == database /\ workspace = None
           ws == IF ~database THEN Client
                 ELSE IF missing THEN ids + 1 ELSE workspace
       IN  /\ missing => ids < MaxIds
           /\ ids' = IF missing THEN ids + 1 ELSE ids
           /\ env' = [env EXCEPT ![p] = Environment(ws, IF missing THEN "create" ELSE "ready")]
    /\ UNCHANGED <<clock, database, workspace, log, registry, cache, manifest>>

\* fs::write empties the file, over an id that came in between, and then writes
\* the new one.
OpenWorkspace(p) ==
    /\ env[p] # None /\ env[p].step = "create"
    /\ workspace' = Torn
    /\ env' = [env EXCEPT ![p].step = "write"]
    /\ UNCHANGED <<clock, database, ids, log, registry, cache, manifest>>

WriteWorkspace(p) ==
    /\ env[p] # None /\ env[p].step = "write"
    /\ workspace' = env[p].ws
    /\ env' = [env EXCEPT ![p].step = "ready"]
    /\ UNCHANGED <<clock, database, ids, log, registry, cache, manifest>>

\* A killed command, or a server that stops.
Exit(p) ==
    /\ env[p] # None
    /\ env' = [env EXCEPT ![p] = None]
    /\ UNCHANGED <<clock, database, workspace, ids, log, registry, cache, manifest>>

\* A command opens the store, which creates it, and ends with its work.
Command(p) ==
    /\ Ready(p)
    /\ env[p].adapter = None
    /\ database' = TRUE
    /\ UNCHANGED <<workspace, ids>>

Done(p) == IF p \in Server THEN env ELSE [env EXCEPT ![p] = None]

Change == clock < MaxClock /\ clock' = clock + 1

(***************************************************************************)
(* Commands                                                                *)
(***************************************************************************)
\* Nothing but the database: what a command that only looks leaves behind.
Look(p) ==
    /\ Command(p)
    /\ env' = Done(p)
    /\ UNCHANGED <<clock, log, registry, cache, manifest>>

InitStore(p) == p \notin Server /\ Look(p)
Recall(p) == p \notin Server /\ Look(p)
ShowContext(p) == Look(p)

\* The lists of the HTTP app, its recall, and the search of the MCP server.
Dashboard(p) == p \in Server /\ Look(p)
RecallPosted(p) == p \in Server /\ Look(p)
SearchTool(p) == p \in Server /\ Look(p)

AppendEvent(p, type, words) ==
    /\ Command(p)
    /\ Change
    /\ \E at \in {clock, clock'}, id \in 1..MaxClock :
        /\ \A e \in log : e.id # id
        /\ log' = log \cup {[id |-> id, at |-> at, ws |-> env[p].ws, type |-> type,
                             words |-> words, settled |-> env[p].settled]}
    /\ env' = Done(p)
    /\ UNCHANGED <<registry, cache, manifest>>

Send(p, words) == AppendEvent(p, "message", words)

\* stl remember, decide, observe, pattern, fact and bug.
Remember(p, type, words) ==
    /\ p \notin Server
    /\ type \in Kinds
    /\ AppendEvent(p, type, words)

\* The same of a message, which may be of any workspace.
RememberMessage(p, type) ==
    /\ p \notin Server
    /\ type \in Kinds
    /\ \E e \in log : e.type = "message" /\ AppendEvent(p, type, e.words)

\* The HTTP app takes every kind, the MCP server only memories.
RememberPosted(p, type, words) ==
    /\ p \in Server
    /\ type \in Kinds
    /\ AppendEvent(p, type, words)

RememberTool(p, words) == p \in Server /\ AppendEvent(p, "memory", words)

Upsert(adapter) == {a \in registry : a.id # adapter.id} \cup {adapter}

Register(p, id, name) ==
    /\ p \notin Server
    /\ Command(p)
    /\ Change
    /\ registry' = Upsert([id |-> id, name |-> name, path |-> id, base_model |-> id])
    /\ env' = Done(p)
    /\ UNCHANGED <<log, cache, manifest>>

\* The document is written and the runner started; another process may work
\* while it runs.
Doc2Lora(p, name) ==
    /\ p \notin Server
    /\ clock < MaxClock
    /\ Command(p)
    /\ env' = [env EXCEPT ![p].adapter = name]
    /\ UNCHANGED <<clock, log, registry, cache, manifest>>

\* The runner cannot be started, fails, or answers with no manifest: the
\* command ends and registers nothing.
GenerationFails(p) ==
    /\ Ready(p)
    /\ env[p].adapter # None
    /\ env' = Done(p)
    /\ UNCHANGED <<clock, database, workspace, ids, log, registry, cache, manifest>>

Generated(p) ==
    /\ Ready(p)
    /\ env[p].adapter # None
    /\ Change
    /\ LET name == env[p].adapter
       IN  registry' = Upsert([id |-> name, name |-> name, path |-> name, base_model |-> name])
    /\ env' = Done(p)
    /\ UNCHANGED <<database, workspace, ids, log, cache, manifest>>

\* INSERT OR REPLACE, by repository, branch and commit.
PutProjectCache(selected) == cache' = selected

IndexProject(p) ==
    /\ p \notin Server
    /\ Command(p)
    /\ PutProjectCache(<<>>)
    /\ env' = Done(p)
    /\ UNCHANGED <<clock, log, registry, manifest>>

\* The adapters are listed once, for the selection and for what is made of it.
SelectForProject(p, all) ==
    /\ p \notin Server
    /\ Command(p)
    /\ all \in Listings
    /\ \E fit \in ProjectFits : PutProjectCache(SelectAdapters(all, fit))
    /\ env' = Done(p)
    /\ UNCHANGED <<clock, log, registry>>

\* select, and merge, which only prints its plan.
Select(p) == \E all \in Listings : SelectForProject(p, all) /\ UNCHANGED manifest

Export(p, k, min) == \E all \in Listings :
    /\ SelectForProject(p, all)
    /\ manifest' = ExportManifest(all, MergePlan(all, cache', k, min))

Next == \E p \in Proc :
    \/ Load(p)
    \/ OpenWorkspace(p)
    \/ WriteWorkspace(p)
    \/ Exit(p)
    \/ InitStore(p)
    \/ Recall(p)
    \/ ShowContext(p)
    \/ Dashboard(p)
    \/ RecallPosted(p)
    \/ SearchTool(p)
    \/ \E words \in Text : Send(p, words)
    \/ \E type \in Type, words \in Text : Remember(p, type, words)
    \/ \E type \in Type, words \in Text : RememberPosted(p, type, words)
    \/ \E words \in Text : RememberTool(p, words)
    \/ \E type \in Type : RememberMessage(p, type)
    \/ \E id, name \in AdapterId : Register(p, id, name)
    \/ \E name \in AdapterId : Doc2Lora(p, name)
    \/ GenerationFails(p)
    \/ Generated(p)
    \/ IndexProject(p)
    \/ Select(p)
    \/ \E k \in TopK, min \in MinScore : Export(p, k, min)

Spec == Init /\ [][Next]_vars

(***************************************************************************)
(* Properties                                                              *)
(***************************************************************************)
\* Does a query find an event, and mean it: whole, or by one of its tokens.
Found(query, e) == Like(e.words, query) \/ \E w \in Tokens(query) : Like(e.words, <<w>>)
Meant(query, e) ==
    Includes(e.words, query) \/ \E w \in Tokens(query) : Includes(e.words, <<w>>)

\* A query without "_" and "%", an event without a letter that only Rust lowers.
Plain(query) == \A i \in DOMAIN query : Lower[query[i]] \notin {AnyChar, AnyText}
AsciiCase(e) == \A i \in DOMAIN e.words : AsciiLower[e.words[i]] = Lower[e.words[i]]

Buried(e, S) == Cardinality({f \in S \ {e} : f.at >= e.at}) >= Limit

\* What a process remembered, every later process recalls, by a query or by a
\* token of it, whatever the case of ASCII letters, by kind or among all kinds,
\* unless as many events that are not older match as a listing holds; and what is
\* recalled contains the query or a token, unless that has a "_" or "%", is of the
\* kind and workspace, and comes once.  "Later" leaves out what was stored, or is
\* asked, by a process that started before workspace.json was there for good
\* (src/src/bin/stl.rs:1789).  The MCP server's search is not cut to a workspace
\* and finds those memories too.
\* Code: memory.rs recall_by_type, the environment of stl.rs, the LIKE of
\* store.rs list; each cuts at its own limit, in its own order.
RememberedIsRecalled ==
    /\ \A ws \in {env[p].ws : p \in {q \in Proc : Ready(q)}},
          kind \in Kinds \cup {None}, query \in Query :
        LET types == IF kind = None THEN Kinds ELSE {kind}
            matching == {e \in log : e.type \in types /\ e.ws = ws /\ Found(query, e)}
            found == RankedRecall(kind, ws, query)
            later == {e \in log : e.type \in types /\ e.settled /\ AsciiCase(e)
                                  /\ Meant(query, e)}
        IN  /\ ToSet(found) \subseteq matching
            /\ Plain(query) => \A e \in ToSet(found) : Meant(query, e)
            /\ Len(found) = Cardinality(ToSet(found))
            /\ (\E p \in Proc : Ready(p) /\ env[p].ws = ws /\ env[p].settled) =>
                 \A e \in later : e \in ToSet(found) \/ Buried(e, matching)
    /\ \A query \in Query :
        LET matching == {e \in log : e.type = "memory" /\ Found(query, e)}
        IN  \A e \in log : e.type = "memory" /\ AsciiCase(e) /\ Meant(query, e) =>
                e \in SearchMemory(query) \/ Buried(e, matching)

\* README.md:98: "Recall by text": what was remembered is recalled by its own
\* text, unless a whole listing comes before it.
\* Code: the LIKE of store.rs list, which compares text that SQLite lowered with a
\* query that Rust lowered.
RecalledByText ==
    \A p \in Proc, e \in log :
        Ready(p) /\ env[p].settled /\ e.settled /\ e.type \in Kinds =>
            LET found == RankedRecall(None, env[p].ws, e.words)
            IN  e \in ToSet(found) \/ Len(found) >= Limit

\* A manifest that lists adapters divides exactly one among them, gives each of
\* them but the first its rounded share of the scores that the selection has for
\* them, lists none that does not fit, and runs on the base model of the one it
\* lists first, as long as no two adapters share a name.  The cache is the
\* selection behind it.
\* Code: merge.rs merge_plan ("weights summing to exactly 1.0"), export.rs.
ExportIsWhole == [][manifest' # manifest /\ manifest'.adapters # <<>> =>
    LET listed == manifest'.adapters
        total == Sum([i \in DOMAIN listed |-> cache'[i].score])
        unique == \A a, b \in registry : a.name = b.name => a = b
        of(x) == {a \in registry : a.name = x.name /\ a.path = x.path}
    IN  /\ Sum([i \in DOMAIN listed |-> listed[i].weight]) = 100
        /\ \A i \in DOMAIN listed :
             /\ listed[i].name = cache'[i].name
             /\ cache'[i].score > 0
             /\ i > 1 => listed[i].weight = Round2(cache'[i].score, total)
             /\ of(listed[i]) # {}
        /\ unique => \A a \in of(listed[1]) : a.base_model = manifest'.base_model]_vars
=============================================================================
