--------------------------- MODULE Gateway_proofs ---------------------------
(***************************************************************************)
(* What a gateway keeps, for any number of listeners, requests, projects   *)
(* and repositories.                                                       *)
(***************************************************************************)
EXTENDS Gateway, FiniteSetTheorems, WellFoundedInduction, TLAPS

(***************************************************************************)
(* The invariant.                                                          *)
(***************************************************************************)
Holds(projects, name, repo) == name \in DOMAIN projects /\ projects[name] = repo

\* Who has read the file holds the mutex and has read what is there; a project
\* that was written stays in the file.
Naming(r, c) ==
    /\ c.step = "read" /\ c.ask.op = "add" => holder = r /\ c.doc = file
    /\ c.step = "persisted" /\ c.ask.op = "add" => holder = r
    /\ c.step \in {"persisted", "inserted", "answer"} /\ c.ask.op = "add" =>
           Holds(file, c.name, c.ask.repo)
    /\ c.step = "inserted" /\ c.ask.op = "add" => c.name \in DOMAIN registry
    /\ c.step = "found" /\ c.ask.op = "use" => c.ask.name \in DOMAIN registry

HolderWrites ==
    holder # None => conn[holder].step \in {"read", "persisted"} /\ conn[holder].ask.op = "add"

DefaultKnown ==
    Default # None =>
        /\ Default \in DOMAIN file
        /\ phase # "down" => Default \in DOMAIN registry

Names ==
    /\ \A r \in Conn : Naming(r, conn[r])
    /\ HolderWrites /\ AddedStays /\ DefaultKnown

\* An event that was stored is there, and listed unless the first requests of
\* its repository overlapped or an stl found no database.
Kept(repo, n) ==
    IF repo \in overlapped THEN \E e \in log[repo] : e.event = n
    ELSE Listed(repo, n, {workspace[repo], Client})

\* Unless the first requests of its repository overlapped, who has no id is the
\* only one to create it, and who has one has the repository's or its own name.
Working(r, c) ==
    c.step # "free" /\ c.ask.op \in {"read", "write"} =>
        /\ c.step \in {"resolved", "create", "write", "append"} => c.repo \in Repo
        /\ c.step = "create" => /\ c.id = r
                                /\ c.repo \in overlapped \/ workspace[c.repo] = None
        /\ c.step = "write" => /\ c.id = r
                               /\ c.repo \in overlapped \/ workspace[c.repo] = Torn
        /\ c.step = "append" => /\ c.id \in Repo \cup Conn \cup {Client}
                                /\ \/ c.repo \in overlapped
                                   \/ c.id \in {workspace[c.repo], Client}
        /\ c.step = "answer" /\ c.ask.op = "write" =>
               /\ c.repo \in Repo /\ c.event \in 1..MaxEvents
               /\ Kept(c.repo, c.event)

OneCreator ==
    \A repo \in Repo \ overlapped : \A q, r \in Creators(repo) : q = r

OneWorkspace ==
    /\ \A repo \in Repo \ overlapped : \A e \in log[repo] : e.id \in {workspace[repo], Client}
    /\ \A repo \in Repo \ Fresh : workspace[repo] \notin {None, Torn}

Works ==
    /\ \A r \in Conn : Working(r, conn[r])
    /\ OneCreator /\ OneWorkspace /\ StoredStaysListed

\* While the process does not exit, a request's listener waits for it; a process
\* that runs has not been counted as ended.  Only work in a repository is left
\* to other processes.
Served(c) ==
    phase \in {"up", "drain"} /\ c.step # "free" => listeners[c.ask.listener] = "serving"

Orphaned(c) == c.ask.op \in {"read", "write"} /\ c.step # "accepted"

Serves ==
    /\ \A r \in Conn \ orphans : Served(conn[r])
    /\ \A r \in orphans : Orphaned(conn[r])
    /\ phase = "down" => Waiting = {}
    /\ phase # "down" => stops < MaxStops
    /\ DrainAnswers

\* What is in the file and what may yet be written there.
Adding == {r \in Conn : conn[r].step \in {"accepted", "read"} /\ conn[r].ask.op = "add"}
Writing == {r \in Conn : /\ conn[r].step \in {"accepted", "resolved", "create", "write", "append"}
                         /\ conn[r].ask.op = "write"}

Counts ==
    /\ IsFiniteSet(DOMAIN file)
    /\ Cardinality(DOMAIN file) + Cardinality(Adding) <= MaxProjects
    /\ IsFiniteSet(Events)
    /\ Cardinality(Events) + Cardinality(Writing) <= MaxEvents

GatewayInv == TypeOK /\ Names /\ Works /\ Serves /\ Counts

(***************************************************************************)
(* Records and projects.                                                   *)
(***************************************************************************)
\* The fields of a connection, and what one more step makes of it.
LEMMA ConnFields ==
    ASSUME NEW c \in Connection
    PROVE  /\ c.ask \in Request \cup {None} /\ c.doc \in Projects
           /\ c.name \in Name \cup {None} /\ c.repo \in Repo \cup {None}
           /\ c.id \in Repo \cup Conn \cup {Client, None} /\ c.event \in 0..MaxEvents
           /\ \A step \in {"free", "accepted", "read", "persisted", "inserted", "found",
                           "resolved", "create", "write", "append", "answer", "refused"} :
                 /\ [c EXCEPT !.step = step] \in Connection
                 /\ [c EXCEPT !.step = step].step = step
                 /\ [c EXCEPT !.step = step].ask = c.ask
                 /\ [c EXCEPT !.step = step].doc = c.doc
                 /\ [c EXCEPT !.step = step].name = c.name
                 /\ [c EXCEPT !.step = step].repo = c.repo
                 /\ [c EXCEPT !.step = step].id = c.id
                 /\ [c EXCEPT !.step = step].event = c.event
  BY DEF Connection

\* A request's fields.
LEMMA RequestFields ==
    ASSUME NEW q \in Request
    PROVE  /\ q.listener \in Listener /\ q.op \in {"add", "use", "read", "write"}
           /\ q.op = "add" => q.base \in Base /\ q.repo \in Repo
           /\ q.op = "use" => q.name \in Name
           /\ q.op \in {"read", "write"} => q.name \in Name \cup {None}
  BY DEF Request, AddRequest, UseRequest, RunRequest

\* A registry or a file maps names to repositories.
LEMMA ProjectsType ==
    ASSUME NEW p \in Projects
    PROVE  /\ DOMAIN p \subseteq Name /\ p \in [DOMAIN p -> Repo]
           /\ \A n \in DOMAIN p : p[n] \in Repo
<1>1. PICK names \in SUBSET Name : p \in [names -> Repo]
  BY DEF Projects
<1>2. QED
  BY <1>1

\* Putting a project in adds its name and changes no other.
LEMMA PutProject ==
    ASSUME NEW p \in Projects, NEW n \in Name, NEW repo \in Repo
    PROVE  /\ Put(p, n, repo) \in Projects
           /\ DOMAIN Put(p, n, repo) = DOMAIN p \cup {n}
           /\ Holds(Put(p, n, repo), n, repo)
           /\ \A m \in DOMAIN p \ {n} : Holds(Put(p, n, repo), m, p[m])
<1>1. DOMAIN p \subseteq Name /\ \A m \in DOMAIN p : p[m] \in Repo
  BY ProjectsType
<1>2. Put(p, n, repo) \in [DOMAIN p \cup {n} -> Repo]
  BY <1>1 DEF Put
<1>3. QED
  BY <1>1, <1>2 DEF Put, Projects, Holds

\* No project and no request are typed, and claim nothing.
LEMMA FreeTyped ==
    /\ NoProjects \in Projects /\ DOMAIN NoProjects = {}
    /\ Free \in Connection /\ Free.step = "free"
    /\ MaxEvents \in Nat /\ MaxProjects \in Nat /\ MaxStops \in Nat
    /\ None \notin Name /\ None \notin Conn /\ None \notin Repo /\ None \notin Request
    /\ Torn \notin Conn /\ Torn \notin Repo /\ Client \notin Conn /\ Client \notin Repo
    /\ Client # None /\ Torn # None /\ Client # Torn
<1>1. NoProjects \in [{} -> Repo]
  BY DEF NoProjects
<1>2. NoProjects \in Projects /\ DOMAIN NoProjects = {}
  BY <1>1 DEF Projects, NoProjects
<1>3. MaxEvents \in Nat /\ MaxProjects \in Nat /\ MaxStops \in Nat
      /\ None \notin Name /\ None \notin Conn /\ None \notin Repo /\ None \notin Request
      /\ Torn \notin Conn /\ Torn \notin Repo /\ Client \notin Conn /\ Client \notin Repo
      /\ Client # None /\ Torn # None /\ Client # Torn
  BY GatewayAssumption
<1>4. Free \in Connection /\ Free.step = "free"
  BY <1>2, <1>3 DEF Free, Connection
<1>5. QED
  BY <1>2, <1>3, <1>4

\* The least of some numbers is one of them.
LEMMA LeastOf ==
    ASSUME NEW T \in SUBSET Nat, T # {}
    PROVE  Min(T) \in T
<1> DEFINE Less == OpToRel(<, Nat)
<1>1. \A m, n \in Nat : m < n => <<m, n>> \in Less
  BY DEF OpToRel
<1>2. IsWellFoundedOn(Less, Nat)
  BY NatLessThanWellFounded, Zenon
<1> HIDE DEF Less
<1>3. PICK n \in T : \A m \in T : ~ (<<m, n>> \in Less)
  BY <1>2, WFMin
<1>4. \A m \in T : n <= m
  <2>1. \A m \in T : ~ (m < n)
    BY <1>1, <1>3
  <2>2. QED
    BY <1>3, <2>1
<1>5. QED
  BY <1>4 DEF Min

(***************************************************************************)
(* One connection takes a step.                                            *)
(***************************************************************************)
Repositories == <<workspace, log, overlapped, stored>>

\* What is true of one connection stays true while the file and the registry
\* only grow,
LEMMA NamingStays ==
    ASSUME NEW q, NEW d, Naming(q, d),
           \A n \in DOMAIN file : Holds(file', n, file[n]),
           \A n \in DOMAIN registry : n \in DOMAIN registry',
           d.step = "read" /\ d.ask.op = "add" => file' = file,
           d.step \in {"read", "persisted"} /\ d.ask.op = "add" => holder' = holder
    PROVE  Naming(q, d)'
  BY DEF Naming, Holds

\* and while the logs do:
LEMMA KeptStays ==
    ASSUME NEW repo \in Repo, NEW n, Kept(repo, n), workspace' = workspace,
           log[repo] \subseteq log'[repo], overlapped \subseteq overlapped'
    PROVE  Kept(repo, n)'
  BY DEF Kept, Listed

\* what is kept stays so, and everything else about the work.
LEMMA WorkingStays ==
    ASSUME NEW q, NEW d, Working(q, d), workspace' = workspace,
           \A repo \in Repo : log[repo] \subseteq log'[repo],
           overlapped \subseteq overlapped'
    PROVE  Working(q, d)'
<1>1. \A repo \in Repo : \A n : Kept(repo, n) => Kept(repo, n)'
  BY KeptStays
<1>2. QED
  BY <1>1 DEF Working

\* A step of one connection that changes nothing else of the process,
LEMMA TypeStep ==
    ASSUME TypeOK, NEW r \in Conn, NEW c \in Connection, Go(r, c),
           c.step # "free" => c.ask \in Request,
           holder' \in Conn \cup {None},
           holder' # None => conn'[holder'].step # "free",
           UNCHANGED <<process, cut, workspace>>, opened' \subseteq Repo,
           orphans' = IF c.step = "free" THEN orphans \ {r} ELSE orphans,
           phase # "down" => current' \in DOMAIN registry \cup {None},
           file' \in Projects, registry' \in Projects,
           \A n \in DOMAIN registry : n \in DOMAIN registry',
           log' \in [Repo -> SUBSET Event], overlapped' \subseteq Fresh,
           added' \subseteq Name \X Repo, stored' \in [Repo -> SUBSET (1..MaxEvents)]
    PROVE  TypeOK'
<1>1. conn' \in [Conn -> Connection] /\ conn'[r] = c
      /\ \A q \in Conn \ {r} : conn'[q] = conn[q]
  BY DEF Go, TypeOK
<1>2. \A q \in Active' : conn'[q].ask \in Request
  BY <1>1 DEF Active, TypeOK
<1>3. holder' \in Active' \cup {None}
  BY <1>1 DEF Active
<1>4. orphans' \subseteq Active'
  BY <1>1 DEF Active, TypeOK
<1>5. QED
  BY <1>1, <1>2, <1>3, <1>4 DEF TypeOK, process

\* and what it leaves as it was.
LEMMA NamesStep ==
    ASSUME GatewayInv, NEW r \in Conn, NEW c \in Connection, Go(r, c), Naming(r, c),
           holder # r, UNCHANGED <<phase, file, registry, holder, added>>
    PROVE  Names'
<1>1. conn'[r] = c /\ \A q \in Conn \ {r} : conn'[q] = conn[q]
  BY DEF Go, GatewayInv, TypeOK
<1>2. \A q \in Conn : Naming(q, conn'[q])
  BY <1>1 DEF GatewayInv, Names
<1>3. \A q \in Conn : Naming(q, conn[q])'
  BY <1>2 DEF Naming
<1>4. holder \in Conn \cup {None}
  BY DEF GatewayInv, TypeOK, Active
<1>5. HolderWrites'
  BY <1>1, <1>4 DEF HolderWrites, GatewayInv, Names
<1>6. QED
  BY <1>3, <1>5 DEF GatewayInv, Names, AddedStays, DefaultKnown

\* A request that goes on, but not to create a workspace, keeps Works.
LEMMA WorksStep ==
    ASSUME GatewayInv, NEW r \in Conn, NEW c \in Connection, Go(r, c), Working(r, c),
           c.step \notin {"create", "write"}, UNCHANGED Repositories
    PROVE  Works'
<1>1. conn'[r] = c /\ \A q \in Conn \ {r} : conn'[q] = conn[q]
  BY DEF Go, GatewayInv, TypeOK
<1>2. \A q \in Conn : Working(q, conn'[q])
  BY <1>1 DEF GatewayInv, Works
<1>3. \A q \in Conn : Working(q, conn[q])'
  BY <1>2 DEF Working, Kept, Listed, Repositories
<1>4. \A repo \in Repo : Creators(repo)' \subseteq Creators(repo)
  BY <1>1 DEF Creators, Run
<1>5. OneCreator'
  BY <1>4 DEF OneCreator, GatewayInv, Works, Repositories
<1>6. OneWorkspace' /\ StoredStaysListed'
  BY DEF GatewayInv, Works, OneWorkspace, StoredStaysListed, Listed, Repositories
<1>7. QED
  BY <1>3, <1>5, <1>6 DEF Works

\* A served request that goes on keeps Serves.
LEMMA ServesStep ==
    ASSUME GatewayInv, NEW r \in Conn, NEW c \in Connection, Go(r, c),
           IF r \in orphans THEN c.step = "free" \/ Orphaned(c)
           ELSE Served(c) /\ (c.step # "free" => phase # "down"),
           orphans' = IF c.step = "free" THEN orphans \ {r} ELSE orphans,
           UNCHANGED <<process, cut>>
    PROVE  Serves'
<1>1. conn'[r] = c /\ \A q \in Conn \ {r} : conn'[q] = conn[q]
  BY DEF Go, GatewayInv, TypeOK
<1>2. \A q \in Conn \ orphans' : Served(conn[q])'
  BY <1>1 DEF GatewayInv, Serves, Served, process
<1>3. phase' = "down" => Waiting' = {}
  BY <1>1 DEF GatewayInv, Serves, Waiting, Active, process
<1>4. \A q \in orphans' : Orphaned(conn'[q])
  BY <1>1 DEF GatewayInv, Serves, TypeOK, Active
<1>5. \A q \in orphans' : Orphaned(conn[q])'
  BY <1>4 DEF Orphaned
<1>6. QED
  BY <1>2, <1>3, <1>5 DEF GatewayInv, Serves, DrainAnswers, process

\* A request under way stays served, or left to another process.
LEMMA StillServed ==
    ASSUME GatewayInv, NEW r \in Conn, conn[r].step # "free", NEW c, c.ask = conn[r].ask
    PROVE  /\ conn[r].ask \in Request /\ conn[r] \in Connection
           /\ IF r \in orphans THEN c.step # "accepted" => Orphaned(c)
              ELSE Served(c) /\ phase # "down"
           /\ r \in orphans => Orphaned(conn[r])
  BY DEF GatewayInv, Serves, Served, Orphaned, Waiting, Active, TypeOK

\* Some of a finite set's members.
LEMMA FewerLeft ==
    ASSUME NEW S, IsFiniteSet(S), NEW T, T \subseteq S
    PROVE  /\ IsFiniteSet(T) /\ Cardinality(T) \in Nat /\ Cardinality(S) \in Nat
           /\ Cardinality(T) <= Cardinality(S)
           /\ \A x \in S \ T : Cardinality(T) + 1 <= Cardinality(S)
<1>1. IsFiniteSet(T) /\ Cardinality(T) \in Nat /\ Cardinality(S) \in Nat
      /\ Cardinality(T) <= Cardinality(S)
  BY FS_Subset, FS_CardinalityType
<1>2. ASSUME NEW x \in S \ T
      PROVE  Cardinality(T) + 1 <= Cardinality(S)
  <2>1. Cardinality(T \cup {x}) = Cardinality(T) + 1
    BY <1>1, <1>2, FS_AddElement
  <2>2. Cardinality(T \cup {x}) <= Cardinality(S)
    BY <1>2, FS_Subset
  <2>3. QED
    BY <2>1, <2>2
<1>3. QED
  BY <1>1, <1>2

\* One more member.
LEMMA OneMore ==
    ASSUME NEW S, IsFiniteSet(S), NEW x
    PROVE  IsFiniteSet(S \cup {x}) /\ Cardinality(S \cup {x}) <= Cardinality(S) + 1
<1>1. Cardinality(S) \in Nat
  BY FS_CardinalityType
<1>2. /\ IsFiniteSet(S \cup {x})
      /\ Cardinality(S \cup {x}) = IF x \in S THEN Cardinality(S) ELSE Cardinality(S) + 1
  BY FS_AddElement
<1>3. QED
  BY <1>1, <1>2

\* Requests come and go among finitely many connections.
LEMMA CountsTyped ==
    ASSUME GatewayInv
    PROVE  /\ IsFiniteSet(Adding) /\ IsFiniteSet(Writing)
           /\ Cardinality(Adding) \in Nat /\ Cardinality(Writing) \in Nat
           /\ Cardinality(DOMAIN file) \in Nat /\ Cardinality(Events) \in Nat
           /\ MaxProjects \in Nat /\ MaxEvents \in Nat
<1>1. IsFiniteSet(Conn) /\ MaxProjects \in Nat /\ MaxEvents \in Nat
  BY GatewayAssumption
<1>2. Adding \subseteq Conn /\ Writing \subseteq Conn
  BY DEF Adding, Writing
<1>3. QED
  BY <1>1, <1>2, FewerLeft, FS_CardinalityType DEF GatewayInv, Counts

\* Counts hold while no more requests add or write than before.
LEMMA CountsStep ==
    ASSUME GatewayInv, Adding' \subseteq Adding, Writing' \subseteq Writing,
           UNCHANGED <<file, log>>
    PROVE  Counts'
<1>1. /\ Cardinality(Adding') \in Nat /\ Cardinality(Adding') <= Cardinality(Adding)
      /\ Cardinality(Writing') \in Nat /\ Cardinality(Writing') <= Cardinality(Writing)
  BY CountsTyped, FewerLeft
<1>2. Events' = Events
  BY DEF Events
<1>3. QED
  BY <1>1, <1>2, CountsTyped DEF Counts, GatewayInv

\* Whose request is not on its way to write or create something.
LEMMA QuietStep ==
    ASSUME GatewayInv, NEW r \in Conn, NEW c \in Connection, Go(r, c), conn[r].step # "free",
           c.step = "free" \/ c.ask = conn[r].ask,
           holder # r, Naming(r, c), Working(r, c),
           c.step \notin {"accepted", "read", "create", "write"},
           c.step \in {"resolved", "append"} =>
               conn[r].step \in {"accepted", "resolved", "create", "write", "append"},
           orphans' = IF c.step = "free" THEN orphans \ {r} ELSE orphans,
           UNCHANGED <<process, cut, file, registry, holder, added>>, UNCHANGED Repositories,
           opened' \subseteq Repo,
           current' = current \/ current' \in DOMAIN registry
    PROVE  GatewayInv'
<1>1. UNCHANGED <<phase, listeners, stops, file, registry, holder, added>>
      /\ UNCHANGED Repositories /\ UNCHANGED <<workspace, log, overlapped, stored, cut, process>>
  BY DEF process, Repositories
<1>2. /\ conn[r] \in Connection /\ conn[r].ask \in Request
      /\ c.step # "free" => c.ask \in Request
      /\ IF r \in orphans THEN c.step = "free" \/ Orphaned(c)
         ELSE Served(c) /\ (c.step # "free" => phase # "down")
  <2>1. CASE c.step = "free"
    BY <2>1, StillServed DEF Served
  <2>2. CASE c.step # "free"
    BY <2>2, StillServed
  <2>3. QED
    BY <2>1, <2>2
<1>3. conn'[r] = c /\ \A q \in Conn \ {r} : conn'[q] = conn[q]
  BY DEF Go, GatewayInv, TypeOK
<1>4. TypeOK'
  <2>1. holder' \in Conn \cup {None} /\ (holder' # None => conn'[holder'].step # "free")
    BY <1>1, <1>3 DEF GatewayInv, TypeOK, Active
  <2>2. TypeOK
    BY DEF GatewayInv
  <2>3. /\ file' \in Projects /\ registry' \in Projects
        /\ \A n \in DOMAIN registry : n \in DOMAIN registry'
        /\ log' \in [Repo -> SUBSET Event] /\ overlapped' \subseteq Fresh
        /\ added' \subseteq Name \X Repo /\ stored' \in [Repo -> SUBSET (1..MaxEvents)]
        /\ phase # "down" => current' \in DOMAIN registry \cup {None}
    BY <1>1, <2>2 DEF TypeOK
  <2>4. QED
    BY <1>1, <1>2, <2>1, <2>2, <2>3, TypeStep
<1>6. Adding' \subseteq Adding /\ Writing' \subseteq Writing
  BY <1>3 DEF Adding, Writing
<1>7. Names'
  BY <1>1, NamesStep
<1>8. Works'
  BY <1>1, WorksStep
<1>9. Serves'
  BY <1>1, <1>2, ServesStep
<1>10. Counts'
  BY <1>1, <1>6, CountsStep
<1>11. QED
  BY <1>4, <1>7, <1>8, <1>9, <1>10 DEF GatewayInv

\* What a step leaves alone in the repositories.
LEMMA SameRepositories ==
    ASSUME GatewayInv, UNCHANGED repositories
    PROVE  /\ UNCHANGED Repositories /\ UNCHANGED <<workspace, log, overlapped, stored>>
           /\ opened' \subseteq Repo
  BY DEF repositories, files, Repositories, GatewayInv, TypeOK

\* Who is not at the file does not hold the mutex.
LEMMA NotHolder ==
    ASSUME GatewayInv, NEW r \in Conn,
           conn[r].step \notin {"read", "persisted"} \/ conn[r].ask.op # "add"
    PROVE  holder # r
  BY FreeTyped DEF GatewayInv, Names, HolderWrites

\* A project that does not validate is refused.
LEMMA RefuseStep ==
    ASSUME GatewayInv, NEW r \in Conn, RefuseProject(r)
    PROVE  GatewayInv'
<1> DEFINE c == [conn[r] EXCEPT !.step = "refused"]
<1>1. conn[r].step = "accepted" /\ Go(r, c)
      /\ UNCHANGED <<process, orphans, cut, file, registry, current, holder, added>>
      /\ UNCHANGED Repositories /\ opened' \subseteq Repo
  BY SameRepositories DEF RefuseProject, Is, Goto, naming
<1>2. conn[r] \in Connection
  BY <1>1, StillServed
<1>3. c \in Connection /\ c.step = "refused" /\ c.ask = conn[r].ask
  BY <1>2, ConnFields
<1> HIDE DEF c
<1>4. Naming(r, c) /\ Working(r, c)
  BY <1>3 DEF Naming, Working
<1>5. QED
  BY <1>1, <1>3, <1>4, NotHolder, QuietStep

\* use looks the name up.
LEMMA FindStep ==
    ASSUME GatewayInv, NEW r \in Conn, FindProject(r)
    PROVE  GatewayInv'
<1>1. PICK step \in {"found", "refused"} :
          /\ Goto(r, step)
          /\ step = "found" => conn[r].ask.name \in DOMAIN registry
  BY DEF FindProject
<1> DEFINE c == [conn[r] EXCEPT !.step = step]
<1>2. conn[r].step = "accepted" /\ Go(r, c)
      /\ UNCHANGED <<process, orphans, cut, file, registry, current, holder, added>>
      /\ UNCHANGED Repositories /\ opened' \subseteq Repo
  BY <1>1, SameRepositories DEF FindProject, Is, Goto, naming
<1>3. conn[r] \in Connection
  BY <1>2, StillServed
<1>4. c \in Connection /\ c.step = step /\ c.ask = conn[r].ask
  BY <1>1, <1>3 DEF Connection
<1> HIDE DEF c
<1>5. Naming(r, c) /\ Working(r, c)
  BY <1>1, <1>4 DEF Naming, Working
<1>6. QED
  BY <1>2, <1>4, <1>5, NotHolder, QuietStep

\* A project becomes the current one.
LEMMA SetCurrentStep ==
    ASSUME GatewayInv, NEW r \in Conn, SetCurrent(r)
    PROVE  GatewayInv'
<1> DEFINE c == [conn[r] EXCEPT !.step = "answer"]
<1>1. /\ conn[r].step \in {"inserted", "found"} /\ Go(r, c)
      /\ conn[r].ask.op \in {"add", "use"}
      /\ conn[r].ask.op = "add" => conn[r].step = "inserted"
      /\ UNCHANGED <<process, orphans, cut, file, registry, holder, added>>
      /\ UNCHANGED Repositories /\ opened' \subseteq Repo
  BY SameRepositories DEF SetCurrent, Is, Goto
<1>2. Naming(r, conn[r]) /\ conn[r] \in Connection
  BY <1>1, StillServed DEF GatewayInv, Names
<1>3. c \in Connection /\ c.step = "answer" /\ c.ask = conn[r].ask /\ c.name = conn[r].name
  BY <1>2, ConnFields
<1>4. current' \in DOMAIN registry
  BY <1>2 DEF SetCurrent, Naming, Is
<1> HIDE DEF c
<1>5. Naming(r, c) /\ Working(r, c)
  BY <1>1, <1>2, <1>3 DEF Naming, Working
<1>6. QED
  BY <1>1, <1>3, <1>4, <1>5, NotHolder, QuietStep

\* A request finds the repository it works in.
LEMMA ResolveStep ==
    ASSUME GatewayInv, NEW r \in Conn, Resolve(r)
    PROVE  GatewayInv'
<1>1. /\ conn[r].step = "accepted" /\ conn[r].ask.op \in {"read", "write"}
      /\ UNCHANGED <<process, orphans, cut, file, registry, current, holder, added>>
      /\ UNCHANGED Repositories /\ opened' \subseteq Repo
  BY SameRepositories DEF Resolve, Run, naming
<1>2. /\ conn[r] \in Connection /\ conn[r].ask \in Request /\ phase # "down"
  BY <1>1, StillServed DEF Orphaned
<1>3. (Default # None => Default \in DOMAIN registry) /\ registry \in Projects
  BY <1>2 DEF GatewayInv, Names, DefaultKnown, TypeOK
<1>4. PICK c \in Connection :
         /\ Go(r, c) /\ c.step \in {"resolved", "refused"} /\ c.ask = conn[r].ask
         /\ c.step = "resolved" => c.repo \in Repo
  <2>1. CASE Resolvable(r)
    <3>1. PICK repo \in Repo : Go(r, [conn[r] EXCEPT !.step = "resolved", !.repo = repo])
      BY <1>3, <2>1, ProjectsType DEF Resolve, Resolvable
    <3> DEFINE c == [conn[r] EXCEPT !.step = "resolved", !.repo = repo]
    <3>2. c \in Connection /\ c.step = "resolved" /\ c.ask = conn[r].ask /\ c.repo = repo
      BY <1>2 DEF Connection
    <3>3. QED
      BY <3>1, <3>2
  <2>2. CASE ~ Resolvable(r)
    <3> DEFINE c == [conn[r] EXCEPT !.step = "refused"]
    <3>1. Go(r, c)
      BY <2>2 DEF Resolve, Goto
    <3>2. c \in Connection /\ c.step = "refused" /\ c.ask = conn[r].ask
      BY <1>2, ConnFields
    <3>3. QED
      BY <3>1, <3>2
  <2>3. QED
    BY <2>1, <2>2
<1>5. Naming(r, c) /\ Working(r, c)
  BY <1>1, <1>4 DEF Naming, Working
<1>6. QED
  BY <1>1, <1>4, <1>5, NotHolder, QuietStep

\* The process exits before the work begins.
LEMMA ForsakenStep ==
    ASSUME GatewayInv, NEW r \in Conn, Forsaken(r)
    PROVE  GatewayInv'
<1>1. /\ conn[r].step = "resolved" /\ Go(r, Free) /\ r \notin orphans
      /\ UNCHANGED <<process, orphans, cut, file, registry, current, holder, added>>
      /\ UNCHANGED Repositories /\ opened' \subseteq Repo
  BY SameRepositories DEF Forsaken, Run, naming
<1>2. Naming(r, Free) /\ Working(r, Free) /\ Free \in Connection /\ Free.step = "free"
  BY FreeTyped DEF Naming, Working
<1>3. QED
  BY <1>1, <1>2, NotHolder, QuietStep

(***************************************************************************)
(* A project is added.                                                     *)
(***************************************************************************)
\* The other connections' part of the naming, when the holder changes at most
\* from or to the one that takes the step.
LEMMA OthersNamed ==
    ASSUME GatewayInv, NEW r \in Conn, NEW c, Go(r, c), Naming(r, c)',
           \A n \in DOMAIN file : Holds(file', n, file[n]),
           \A n \in DOMAIN registry : n \in DOMAIN registry',
           holder \in {None, r} \/ (holder' = holder /\ file' = file)
    PROVE  \A q \in Conn : Naming(q, conn[q])'
<1>1. conn'[r] = c /\ \A q \in Conn \ {r} : conn'[q] = conn[q]
  BY DEF Go, GatewayInv, TypeOK
<1>2. Naming(r, conn[r])'
  BY <1>1 DEF Naming
<1>3. ASSUME NEW q \in Conn \ {r}
      PROVE  Naming(q, conn[q])'
  <2>1. PICK d : d = conn[q]
    OBVIOUS
  <2>2. Naming(q, d) /\ d = conn'[q]
    BY <1>1, <2>1 DEF GatewayInv, Names
  <2>3. d.step \in {"read", "persisted"} /\ d.ask.op = "add" => holder = q
    BY <2>2 DEF Naming
  <2>4. d.step \in {"read", "persisted"} /\ d.ask.op = "add" => holder' = holder /\ file' = file
    BY <1>3, <2>3, FreeTyped
  <2>5. Naming(q, d)'
    BY <2>2, <2>4, NamingStays
  <2>6. QED
    BY <2>2, <2>5 DEF Naming
<1>4. QED
  BY <1>2, <1>3

\* The file is read under the mutex.
LEMMA ReadConfigStep ==
    ASSUME GatewayInv, NEW r \in Conn, ReadConfig(r)
    PROVE  GatewayInv'
<1>1. /\ conn[r].step = "accepted" /\ conn[r].ask.op = "add"
      /\ Go(r, [conn[r] EXCEPT !.step = "read", !.doc = file])
      /\ holder = None /\ holder' = r
      /\ UNCHANGED <<process, orphans, cut, file, registry, current, added>> /\ opened' \subseteq Repo
      /\ UNCHANGED <<workspace, log, overlapped, stored>> /\ UNCHANGED Repositories
      /\ phase' = phase
  BY SameRepositories DEF ReadConfig, Is, process
<1>2. /\ conn[r] \in Connection /\ conn[r].ask \in Request /\ phase # "down"
      /\ file \in Projects /\ r \notin orphans
  BY <1>1, StillServed DEF GatewayInv, TypeOK, Orphaned
<1>3. PICK c \in Connection :
         Go(r, c) /\ c.step = "read" /\ c.ask = conn[r].ask /\ c.doc = file
  <2> DEFINE d == [conn[r] EXCEPT !.step = "read", !.doc = file]
  <2>1. d \in Connection /\ d.step = "read" /\ d.ask = conn[r].ask /\ d.doc = file
    BY <1>2 DEF Connection
  <2>2. QED
    BY <1>1, <2>1
<1>4. conn'[r] = c /\ \A q \in Conn \ {r} : conn'[q] = conn[q]
  BY <1>3 DEF Go, GatewayInv, TypeOK
<1>5. TypeOK'
  BY <1>1, <1>2, <1>3, <1>4, TypeStep DEF GatewayInv, TypeOK
<1>6. Names'
  <2>1. Naming(r, c)'
    BY <1>1, <1>3 DEF Naming
  <2>2. \A q \in Conn : Naming(q, conn[q])'
    <3>1. \A n \in DOMAIN file : Holds(file', n, file[n])
      BY <1>1 DEF Holds
    <3>2. QED
      BY <1>1, <1>3, <2>1, <3>1, OthersNamed
  <2>3. HolderWrites'
    BY <1>1, <1>3, <1>4 DEF HolderWrites
  <2>4. QED
    BY <1>1, <2>2, <2>3 DEF GatewayInv, Names, AddedStays, DefaultKnown
<1>7. Works'
  <2>1. Working(r, c)
    BY <1>1, <1>3 DEF Working
  <2>2. QED
    BY <1>1, <1>3, <2>1, WorksStep
<1>8. Serves'
  BY <1>1, <1>2, <1>3, StillServed, ServesStep
<1>9. Counts'
  <2>1. Adding' \subseteq Adding /\ Writing' \subseteq Writing
    BY <1>1, <1>3, <1>4 DEF Adding, Writing
  <2>2. QED
    BY <1>1, <2>1, CountsStep
<1>10. QED
  BY <1>5, <1>6, <1>7, <1>8, <1>9 DEF GatewayInv

\* A base always has a name left.
LEMMA NameLeft ==
    ASSUME GatewayInv, NEW r \in Conn, r \in Adding, NEW base,
           NEW taken, taken = DOMAIN file,
           NEW free, free = {n \in 1..MaxProjects : <<base, n>> \notin taken}
    PROVE  Min(free) \in 1..MaxProjects /\ <<base, Min(free)>> \notin DOMAIN file
<1>1. Cardinality(DOMAIN file) + 1 <= MaxProjects
  <2>1. Cardinality(Adding) # 0
    BY CountsTyped, FS_EmptySet
  <2>2. QED
    BY <2>1, CountsTyped DEF GatewayInv, Counts
<1>2. free # {}
  <2>1. SUFFICES ASSUME free = {}
                 PROVE  FALSE
    OBVIOUS
  <2> DEFINE f == [n \in 1..MaxProjects |-> <<base, n>>]
  <2>2. f \in Injection(1..MaxProjects, DOMAIN file)
    BY <2>1 DEF Injection, IsInjective
  <2>3. IsFiniteSet(DOMAIN file) /\ MaxProjects \in Nat
    BY CountsTyped DEF GatewayInv, Counts
  <2> HIDE DEF f
  <2>4. Cardinality(1..MaxProjects) <= Cardinality(DOMAIN file)
    BY <2>2, <2>3, FS_Injection
  <2>5. Cardinality(1..MaxProjects) = MaxProjects
    BY <2>3, FS_Interval
  <2>6. QED
    BY <1>1, <2>4, <2>5, CountsTyped
<1>3. free \in SUBSET Nat
  OBVIOUS
<1>4. Min(free) \in free
  BY <1>2, <1>3, LeastOf
<1>5. QED
  BY <1>4

\* One more project in the file, and one request less that may add one.
LEMMA CountsOneMore ==
    ASSUME GatewayInv, NEW r \in Adding, Adding' \subseteq Adding \ {r}, Writing' \subseteq Writing,
           NEW name, DOMAIN file' = DOMAIN file \cup {name}, log' = log
    PROVE  Counts'
<1>1. Cardinality(Adding') \in Nat /\ Cardinality(Adding') + 1 <= Cardinality(Adding)
      /\ Cardinality(Writing') \in Nat /\ Cardinality(Writing') <= Cardinality(Writing)
  <2>1. r \in Adding \ Adding' /\ Adding' \subseteq Adding
    OBVIOUS
  <2>2. QED
    BY <2>1, CountsTyped, FewerLeft
<1>2. PICK names : names = DOMAIN file
  OBVIOUS
<1>3. IsFiniteSet(names)
  BY <1>2 DEF GatewayInv, Counts
<1>4. /\ IsFiniteSet(names \cup {name}) /\ Cardinality(names \cup {name}) \in Nat
      /\ Cardinality(names \cup {name}) <= Cardinality(names) + 1
  <2>1. Cardinality(names) \in Nat
    BY <1>3, FS_CardinalityType
  <2>2. /\ IsFiniteSet(names \cup {name})
        /\ Cardinality(names \cup {name}) =
             IF name \in names THEN Cardinality(names) ELSE Cardinality(names) + 1
    BY <1>3, FS_AddElement
  <2>3. QED
    BY <2>1, <2>2
<1>5. Events' = Events
  BY DEF Events
<1>6. QED
  BY <1>1, <1>2, <1>4, <1>5, CountsTyped DEF GatewayInv, Counts

\* The file is replaced by one that has one more project.
LEMMA WriteConfigStep ==
    ASSUME GatewayInv, NEW r \in Conn, WriteConfig(r)
    PROVE  GatewayInv'
<1>1. /\ conn[r].step = "read" /\ conn[r].ask.op = "add"
      /\ UNCHANGED <<process, orphans, cut, registry, current, holder, added>> /\ opened' \subseteq Repo
      /\ UNCHANGED <<workspace, log, overlapped, stored>> /\ UNCHANGED Repositories
      /\ phase' = phase
  BY SameRepositories DEF WriteConfig, Is, process
<1>2. /\ conn[r] \in Connection /\ conn[r].ask \in Request /\ phase # "down"
      /\ file \in Projects /\ holder = r /\ conn[r].doc = file /\ r \notin orphans
  BY <1>1, StillServed DEF GatewayInv, Names, Naming, TypeOK, Orphaned
<1>3. /\ conn[r].ask.base \in Base /\ conn[r].ask.repo \in Repo
      /\ DOMAIN registry \subseteq DOMAIN file
  BY <1>1, <1>2, RequestFields DEF GatewayInv, Names, AddedStays
<1>4. r \in Adding
  BY <1>1 DEF Adding
<1>5. PICK name \in Name \ DOMAIN file :
         /\ file' = Put(file, name, conn[r].ask.repo)
         /\ Go(r, [conn[r] EXCEPT !.step = "persisted", !.name = name])
  <2> DEFINE taken == DOMAIN registry \cup DOMAIN conn[r].doc
             free == {n \in 1..MaxProjects : <<conn[r].ask.base, n>> \notin taken}
             name == <<conn[r].ask.base, Min(free)>>
  <2>1. taken = DOMAIN file
    BY <1>2, <1>3
  <2>2. /\ file' = Put(conn[r].doc, name, conn[r].ask.repo)
        /\ Go(r, [conn[r] EXCEPT !.step = "persisted", !.name = name])
    BY DEF WriteConfig
  <2>3. Min(free) \in 1..MaxProjects /\ <<conn[r].ask.base, Min(free)>> \notin DOMAIN file
    <3> HIDE DEF taken
    <3>1. QED
      BY <1>4, <2>1, NameLeft
  <2> HIDE DEF free
  <2>4. name \in Name \ DOMAIN file
    BY <1>3, <2>3 DEF Name
  <2>5. QED
    BY <1>2, <2>2, <2>4
<1>6. PICK c \in Connection : /\ Go(r, c) /\ c.step = "persisted" /\ c.ask = conn[r].ask
                              /\ c.name = name
  <2> DEFINE d == [conn[r] EXCEPT !.step = "persisted", !.name = name]
  <2>1. d \in Connection /\ d.step = "persisted" /\ d.ask = conn[r].ask /\ d.name = name
    BY <1>2 DEF Connection
  <2>2. QED
    BY <1>5, <2>1
<1>7. conn'[r] = c /\ \A q \in Conn \ {r} : conn'[q] = conn[q]
  BY <1>6 DEF Go, GatewayInv, TypeOK
<1>8. /\ file' \in Projects /\ DOMAIN file' = DOMAIN file \cup {name}
      /\ Holds(file', name, conn[r].ask.repo)
      /\ \A n \in DOMAIN file : Holds(file', n, file[n])
  BY <1>2, <1>3, <1>5, PutProject
<1>9. TypeOK'
  BY <1>1, <1>2, <1>6, <1>7, <1>8, TypeStep DEF GatewayInv, TypeOK
<1>10. Names'
  <2>1. Naming(r, c)'
    BY <1>1, <1>2, <1>6, <1>8 DEF Naming, Holds
  <2>2. \A q \in Conn : Naming(q, conn[q])'
    BY <1>1, <1>2, <1>6, <1>8, <2>1, OthersNamed
  <2>3. HolderWrites'
    BY <1>1, <1>2, <1>6, <1>7 DEF HolderWrites
  <2>4. AddedStays' /\ DefaultKnown'
    BY <1>1, <1>8 DEF GatewayInv, Names, AddedStays, DefaultKnown, Holds
  <2>5. QED
    BY <2>2, <2>3, <2>4 DEF Names
<1>11. Works'
  <2>1. Working(r, c)
    BY <1>1, <1>6 DEF Working
  <2>2. QED
    BY <1>1, <1>6, <2>1, WorksStep
<1>12. Serves'
  BY <1>1, <1>2, <1>6, StillServed, ServesStep
<1>13. Counts'
  <2>1. Adding' \subseteq Adding \ {r} /\ Writing' \subseteq Writing
    BY <1>6, <1>7 DEF Adding, Writing
  <2>2. QED
    BY <1>1, <1>4, <1>8, <2>1, CountsOneMore
<1>14. QED
  BY <1>9, <1>10, <1>11, <1>12, <1>13 DEF GatewayInv

\* The project is registered, unless the owner's file brought the name in.
LEMMA InsertNamedStep ==
    ASSUME GatewayInv, NEW r \in Conn, InsertNamed(r)
    PROVE  GatewayInv'
<1>1. /\ conn[r].step = "persisted" /\ conn[r].ask.op = "add"
      /\ UNCHANGED <<process, orphans, cut, file, current, added>> /\ opened' \subseteq Repo
      /\ UNCHANGED <<workspace, log, overlapped, stored>> /\ UNCHANGED Repositories
      /\ phase' = phase
  BY SameRepositories DEF InsertNamed, Is, process
<1>2. /\ conn[r] \in Connection /\ conn[r].ask \in Request /\ phase # "down"
      /\ registry \in Projects /\ file \in Projects
      /\ holder = r /\ Holds(file, conn[r].name, conn[r].ask.repo) /\ r \notin orphans
  BY <1>1, StillServed DEF GatewayInv, Names, Naming, TypeOK, Orphaned
<1>3. holder' = None
  BY <1>2 DEF InsertNamed
<1>4. conn[r].ask.repo \in Repo /\ conn[r].name \in Name
  BY <1>1, <1>2, RequestFields, ProjectsType DEF Holds
<1>5. PICK step \in {"refused", "inserted", "answer"} :
         /\ Go(r, [conn[r] EXCEPT !.step = step])
         /\ step = "refused" => registry' = registry
         /\ step # "refused" => registry' = Put(registry, conn[r].name, conn[r].ask.repo)
  <2>1. CASE conn[r].name \in DOMAIN registry
    BY <2>1 DEF InsertNamed, Goto
  <2>2. CASE conn[r].name \notin DOMAIN registry
    BY <2>2 DEF InsertNamed, Goto
  <2>3. QED
    BY <2>1, <2>2
<1>6. PICK c \in Connection : /\ Go(r, c) /\ c.step = step /\ c.ask = conn[r].ask
                              /\ c.name = conn[r].name
  <2> DEFINE d == [conn[r] EXCEPT !.step = step]
  <2>1. d \in Connection /\ d.step = step /\ d.ask = conn[r].ask /\ d.name = conn[r].name
    BY <1>2, <1>5 DEF Connection
  <2>2. QED
    BY <1>5, <2>1
<1>7. conn'[r] = c /\ \A q \in Conn \ {r} : conn'[q] = conn[q]
  BY <1>6 DEF Go, GatewayInv, TypeOK
<1>8. /\ registry' \in Projects
      /\ \A n \in DOMAIN registry : n \in DOMAIN registry'
      /\ step # "refused" => conn[r].name \in DOMAIN registry'
      /\ \A n \in DOMAIN registry' : Holds(file, n, registry'[n])
  <2>1. \A n \in DOMAIN registry : Holds(file, n, registry[n])
    BY DEF GatewayInv, Names, AddedStays, Holds
  <2>2. CASE step = "refused"
    BY <1>2, <1>5, <2>1, <2>2
  <2>3. CASE step # "refused"
    <3>1. PICK name \in Name, repo \in Repo : name = conn[r].name /\ repo = conn[r].ask.repo
      BY <1>4
    <3>2. PICK q \in Projects : q = registry
      BY <1>2
    <3>3. PICK now : now = registry' /\ now = Put(q, name, repo)
      BY <1>5, <2>3, <3>1, <3>2
    <3>4. /\ now \in Projects /\ DOMAIN now = DOMAIN q \cup {name}
          /\ Holds(now, name, repo) /\ \A m \in DOMAIN q \ {name} : Holds(now, m, q[m])
      <4>1. /\ Put(q, name, repo) \in Projects
            /\ DOMAIN Put(q, name, repo) = DOMAIN q \cup {name}
            /\ Holds(Put(q, name, repo), name, repo)
            /\ \A m \in DOMAIN q \ {name} : Holds(Put(q, name, repo), m, q[m])
        BY PutProject
      <4>2. QED
        BY <3>3, <4>1
    <3>5. Holds(file, name, repo) /\ \A n \in DOMAIN q : Holds(file, n, q[n])
      BY <1>2, <2>1, <3>1, <3>2
    <3>6. \A n \in DOMAIN now : Holds(file, n, now[n])
      BY <3>4, <3>5 DEF Holds
    <3>7. QED
      BY <3>1, <3>2, <3>3, <3>4, <3>6
  <2>4. QED
    BY <2>2, <2>3
<1>9. TypeOK'
  BY <1>1, <1>2, <1>3, <1>5, <1>6, <1>7, <1>8, TypeStep DEF GatewayInv, TypeOK
<1>10. Names'
  <2>1. Naming(r, c)'
    BY <1>1, <1>2, <1>5, <1>6, <1>8 DEF Naming, Holds
  <2>2. \A q \in Conn : Naming(q, conn[q])'
    <3>1. \A n \in DOMAIN file : Holds(file', n, file[n])
      BY <1>1 DEF Holds
    <3>2. QED
      BY <1>1, <1>2, <1>6, <1>8, <2>1, <3>1, OthersNamed
  <2>3. HolderWrites'
    BY <1>3 DEF HolderWrites
  <2>4. AddedStays' /\ DefaultKnown'
    BY <1>1, <1>8 DEF GatewayInv, Names, AddedStays, DefaultKnown, Holds
  <2>5. QED
    BY <2>2, <2>3, <2>4 DEF Names
<1>11. Works'
  <2>1. Working(r, c)
    BY <1>1, <1>6 DEF Working
  <2>2. QED
    BY <1>1, <1>5, <1>6, <2>1, WorksStep
<1>12. Serves'
  BY <1>1, <1>2, <1>6, StillServed, ServesStep
<1>13. Counts'
  <2>1. Adding' \subseteq Adding /\ Writing' \subseteq Writing
    BY <1>1, <1>5, <1>6, <1>7 DEF Adding, Writing
  <2>2. QED
    BY <1>1, <2>1, CountsStep
<1>14. QED
  BY <1>9, <1>10, <1>11, <1>12, <1>13 DEF GatewayInv

\* The file is not replaced, and the mutex is released.
LEMMA WriteConfigFailsStep ==
    ASSUME GatewayInv, NEW r \in Conn, WriteConfigFails(r)
    PROVE  GatewayInv'
<1>1. /\ conn[r].step = "read" /\ conn[r].ask.op = "add"
      /\ Go(r, [conn[r] EXCEPT !.step = "refused"])
      /\ UNCHANGED <<process, orphans, cut, file, registry, current, added>> /\ opened' \subseteq Repo
      /\ UNCHANGED <<workspace, log, overlapped, stored>> /\ UNCHANGED Repositories
      /\ phase' = phase
  BY SameRepositories DEF WriteConfigFails, Is, Goto, process
<1>2. /\ conn[r] \in Connection /\ conn[r].ask \in Request /\ phase # "down"
      /\ holder = r /\ r \notin orphans
  BY <1>1, StillServed DEF GatewayInv, Names, Naming, TypeOK, Orphaned
<1>3. holder' = None
  BY <1>2 DEF WriteConfigFails
<1>4. PICK c \in Connection : Go(r, c) /\ c.step = "refused" /\ c.ask = conn[r].ask
  <2> DEFINE d == [conn[r] EXCEPT !.step = "refused"]
  <2>1. d \in Connection /\ d.step = "refused" /\ d.ask = conn[r].ask
    BY <1>2, ConnFields
  <2>2. QED
    BY <1>1, <2>1
<1>5. conn'[r] = c /\ \A q \in Conn \ {r} : conn'[q] = conn[q]
  BY <1>4 DEF Go, GatewayInv, TypeOK
<1>6. TypeOK'
  BY <1>1, <1>2, <1>3, <1>4, <1>5, TypeStep DEF GatewayInv, TypeOK
<1>7. Names'
  <2>1. Naming(r, c)'
    BY <1>4 DEF Naming
  <2>2. \A q \in Conn : Naming(q, conn[q])'
    <3>1. \A n \in DOMAIN file : Holds(file', n, file[n])
      BY <1>1 DEF Holds
    <3>2. QED
      BY <1>1, <1>2, <1>4, <2>1, <3>1, OthersNamed
  <2>3. HolderWrites'
    BY <1>3 DEF HolderWrites
  <2>4. AddedStays' /\ DefaultKnown'
    BY <1>1 DEF GatewayInv, Names, AddedStays, DefaultKnown
  <2>5. QED
    BY <2>2, <2>3, <2>4 DEF Names
<1>8. Works'
  <2>1. Working(r, c)
    BY <1>4 DEF Working
  <2>2. QED
    BY <1>1, <1>4, <2>1, WorksStep
<1>9. Serves'
  BY <1>1, <1>2, <1>4, StillServed, ServesStep
<1>10. Counts'
  <2>1. Adding' \subseteq Adding /\ Writing' \subseteq Writing
    BY <1>4, <1>5 DEF Adding, Writing
  <2>2. QED
    BY <1>1, <2>1, CountsStep
<1>11. QED
  BY <1>6, <1>7, <1>8, <1>9, <1>10 DEF GatewayInv

\* The answer tells of a project or an event that is there.
LEMMA AnswerStep ==
    ASSUME GatewayInv, NEW r \in Conn, Answer(r)
    PROVE  GatewayInv'
<1>1. /\ conn[r].step \in {"answer", "refused"} /\ Go(r, Free)
      /\ UNCHANGED <<process, cut, file, registry, current, holder, workspace, log, overlapped>>
      /\ phase' = phase /\ orphans' = orphans \ {r} /\ opened' \subseteq Repo
  BY DEF Answer, process, files, GatewayInv, TypeOK
<1>2. /\ conn[r] \in Connection /\ conn[r].ask \in Request /\ holder # r
      /\ Naming(r, conn[r]) /\ Working(r, conn[r]) /\ file \in Projects
  BY <1>1, StillServed, NotHolder DEF GatewayInv, Names, Works, TypeOK
<1>3. conn'[r] = Free /\ \A q \in Conn \ {r} : conn'[q] = conn[q]
  BY <1>1 DEF Go, GatewayInv, TypeOK
<1>4. \/ added' = added
      \/ /\ Holds(file, conn[r].name, conn[r].ask.repo)
         /\ added' = added \cup {<<conn[r].name, conn[r].ask.repo>>}
  BY <1>2 DEF Answer, Naming
<1>5. \/ stored' = stored
      \/ \E repo \in Repo, n \in 1..MaxEvents :
            /\ stored' = [stored EXCEPT ![repo] = @ \cup {n}]
            /\ Kept(repo, n)
  BY <1>2 DEF Answer, Working
<1>6. /\ added' \subseteq Name \X Repo
      /\ \A a \in added' : Holds(file, a[1], a[2])
  <2>1. added \subseteq Name \X Repo /\ \A a \in added : Holds(file, a[1], a[2])
    BY DEF GatewayInv, TypeOK, Names, AddedStays, Holds
  <2>2. CASE Holds(file, conn[r].name, conn[r].ask.repo)
    <3>1. conn[r].name \in Name /\ conn[r].ask.repo \in Repo
      BY <1>2, <2>2, ProjectsType DEF Holds
    <3>2. QED
      BY <1>4, <2>1, <2>2, <3>1
  <2>3. QED
    BY <1>4, <2>1, <2>2
<1>7. /\ stored' \in [Repo -> SUBSET (1..MaxEvents)]
      /\ \A repo \in Repo : \A n \in stored'[repo] : Kept(repo, n)
  <2>1. /\ stored \in [Repo -> SUBSET (1..MaxEvents)]
        /\ \A repo \in Repo : \A n \in stored[repo] : Kept(repo, n)
    BY DEF GatewayInv, TypeOK, Works, StoredStaysListed, Kept
  <2>2. CASE stored' = stored
    BY <2>1, <2>2
  <2>3. ASSUME NEW repo \in Repo, NEW n \in 1..MaxEvents,
               stored' = [stored EXCEPT ![repo] = @ \cup {n}],
               Kept(repo, n)
        PROVE  /\ stored' \in [Repo -> SUBSET (1..MaxEvents)]
               /\ \A o \in Repo : \A m \in stored'[o] : Kept(o, m)
    BY <2>1, <2>3
  <2>4. QED
    BY <1>5, <2>2, <2>3
<1>8. TypeOK'
  <2>1. holder' \in Conn \cup {None} /\ (holder' # None => conn'[holder'].step # "free")
    BY <1>1, <1>2, <1>3 DEF GatewayInv, TypeOK, Active
  <2>2. QED
    BY <1>1, <1>2, <1>3, <1>6, <1>7, <2>1, TypeStep, FreeTyped DEF GatewayInv, TypeOK
<1>9. Names'
  <2>1. Naming(r, Free)'
    BY FreeTyped DEF Naming
  <2>2. \A q \in Conn : Naming(q, conn[q])'
    <3>1. \A n \in DOMAIN file : Holds(file', n, file[n])
      BY <1>1 DEF Holds
    <3>2. QED
      BY <1>1, <2>1, <3>1, OthersNamed
  <2>3. HolderWrites'
    <3>1. holder \in Conn \cup {None}
      BY DEF GatewayInv, TypeOK, Active
    <3>2. QED
      BY <1>1, <1>2, <1>3, <3>1 DEF HolderWrites, GatewayInv, Names
  <2>4. AddedStays' /\ DefaultKnown'
    BY <1>1, <1>6 DEF GatewayInv, Names, AddedStays, DefaultKnown, Holds
  <2>5. QED
    BY <2>2, <2>3, <2>4 DEF Names
<1>10. Works'
  <2>1. \A q \in Conn : Working(q, conn'[q])
    BY <1>3, FreeTyped DEF GatewayInv, Works, Working
  <2>2. \A q \in Conn : Working(q, conn[q])'
    BY <1>1, <2>1 DEF Working, Kept, Listed
  <2>3. \A repo \in Repo : Creators(repo)' \subseteq Creators(repo)
    BY <1>3, FreeTyped DEF Creators, Run
  <2>4. OneCreator'
    BY <1>1, <2>3 DEF OneCreator, GatewayInv, Works
  <2>5. StoredStaysListed'
    BY <1>1, <1>7 DEF StoredStaysListed, Kept, Listed
  <2>6. OneWorkspace'
    BY <1>1 DEF GatewayInv, Works, OneWorkspace
  <2>7. QED
    BY <2>2, <2>4, <2>5, <2>6 DEF Works
<1>11. Serves'
  BY <1>1, FreeTyped, ServesStep DEF Served
<1>12. Counts'
  <2>1. Adding' \subseteq Adding /\ Writing' \subseteq Writing
    BY <1>3, FreeTyped DEF Adding, Writing
  <2>2. QED
    BY <1>1, <2>1, CountsStep
<1>13. QED
  BY <1>8, <1>9, <1>10, <1>11, <1>12 DEF GatewayInv

\* The owner edits the file.
LEMMA EditStep ==
    ASSUME GatewayInv, NEW edit \in Edits, EditConfig(edit)
    PROVE  GatewayInv'
<1>1. /\ \A r \in Conn : ~ (conn[r].step = "read" /\ conn[r].ask.op = "add")
      /\ edit.name \notin DOMAIN file /\ file' = Put(file, edit.name, edit.repo)
      /\ added' = added \cup {<<edit.name, edit.repo>>}
      /\ UNCHANGED <<process, phase, listeners, stops, conn, orphans, cut, registry, current, holder>>
      /\ UNCHANGED <<workspace, opened, log, overlapped, stored>>
  BY DEF EditConfig, Is, process, repositories, files
<1>2. edit.name \in Name /\ edit.repo \in Repo /\ file \in Projects
  BY GatewayAssumption DEF GatewayInv, TypeOK
<1>3. /\ file' \in Projects /\ DOMAIN file' = DOMAIN file \cup {edit.name}
      /\ Holds(file', edit.name, edit.repo)
      /\ \A n \in DOMAIN file : Holds(file', n, file[n])
  BY <1>1, <1>2, PutProject
<1>4. TypeOK'
  BY <1>1, <1>2, <1>3 DEF GatewayInv, TypeOK, Active
<1>5. Names'
  <2>1. ASSUME NEW q \in Conn
        PROVE  Naming(q, conn[q])'
    <3>1. PICK d : d = conn[q]
      OBVIOUS
    <3>2. Naming(q, d) /\ conn'[q] = d
      BY <1>1, <3>1 DEF GatewayInv, Names
    <3>3. Naming(q, d)'
      BY <1>1, <1>3, <3>1, <3>2, NamingStays
    <3>4. QED
      BY <3>2, <3>3 DEF Naming
  <2>2. HolderWrites'
    BY <1>1 DEF GatewayInv, Names, HolderWrites
  <2>3. AddedStays' /\ DefaultKnown'
    BY <1>1, <1>3 DEF GatewayInv, Names, AddedStays, DefaultKnown, Holds
  <2>4. QED
    BY <2>1, <2>2, <2>3 DEF Names
<1>6. Works'
  BY <1>1 DEF GatewayInv, Works, Working, Kept, Listed, OneCreator, Creators, Run, OneWorkspace,
              StoredStaysListed
<1>7. Serves'
  BY <1>1 DEF GatewayInv, Serves, Served, Orphaned, Waiting, Active, DrainAnswers
<1>8. Counts'
  <2>1. Adding' = Adding /\ Writing' = Writing /\ Events' = Events
    BY <1>1 DEF Adding, Writing, Events
  <2>2. Adding \subseteq {r \in Active : conn[r].ask.op = "add"}
    BY DEF Adding, Active
  <2>3. IsFiniteSet({r \in Active : conn[r].ask.op = "add"})
    <3>1. {r \in Active : conn[r].ask.op = "add"} \subseteq Conn
      BY DEF Active
    <3>2. QED
      BY <3>1, GatewayAssumption, FewerLeft
  <2>4. Cardinality(Adding) <= Underway("add") /\ Underway("add") \in Nat
    BY <2>2, <2>3, FewerLeft DEF Underway
  <2>5. Cardinality(DOMAIN file) + Underway("add") < MaxProjects
    BY DEF EditConfig, Room
  <2>6. PICK names : names = DOMAIN file
    OBVIOUS
  <2>7. IsFiniteSet(names) /\ Cardinality(names) \in Nat
    BY <2>6, CountsTyped DEF GatewayInv, Counts
  <2>8. /\ IsFiniteSet(names \cup {edit.name})
        /\ Cardinality(names \cup {edit.name}) = Cardinality(names) + 1
    BY <1>1, <2>6, <2>7, FS_AddElement
  <2>9. QED
    BY <1>3, <2>1, <2>4, <2>5, <2>6, <2>7, <2>8, CountsTyped DEF GatewayInv, Counts
<1>9. QED
  BY <1>4, <1>5, <1>6, <1>7, <1>8 DEF GatewayInv

(***************************************************************************)
(* Work in a repository.                                                   *)
(***************************************************************************)
\* Who works in a repository works in one that is known.
LEMMA WorkerFields ==
    ASSUME GatewayInv, NEW r \in Conn,
           conn[r].step \in {"resolved", "create", "write", "append"},
           conn[r].ask.op \in {"read", "write"}
    PROVE  /\ conn[r] \in Connection /\ conn[r].ask \in Request
           /\ conn[r].repo \in Repo /\ holder # r
           /\ Working(r, conn[r])
           /\ workspace \in [Repo -> Repo \cup Conn \cup {Torn, None}]
  BY StillServed, NotHolder DEF GatewayInv, Works, Working, TypeOK

\* A workspace that has no id has no event but those of clients, if its first
\* requests took turns.
LEMMA NoWorkspaceNoEvent ==
    ASSUME GatewayInv, NEW repo \in Repo \ overlapped, workspace[repo] \in {None, Torn}
    PROVE  /\ \A e \in log[repo] : e.id = Client
           /\ \A n : Kept(repo, n) => \E e \in log[repo] : e.event = n /\ e.id = Client
<1>1. \A e \in log[repo] : e.id \in Repo \cup Conn \cup {Client} /\ e.id \in {workspace[repo], Client}
  BY DEF GatewayInv, TypeOK, Event, Works, OneWorkspace
<1>2. \A e \in log[repo] : e.id = Client
  BY <1>1, FreeTyped
<1>3. QED
  BY <1>2 DEF Kept, Listed

\* workspace.json is read, or found missing.
LEMMA LoadStep ==
    ASSUME GatewayInv, NEW r \in Conn, LoadWorkspace(r)
    PROVE  GatewayInv'
<1>1. /\ conn[r].step = "resolved" /\ conn[r].ask.op \in {"read", "write"}
      /\ UNCHANGED <<process, orphans, cut, file, registry, current, holder, added>>
      /\ workspace' = workspace /\ log' = log /\ stored' = stored /\ phase' = phase
      /\ opened' \subseteq Repo
  BY DEF LoadWorkspace, Run, naming, files, process, GatewayInv, TypeOK
<1>2. PICK repo \in Repo : repo = conn[r].repo
  BY <1>1, WorkerFields
<1>3. /\ conn[r] \in Connection /\ conn[r].ask \in Request /\ holder # r
      /\ workspace[repo] \in Repo \cup Conn \cup {Torn, None}
  BY <1>1, <1>2, WorkerFields
<1>4. CASE ~ (conn'[r].step = "create")
  <2>1. PICK id \in Repo \cup Conn \cup {Client}, c \in Connection :
           /\ Go(r, c) /\ c.step \in {"append", "refused"} /\ c.ask = conn[r].ask
           /\ c.step = "append" => c.repo = repo /\ c.id = id /\ id \in {workspace[repo], Client}
    <3>1. CASE \E id \in {workspace[repo], Client} : /\ id \notin {None, Torn}
                  /\ Go(r, [conn[r] EXCEPT !.step = "append", !.id = id])
      <4>1. PICK id \in Repo \cup Conn \cup {Client} :
               /\ id \in {workspace[repo], Client}
               /\ Go(r, [conn[r] EXCEPT !.step = "append", !.id = id])
        BY <1>3, <3>1, FreeTyped
      <4> DEFINE d == [conn[r] EXCEPT !.step = "append", !.id = id]
      <4>2. /\ d \in Connection /\ d.step = "append" /\ d.ask = conn[r].ask
            /\ d.repo = repo /\ d.id = id
        BY <1>2, <1>3 DEF Connection
      <4>3. QED
        BY <4>1, <4>2
    <3>2. CASE Goto(r, "refused")
      <4> DEFINE d == [conn[r] EXCEPT !.step = "refused"]
      <4>1. d \in Connection /\ d.step = "refused" /\ d.ask = conn[r].ask
        BY <1>3, ConnFields
      <4>2. Go(r, d)
        BY <3>2 DEF Goto
      <4> HIDE DEF d
      <4>3. QED
        BY <4>1, <4>2
    <3>3. ~ Go(r, [conn[r] EXCEPT !.step = "create", !.id = r])
      <4> DEFINE d == [conn[r] EXCEPT !.step = "create", !.id = r]
      <4>1. d.step = "create"
        BY <1>3 DEF Connection
      <4>2. Go(r, d) => conn'[r] = d
        BY DEF Go, GatewayInv, TypeOK
      <4>3. QED
        BY <1>4, <4>1, <4>2
    <3>4. QED
      BY <1>2, <3>1, <3>2, <3>3, FreeTyped DEF LoadWorkspace
  <2>2. conn'[r] = c
    BY <2>1 DEF Go, GatewayInv, TypeOK
  <2>3. overlapped' = overlapped
    <3>1. ~ Go(r, [conn[r] EXCEPT !.step = "create", !.id = r])
      <4> DEFINE d == [conn[r] EXCEPT !.step = "create", !.id = r]
      <4>1. d.step = "create"
        BY <1>3 DEF Connection
      <4>2. Go(r, d) => conn'[r] = d
        BY DEF Go, GatewayInv, TypeOK
      <4>3. QED
        BY <1>4, <4>1, <4>2
    <3>2. ~ (~ (repo \in Stl /\ repo \notin opened) /\ workspace[repo] = None)
      BY <1>2, <3>1, FreeTyped DEF LoadWorkspace
    <3>3. QED
      BY <1>2, <3>2 DEF LoadWorkspace
  <2>4. Naming(r, c) /\ Working(r, c)
    BY <1>1, <2>1 DEF Naming, Working
  <2>5. UNCHANGED Repositories
    BY <1>1, <2>3 DEF Repositories
  <2>6. QED
    BY <1>1, <1>3, <2>1, <2>4, <2>5, QuietStep
<1>5. CASE conn'[r].step = "create"
  <2>0. /\ workspace[repo] = None
        /\ Go(r, [conn[r] EXCEPT !.step = "create", !.id = r])
        /\ overlapped' = overlapped \cup (IF Creators(repo) # {} THEN {repo} ELSE {})
    <3>1. \A d : Go(r, d) => d.step = "create"
      BY <1>5 DEF Go, GatewayInv, TypeOK
    <3>2. \A id : ~ Go(r, [conn[r] EXCEPT !.step = "append", !.id = id])
      <4>1. \A id : [conn[r] EXCEPT !.step = "append", !.id = id].step = "append"
        BY <1>3 DEF Connection
      <4>2. SUFFICES ASSUME NEW id, NEW d, d.step = "append", Go(r, d)
                     PROVE  FALSE
        BY <4>1
      <4>3. QED
        BY <3>1, <4>2
    <3>3. ~ Goto(r, "refused")
      <4>1. [conn[r] EXCEPT !.step = "refused"].step = "refused"
        BY <1>3 DEF Connection
      <4>2. QED
        BY <3>1, <4>1 DEF Goto
    <3>4. QED
      BY <1>2, <3>2, <3>3 DEF LoadWorkspace
  <2>1. PICK others : others = IF Creators(repo) # {} THEN {repo} ELSE {}
    OBVIOUS
  <2>2. /\ Go(r, [conn[r] EXCEPT !.step = "create", !.id = r])
        /\ overlapped' = overlapped \cup others
    BY <2>0, <2>1
  <2>3. PICK c \in Connection :
           /\ Go(r, c) /\ c.step = "create" /\ c.ask = conn[r].ask
           /\ c.repo = repo /\ c.id = r
    <3> DEFINE d == [conn[r] EXCEPT !.step = "create", !.id = r]
    <3>1. /\ d \in Connection /\ d.step = "create" /\ d.ask = conn[r].ask
          /\ d.repo = repo /\ d.id = r
      BY <1>2, <1>3 DEF Connection
    <3>2. QED
      BY <2>2, <3>1
  <2>4. conn'[r] = c /\ \A q \in Conn \ {r} : conn'[q] = conn[q]
    BY <2>3 DEF Go, GatewayInv, TypeOK
  <2>5. overlapped' \subseteq Fresh
    BY <2>0, <2>1, <2>2 DEF GatewayInv, TypeOK, Works, OneWorkspace
  <2>6. TypeOK'
    <3>1. holder' \in Conn \cup {None} /\ (holder' # None => conn'[holder'].step # "free")
      BY <1>1, <1>3, <2>4 DEF GatewayInv, TypeOK, Active
    <3>2. QED
      BY <1>1, <1>3, <2>3, <2>5, <3>1, TypeStep DEF GatewayInv, TypeOK
  <2>7. Names'
    <3>1. Naming(r, c)
      BY <1>1, <2>3 DEF Naming
    <3>2. QED
      BY <1>1, <1>3, <2>3, <3>1, NamesStep
  <2>8. Works'
    <3>1. ASSUME NEW q \in Conn
          PROVE  Working(q, conn[q])'
      <4>1. CASE q = r
        <5>1. Working(r, c)'
          BY <1>1, <2>0, <2>3 DEF Working
        <5>2. QED
          BY <2>4, <4>1, <5>1 DEF Working
      <4>2. CASE q # r
        <5>1. PICK d : d = conn[q] /\ d = conn'[q]
          BY <2>4, <4>2
        <5>2. Working(q, d)'
          BY <1>1, <2>2, <5>1, WorkingStays DEF GatewayInv, Works
        <5>3. QED
          BY <5>1, <5>2 DEF Working
      <4>3. QED
        BY <4>1, <4>2
    <3>2. ASSUME NEW o \in Repo, o \notin overlapped', NEW q \in Creators(o)', NEW t \in Creators(o)'
          PROVE  q = t
      <4>1. /\ q \in Conn /\ t \in Conn
            /\ q = r \/ q \in Creators(o)
            /\ t = r \/ t \in Creators(o)
            /\ (q = r \/ t = r) => o = repo
        BY <2>3, <2>4, <3>2 DEF Creators, Run
      <4>2. CASE o = repo
        BY <2>1, <2>2, <3>2, <4>1, <4>2
      <4>3. CASE o # repo
        BY <2>2, <3>2, <4>1, <4>3 DEF GatewayInv, Works, OneCreator
      <4>4. QED
        BY <4>2, <4>3
    <3>3. OneCreator'
      BY <3>2 DEF OneCreator
    <3>4. OneWorkspace'
      BY <1>1, <2>2 DEF GatewayInv, Works, OneWorkspace
    <3>5. StoredStaysListed'
      BY <1>1, <2>2 DEF GatewayInv, Works, StoredStaysListed, Listed
    <3>6. QED
      BY <3>1, <3>3, <3>4, <3>5 DEF Works
  <2>9. Serves'
    BY <1>1, <1>3, <2>3, StillServed, ServesStep
  <2>10. Counts'
    <3>1. Adding' \subseteq Adding /\ Writing' \subseteq Writing
      BY <1>1, <2>3, <2>4 DEF Adding, Writing
    <3>2. QED
      BY <1>1, <3>1, CountsStep
  <2>11. QED
    BY <2>6, <2>7, <2>8, <2>9, <2>10 DEF GatewayInv
<1>6. QED
  BY <1>4, <1>5

\* workspace.json is opened or written, over another's only if the first requests
\* overlapped.
LEMMA FileStep ==
    ASSUME GatewayInv, NEW r \in Conn, conn[r].step \in {"create", "write"},
           conn[r].ask.op \in {"read", "write"},
           NEW repo \in Repo, repo = conn[r].repo, NEW id \in Conn \cup {Torn},
           workspace' = [workspace EXCEPT ![repo] = id],
           NEW c \in Connection, Go(r, c), c.ask = conn[r].ask, c.repo = repo, c.id = r,
           (c.step = "write" /\ id = Torn) \/ (c.step = "append" /\ id = r),
           UNCHANGED <<process, orphans, cut, file, registry, current, holder, added>>,
           UNCHANGED <<opened, log, stored, overlapped>>
    PROVE  GatewayInv'
<1>1. /\ conn[r] \in Connection /\ conn[r].ask \in Request /\ holder # r
      /\ conn[r].id = r /\ (repo \in overlapped \/ workspace[repo] \in {None, Torn})
      /\ workspace \in [Repo -> Repo \cup Conn \cup {Torn, None}]
      /\ phase' = phase
  BY WorkerFields DEF Working, process
<1>6. conn'[r] = c /\ \A q \in Conn \ {r} : conn'[q] = conn[q]
  BY DEF Go, GatewayInv, TypeOK
<1>7. /\ workspace' \in [Repo -> Repo \cup Conn \cup {Torn, None}] /\ workspace'[repo] = id
      /\ \A o \in Repo \ {repo} : workspace'[o] = workspace[o]
  BY <1>1
<1>8. TypeOK'
  <2>1. conn' \in [Conn -> Connection]
    BY DEF Go, GatewayInv, TypeOK
  <2>2. \A q \in Active' : conn'[q].ask \in Request
    BY <1>1, <1>6 DEF Active, GatewayInv, TypeOK
  <2>3. holder' \in Active' \cup {None} /\ orphans' \subseteq Active'
    BY <1>1, <1>6 DEF Active, GatewayInv, TypeOK
  <2>4. QED
    BY <1>1, <1>7, <2>1, <2>2, <2>3 DEF GatewayInv, TypeOK, process
<1>9. Names'
  <2>1. Naming(r, c)
    BY DEF Naming
  <2>2. QED
    BY <1>1, <2>1, NamesStep
<1>10. Works'
  <2>1. repo \notin overlapped =>
            /\ \A e \in log[repo] : e.id = Client
            /\ \A n : Kept(repo, n) => \E e \in log[repo] : e.event = n /\ e.id = Client
    BY <1>1, NoWorkspaceNoEvent
  <2>2. \A o \in Repo : \A n : Kept(o, n) => Kept(o, n)'
    <3>1. ASSUME NEW o \in Repo, NEW n, Kept(o, n)
          PROVE  Kept(o, n)'
      <4>1. CASE o # repo \/ o \in overlapped
        BY <1>7, <3>1, <4>1 DEF Kept, Listed
      <4>2. CASE o = repo /\ o \notin overlapped
        BY <2>1, <3>1, <4>2 DEF Kept, Listed
      <4>3. QED
        BY <4>1, <4>2
    <3>2. QED
      BY <3>1
  <2>3. ASSUME NEW q \in Conn
        PROVE  Working(q, conn[q])'
    <3>1. CASE q = r
      <4>1. Working(r, c)'
        BY <1>7 DEF Working
      <4>2. QED
        BY <1>6, <3>1, <4>1 DEF Working
    <3>2. CASE q # r
      <4>1. PICK d : d = conn[q] /\ d = conn'[q]
        BY <1>6, <3>2
      <4>2. Working(q, d) /\ d \in Connection
        BY <4>1 DEF GatewayInv, Works, TypeOK
      <4>3. CASE d.repo # repo \/ repo \in overlapped
        <5>1. Working(q, d)'
          BY <1>7, <2>2, <4>2, <4>3 DEF Working
        <5>2. QED
          BY <4>1, <5>1 DEF Working
      <4>4. CASE d.repo = repo /\ repo \notin overlapped
        <5>1. workspace[repo] \in {None, Torn}
          BY <1>1, <4>4
        <5>2. d.ask.op \in {"read", "write"} => d.step \notin {"create", "write"}
          <6>1. r \in Creators(repo)
            BY DEF Creators, Run
          <6>2. d.ask.op \in {"read", "write"} /\ d.step \in {"create", "write"} =>
                    q \in Creators(repo)
            BY <4>1, <4>4 DEF Creators, Run
          <6>3. QED
            BY <3>2, <4>4, <6>1, <6>2 DEF GatewayInv, Works, OneCreator
        <5>3. d.ask.op \in {"read", "write"} /\ d.step = "append" => d.id = Client
          BY <4>2, <4>4, <5>1, FreeTyped DEF Working
        <5>4. Working(q, d)'
          BY <2>2, <4>2, <5>2, <5>3 DEF Working
        <5>5. QED
          BY <4>1, <5>4 DEF Working
      <4>5. QED
        BY <4>3, <4>4
    <3>3. QED
      BY <3>1, <3>2
  <2>4. \A o \in Repo : Creators(o)' \subseteq Creators(o)
    BY <1>6 DEF Creators, Run
  <2>5. OneCreator'
    BY <2>4 DEF GatewayInv, Works, OneCreator
  <2>6. OneWorkspace'
    <3>1. \A o \in Repo \ overlapped : \A e \in log[o] : e.id \in {workspace'[o], Client}
      BY <1>7, <2>1 DEF GatewayInv, Works, OneWorkspace
    <3>2. repo \in Fresh
      BY <1>1 DEF GatewayInv, TypeOK, Works, OneWorkspace
    <3>3. \A o \in Repo \ Fresh : workspace'[o] \notin {None, Torn}
      BY <1>7, <3>2 DEF GatewayInv, Works, OneWorkspace
    <3>4. QED
      BY <3>1, <3>3 DEF OneWorkspace
  <2>7. StoredStaysListed'
    <3>1. \A o \in Repo : \A n \in stored[o] : Kept(o, n)
      BY DEF GatewayInv, Works, StoredStaysListed, Kept
    <3>2. QED
      BY <2>2, <3>1 DEF StoredStaysListed, Kept
  <2>8. QED
    BY <2>3, <2>5, <2>6, <2>7 DEF Works
<1>11. Serves'
  BY <1>1, StillServed, ServesStep
<1>12. Counts'
  <2>1. Adding' \subseteq Adding /\ Writing' \subseteq Writing
    BY <1>6 DEF Adding, Writing
  <2>2. QED
    BY <2>1, CountsStep
<1>13. QED
  BY <1>8, <1>9, <1>10, <1>11, <1>12 DEF GatewayInv

\* A new id is made: the file is emptied,
LEMMA OpenStep ==
    ASSUME GatewayInv, NEW r \in Conn, OpenWorkspace(r)
    PROVE  GatewayInv'
<1> DEFINE c == [conn[r] EXCEPT !.step = "write"]
<1>1. /\ conn[r].step = "create" /\ conn[r].ask.op \in {"read", "write"} /\ Go(r, c)
      /\ workspace' = [workspace EXCEPT ![conn[r].repo] = Torn]
      /\ UNCHANGED <<process, orphans, cut, file, registry, current, holder, added>>
      /\ UNCHANGED <<opened, log, stored, overlapped>>
  BY DEF OpenWorkspace, Run, Goto, naming
<1>2. /\ conn[r] \in Connection /\ conn[r].repo \in Repo /\ conn[r].id = r
  BY <1>1, WorkerFields DEF Working
<1>3. /\ c \in Connection /\ c.step = "write" /\ c.ask = conn[r].ask
      /\ c.repo = conn[r].repo /\ c.id = r
  BY <1>2 DEF Connection
<1> HIDE DEF c
<1>4. QED
  BY <1>1, <1>2, <1>3, FileStep

\* and then written.
LEMMA CreateStep ==
    ASSUME GatewayInv, NEW r \in Conn, CreateWorkspace(r)
    PROVE  GatewayInv'
<1> DEFINE c == [conn[r] EXCEPT !.step = "append"]
<1>1. /\ conn[r].step = "write" /\ conn[r].ask.op \in {"read", "write"} /\ Go(r, c)
      /\ workspace' = [workspace EXCEPT ![conn[r].repo] = conn[r].id]
      /\ UNCHANGED <<process, orphans, cut, file, registry, current, holder, added>>
      /\ UNCHANGED <<opened, log, stored, overlapped>>
  BY DEF CreateWorkspace, Run, Goto, naming
<1>2. /\ conn[r] \in Connection /\ conn[r].repo \in Repo /\ conn[r].id = r
  BY <1>1, WorkerFields DEF Working
<1>3. /\ c \in Connection /\ c.step = "append" /\ c.ask = conn[r].ask
      /\ c.repo = conn[r].repo /\ c.id = r
  BY <1>2 DEF Connection
<1> HIDE DEF c
<1>4. QED
  BY <1>1, <1>2, <1>3, FileStep

\* An event is stored, whether or not its request learns of it.
LEMMA LogStep ==
    ASSUME GatewayInv, NEW r \in Conn, conn[r].step = "append", conn[r].ask.op = "write",
           NEW repo \in Repo, repo = conn[r].repo, NEW n, n = Cardinality(Events) + 1,
           log' = [log EXCEPT ![repo] = @ \cup {[event |-> n, id |-> conn[r].id]}],
           NEW c \in Connection, Go(r, c), c.step = "answer",
           c.ask = conn[r].ask, c.repo = repo, c.event = n,
           UNCHANGED <<process, orphans, cut, file, registry, current, holder, added,
                       workspace, overlapped, stored>>, opened' \subseteq Repo
    PROVE  GatewayInv'
<1>1. /\ phase' = phase /\ Working(r, conn[r]) /\ holder # r
      /\ conn[r].ask \in Request
      /\ conn[r].id \in Repo \cup Conn \cup {Client}
      /\ (repo \in overlapped \/ conn[r].id \in {workspace[repo], Client})
  BY WorkerFields DEF Working, process
<1>2. conn'[r] = c /\ \A q \in Conn \ {r} : conn'[q] = conn[q]
  BY DEF Go, GatewayInv, TypeOK
<1>3. r \in Writing /\ r \notin Writing' /\ Writing' \subseteq Writing /\ Adding' \subseteq Adding
  BY <1>2 DEF Writing, Adding
<1>4. /\ Cardinality(Writing') \in Nat /\ Cardinality(Writing') + 1 <= Cardinality(Writing)
      /\ Cardinality(Adding') \in Nat /\ Cardinality(Adding') <= Cardinality(Adding)
  BY <1>3, CountsTyped, FewerLeft
<1>5. n \in 1..MaxEvents
  BY <1>4, CountsTyped DEF GatewayInv, Counts
<1>6. PICK e : e = [event |-> n, id |-> conn[r].id]
  OBVIOUS
<1>7. e \in Event /\ e.event = n /\ e.id = conn[r].id
  BY <1>1, <1>5, <1>6 DEF Event
<1>8. /\ log' \in [Repo -> SUBSET Event] /\ log'[repo] = log[repo] \cup {e}
      /\ \A o \in Repo \ {repo} : log'[o] = log[o]
      /\ \A o \in Repo : log[o] \subseteq log'[o]
  BY <1>6, <1>7 DEF GatewayInv, TypeOK
<1>9. TypeOK'
  <2>1. holder' \in Conn \cup {None} /\ (holder' # None => conn'[holder'].step # "free")
    BY <1>1, <1>2 DEF GatewayInv, TypeOK, Active
  <2>2. QED
    BY <1>1, <1>2, <1>8, <2>1, TypeStep DEF GatewayInv, TypeOK
<1>10. Names'
  <2>1. Naming(r, c)
    BY DEF Naming
  <2>2. QED
    BY <1>1, <2>1, NamesStep
<1>11. Works'
  <2>1. ASSUME NEW q \in Conn
        PROVE  Working(q, conn[q])'
    <3>1. CASE q = r
      <4>1. Kept(repo, n)'
        BY <1>1, <1>7, <1>8 DEF Kept, Listed
      <4>2. Working(r, c)'
        BY <1>5, <4>1 DEF Working
      <4>3. QED
        BY <1>2, <3>1, <4>2 DEF Working
    <3>2. CASE q # r
      <4>1. PICK d : d = conn[q] /\ d = conn'[q]
        BY <1>2, <3>2
      <4>2. Working(q, d)
        BY <4>1 DEF GatewayInv, Works
      <4>3. /\ workspace' = workspace /\ overlapped \subseteq overlapped'
            /\ \A o \in Repo : log[o] \subseteq log'[o]
        BY <1>8
      <4>4. Working(q, d)'
        BY <4>2, <4>3, WorkingStays
      <4>5. QED
        BY <4>1, <4>4 DEF Working
    <3>3. QED
      BY <3>1, <3>2
  <2>2. \A o \in Repo : Creators(o)' \subseteq Creators(o)
    BY <1>2 DEF Creators, Run
  <2>3. OneCreator'
    BY <2>2 DEF GatewayInv, Works, OneCreator
  <2>4. OneWorkspace'
    <3>1. ASSUME NEW o \in Repo \ overlapped, NEW f \in log'[o]
          PROVE  f.id \in {workspace[o], Client}
      BY <1>1, <1>7, <1>8, <3>1 DEF GatewayInv, Works, OneWorkspace
    <3>2. QED
      BY <3>1 DEF GatewayInv, Works, OneWorkspace
  <2>5. StoredStaysListed'
    BY <1>8 DEF GatewayInv, Works, StoredStaysListed, Listed
  <2>6. QED
    BY <2>1, <2>3, <2>4, <2>5 DEF Works
<1>12. Serves'
  BY <1>1, StillServed, ServesStep
<1>13. Counts'
  <2>1. Events' = Events \cup {e}
    <3>1. Events' \subseteq Events \cup {e}
      BY <1>8 DEF Events
    <3>2. Events \cup {e} \subseteq Events'
      BY <1>8 DEF Events
    <3>3. QED
      BY <3>1, <3>2
  <2>2. IsFiniteSet(Events)
    BY DEF GatewayInv, Counts
  <2>3. /\ IsFiniteSet(Events \cup {e}) /\ Cardinality(Events \cup {e}) \in Nat
        /\ Cardinality(Events \cup {e}) <= Cardinality(Events) + 1
    <3>1. /\ IsFiniteSet(Events \cup {e})
          /\ Cardinality(Events \cup {e}) =
               IF e \in Events THEN Cardinality(Events) ELSE Cardinality(Events) + 1
      BY <2>2, FS_AddElement
    <3>2. QED
      BY <3>1, CountsTyped
  <2>4. QED
    BY <1>4, <2>1, <2>3, CountsTyped DEF GatewayInv, Counts
<1>14. QED
  BY <1>9, <1>10, <1>11, <1>12, <1>13 DEF GatewayInv

\* A listing is read, or an event stored.
LEMMA StoreStep ==
    ASSUME GatewayInv, NEW r \in Conn, Store(r)
    PROVE  GatewayInv'
<1>1. /\ conn[r].step = "append" /\ conn[r].ask.op \in {"read", "write"}
      /\ UNCHANGED <<process, orphans, cut, file, registry, current, holder, added>>
      /\ UNCHANGED <<workspace, overlapped, stored>>
      /\ opened' = opened \cup {conn[r].repo}
  BY DEF Store, Run, naming
<1>2. PICK repo \in Repo : repo = conn[r].repo
  BY <1>1, WorkerFields
<1>3. conn[r] \in Connection /\ holder # r /\ opened' \subseteq Repo
  BY <1>1, <1>2, WorkerFields DEF GatewayInv, TypeOK
<1>4. CASE conn[r].ask.op = "read"
  <2> DEFINE c == [conn[r] EXCEPT !.step = "answer"]
  <2>1. c \in Connection /\ c.step = "answer" /\ c.ask = conn[r].ask
    BY <1>3, ConnFields
  <2>2. Go(r, c) /\ log' = log
    BY <1>4 DEF Store, Goto
  <2> HIDE DEF c
  <2>3. Naming(r, c) /\ Working(r, c)
    BY <1>4, <2>1 DEF Naming, Working
  <2>4. UNCHANGED Repositories
    BY <1>1, <2>2 DEF Repositories
  <2>5. QED
    BY <1>1, <1>3, <2>1, <2>2, <2>3, <2>4, QuietStep
<1>5. CASE conn[r].ask.op = "write"
  <2>1. PICK n : n = Cardinality(Events) + 1
    OBVIOUS
  <2>2. n \in 0..MaxEvents
    <3>1. r \in Writing
      BY <1>1, <1>5 DEF Writing
    <3>2. Cardinality(Writing) # 0
      BY <3>1, CountsTyped, FS_EmptySet
    <3>3. QED
      BY <2>1, <3>2, CountsTyped DEF GatewayInv, Counts
  <2> DEFINE c == [conn[r] EXCEPT !.step = "answer", !.event = n]
  <2>3. /\ c \in Connection /\ c.step = "answer" /\ c.ask = conn[r].ask /\ c.repo = repo
        /\ c.event = n
    BY <1>2, <1>3, <2>2 DEF Connection
  <2>4. Go(r, c) /\ log' = [log EXCEPT ![repo] = @ \cup {[event |-> n, id |-> conn[r].id]}]
    BY <1>2, <1>5, <2>1 DEF Store
  <2> HIDE DEF c
  <2>5. QED
    BY <1>1, <1>2, <1>3, <1>5, <2>1, <2>3, <2>4, LogStep
<1>6. QED
  BY <1>1, <1>4, <1>5

\* The work fails.
LEMMA FailStep ==
    ASSUME GatewayInv, NEW r \in Conn, Fails(r)
    PROVE  GatewayInv'
<1> DEFINE c == [conn[r] EXCEPT !.step = "refused"]
<1>1. /\ conn[r].step \in {"write", "append"} /\ conn[r].ask.op \in {"read", "write"} /\ Go(r, c)
      /\ UNCHANGED <<process, orphans, cut, file, registry, current, holder, added>>
      /\ UNCHANGED Repositories /\ opened' \subseteq opened \cup {conn[r].repo}
  BY DEF Fails, Run, Goto, naming, Repositories
<1>2. conn[r] \in Connection /\ holder # r /\ opened' \subseteq Repo
  BY <1>1, WorkerFields DEF GatewayInv, TypeOK
<1>3. c \in Connection /\ c.step = "refused" /\ c.ask = conn[r].ask
  BY <1>2, ConnFields
<1> HIDE DEF c
<1>4. Naming(r, c) /\ Working(r, c)
  BY <1>3 DEF Naming, Working
<1>5. QED
  BY <1>1, <1>2, <1>3, <1>4, QuietStep

(***************************************************************************)
(* Requests come, and the process ends.                                    *)
(***************************************************************************)
\* A request is accepted by a listener that serves, within the bounds.
LEMMA AcceptStep ==
    ASSUME GatewayInv, NEW r \in Conn, NEW request \in Asked, Accept(r, request)
    PROVE  GatewayInv'
<1>1. /\ phase = "up" /\ phase' = phase /\ conn[r] = Free
      /\ listeners[request.listener] = "serving"
      /\ Go(r, [Free EXCEPT !.step = "accepted", !.ask = request])
      /\ UNCHANGED <<process, orphans, cut, file, registry, current, holder, added>>
      /\ UNCHANGED <<workspace, log, overlapped, stored>> /\ UNCHANGED Repositories
      /\ opened' \subseteq Repo
  BY SameRepositories DEF Accept, naming, process
<1>2. /\ request \in Request /\ Free \in Connection /\ Free.step = "free" /\ r \notin orphans
  BY <1>1, FreeTyped, GatewayAssumption DEF GatewayInv, TypeOK, Active
<1>3. PICK c \in Connection : Go(r, c) /\ c.step = "accepted" /\ c.ask = request
  <2> DEFINE d == [Free EXCEPT !.step = "accepted", !.ask = request]
  <2>1. d \in Connection /\ d.step = "accepted" /\ d.ask = request
    BY <1>2 DEF Connection
  <2>2. QED
    BY <1>1, <2>1
<1>4. conn'[r] = c /\ \A q \in Conn \ {r} : conn'[q] = conn[q]
  BY <1>3 DEF Go, GatewayInv, TypeOK
<1>5. holder # r
  BY <1>1, <1>2, NotHolder
<1>6. TypeOK'
  <2>1. holder' \in Conn \cup {None} /\ (holder' # None => conn'[holder'].step # "free")
    BY <1>1, <1>5, <1>4 DEF GatewayInv, TypeOK, Active
  <2>2. QED
    BY <1>1, <1>2, <1>3, <1>4, <2>1, TypeStep DEF GatewayInv, TypeOK
<1>7. Names'
  <2>1. Naming(r, c)
    BY <1>3 DEF Naming
  <2>2. QED
    BY <1>1, <1>3, <1>5, <2>1, NamesStep
<1>8. Works'
  <2>1. Working(r, c)
    BY <1>3 DEF Working
  <2>2. QED
    BY <1>1, <1>3, <2>1, WorksStep
<1>9. Serves'
  <2>1. Served(c)
    BY <1>1, <1>3 DEF Served
  <2>2. QED
    BY <1>1, <1>2, <1>3, <2>1, ServesStep
<1>10. Counts'
  <2> DEFINE Adds == {q \in Active : conn[q].ask.op = "add"}
             Writes == {q \in Active : conn[q].ask.op = "write"}
  <2>1. /\ Adding' \subseteq Adding \cup {r} /\ Adding \subseteq Adds
        /\ Writing' \subseteq Writing \cup {r} /\ Writing \subseteq Writes
        /\ request.op # "add" => Adding' \subseteq Adding
        /\ request.op # "write" => Writing' \subseteq Writing
    BY <1>3, <1>4 DEF Adding, Writing, Active
  <2>2. /\ IsFiniteSet(Adds) /\ IsFiniteSet(Writes)
        /\ Cardinality(Adds) \in Nat /\ Cardinality(Writes) \in Nat
        /\ Cardinality(Adding) <= Cardinality(Adds)
        /\ Cardinality(Writing) <= Cardinality(Writes)
    <3>1. Adds \subseteq Conn /\ Writes \subseteq Conn /\ IsFiniteSet(Conn)
      BY GatewayAssumption DEF Active
    <3> HIDE DEF Adds, Writes
    <3>2. QED
      BY <2>1, <3>1, FewerLeft
  <2>3. /\ request.op = "add" => Cardinality(DOMAIN file) + Cardinality(Adds) < MaxProjects
        /\ request.op = "write" => Cardinality(Events) + Cardinality(Writes) < MaxEvents
    BY DEF Accept, WithinBounds, Room, Underway
  <2> HIDE DEF Adds, Writes
  <2>4. /\ IsFiniteSet(Adding \cup {r}) /\ Cardinality(Adding \cup {r}) <= Cardinality(Adding) + 1
        /\ IsFiniteSet(Writing \cup {r}) /\ Cardinality(Writing \cup {r}) <= Cardinality(Writing) + 1
    BY CountsTyped, OneMore
  <2>5. /\ Cardinality(Adding') \in Nat
        /\ IF request.op = "add" THEN Cardinality(Adding') <= Cardinality(Adding) + 1
                                 ELSE Cardinality(Adding') <= Cardinality(Adding)
    <3>1. Cardinality(Adding') <= Cardinality(Adding \cup {r}) /\ Cardinality(Adding') \in Nat
          /\ Cardinality(Adding \cup {r}) \in Nat
      BY <2>1, <2>4, FewerLeft
    <3>2. request.op # "add" => Cardinality(Adding') <= Cardinality(Adding)
      BY <2>1, CountsTyped, FewerLeft
    <3>3. QED
      BY <2>4, <3>1, <3>2, CountsTyped
  <2>6. /\ Cardinality(Writing') \in Nat
        /\ IF request.op = "write" THEN Cardinality(Writing') <= Cardinality(Writing) + 1
                                   ELSE Cardinality(Writing') <= Cardinality(Writing)
    <3>1. Cardinality(Writing') <= Cardinality(Writing \cup {r}) /\ Cardinality(Writing') \in Nat
          /\ Cardinality(Writing \cup {r}) \in Nat
      BY <2>1, <2>4, FewerLeft
    <3>2. request.op # "write" => Cardinality(Writing') <= Cardinality(Writing)
      BY <2>1, CountsTyped, FewerLeft
    <3>3. QED
      BY <2>4, <3>1, <3>2, CountsTyped
  <2>7. /\ Cardinality(DOMAIN file) + Cardinality(Adding') <= MaxProjects
        /\ Cardinality(Events) + Cardinality(Writing') <= MaxEvents
    BY <2>2, <2>3, <2>5, <2>6, CountsTyped DEF GatewayInv, Counts
  <2>8. Events' = Events /\ file' = file
    BY <1>1 DEF Events
  <2>9. QED
    BY <2>7, <2>8 DEF GatewayInv, Counts
<1>11. QED
  BY <1>6, <1>7, <1>8, <1>9, <1>10 DEF GatewayInv

\* Requests may be dropped, together with the mutex if they hold it.
Drops ==
    /\ conn' \in [Conn -> Connection]
    /\ \A q \in Conn : conn'[q] = conn[q] \/ conn'[q].step = "free"
    /\ \/ /\ registry' = registry /\ holder' = holder
          /\ holder # None => conn'[holder] = conn[holder]
       \/ /\ holder' = None
          /\ \A q \in Conn : conn'[q].step = "free" \/ conn'[q].ask.op \in {"read", "write"}
    /\ orphans' \subseteq Active'
    /\ UNCHANGED <<file, added, workspace, opened, log, overlapped, stored>>

\* Connections may be dropped, by a kill or by the end of a listener, whatever
\* becomes of the process.
LEMMA DropStep ==
    ASSUME GatewayInv, Drops,
           phase' \in {"down", "up", "drain", "exit"},
           listeners' \in [Listener -> {"binding", "serving", "ended"}],
           registry' \in Projects, \A n \in DOMAIN registry' : Holds(file, n, registry'[n]),
           phase' # "down" => current' \in DOMAIN registry' \cup {None},
           phase' # "down" /\ Default # None => Default \in DOMAIN registry',
           cut' = {}, stops' \in 0..MaxStops, Serves'
    PROVE  GatewayInv'
<1>1. TypeOK'
  <2>1. holder \in Conn \cup {None} /\ (holder # None => conn[holder].step # "free")
    BY DEF GatewayInv, TypeOK, Active
  <2>2. holder' \in Active' \cup {None}
    BY <2>1 DEF Drops, Active
  <2>3. \A q \in Active' : conn'[q].ask \in Request
    BY DEF Drops, Active, GatewayInv, TypeOK
  <2>4. QED
    BY <2>2, <2>3 DEF Drops, GatewayInv, TypeOK
<1>2. Names'
  <2>1. ASSUME NEW q \in Conn
        PROVE  Naming(q, conn[q])'
    <3>1. PICK d : d = conn'[q]
      OBVIOUS
    <3>2. CASE d.step = "free"
      BY <3>1, <3>2 DEF Naming
    <3>3. CASE d.step # "free"
      <4>1. /\ d = conn[q] /\ file' = file
            /\ (registry' = registry /\ holder' = holder) \/ d.ask.op \in {"read", "write"}
        BY <3>1, <3>3 DEF Drops
      <4>2. Naming(q, d)
        BY <4>1 DEF GatewayInv, Names
      <4>3. QED
        BY <3>1, <4>1, <4>2 DEF Naming
    <3>4. QED
      BY <3>2, <3>3
  <2>2. HolderWrites'
    BY DEF GatewayInv, Names, HolderWrites, Drops
  <2>3. AddedStays' /\ DefaultKnown'
    BY DEF GatewayInv, Names, AddedStays, DefaultKnown, Drops, Holds
  <2>4. QED
    BY <2>1, <2>2, <2>3 DEF Names
<1>3. Works'
  <2>1. ASSUME NEW q \in Conn
        PROVE  Working(q, conn[q])'
    <3>1. PICK d : d = conn'[q]
      OBVIOUS
    <3>2. CASE d.step = "free"
      BY <3>1, <3>2 DEF Working
    <3>3. CASE d.step # "free"
      <4>1. d = conn[q]
        BY <3>1, <3>3 DEF Drops
      <4>2. Working(q, d)
        BY <4>1 DEF GatewayInv, Works
      <4>3. QED
        BY <3>1, <4>2 DEF Working, Kept, Listed, Drops
    <3>4. QED
      BY <3>2, <3>3
  <2>2. \A o \in Repo : Creators(o)' \subseteq Creators(o)
    BY DEF Creators, Run, Drops
  <2>3. OneCreator'
    BY <2>2 DEF GatewayInv, Works, OneCreator, Drops
  <2>4. OneWorkspace' /\ StoredStaysListed'
    BY DEF GatewayInv, Works, OneWorkspace, StoredStaysListed, Listed, Drops
  <2>5. QED
    BY <2>1, <2>3, <2>4 DEF Works
<1>4. Counts'
  <2>1. Adding' \subseteq Adding /\ Writing' \subseteq Writing
    BY DEF Adding, Writing, Drops
  <2>2. QED
    BY <2>1, CountsStep DEF Drops
<1>5. QED
  BY <1>1, <1>2, <1>3, <1>4 DEF GatewayInv

\* What the process is before it takes a step of its own.
LEMMA ProcessFields ==
    ASSUME GatewayInv
    PROVE  /\ phase \in {"down", "up", "drain", "exit"}
           /\ listeners \in [Listener -> {"binding", "serving", "ended"}]
           /\ conn \in [Conn -> Connection] /\ cut = {} /\ stops \in 0..MaxStops
           /\ file \in Projects /\ registry \in Projects
           /\ \A n \in DOMAIN registry : Holds(file, n, registry[n])
           /\ phase # "down" => current \in DOMAIN registry \cup {None}
           /\ Default # None => Default \in DOMAIN file
           /\ phase # "down" /\ Default # None => Default \in DOMAIN registry
           /\ orphans \subseteq Active
           /\ \A q \in orphans : Orphaned(conn[q])
           /\ Waiting = {} => /\ holder = None
                              /\ \A q \in Conn : \/ conn[q].step = "free"
                                                 \/ conn[q].ask.op \in {"read", "write"}
           /\ phase = "down" => Waiting = {}
           /\ phase # "down" => stops < MaxStops
           /\ \A q \in Waiting : phase \in {"up", "drain"} =>
                 listeners[conn[q].ask.listener] = "serving" /\ conn[q].ask.listener \in Listener
<1>1. \A q \in Active : conn[q].ask.listener \in Listener
  BY RequestFields DEF GatewayInv, TypeOK, Active
<1>2. /\ TypeOK /\ HolderWrites /\ DefaultKnown /\ AddedStays /\ Serves
  BY DEF GatewayInv, Names
<1>3. \A q \in Waiting : phase \in {"up", "drain"} =>
          listeners[conn[q].ask.listener] = "serving" /\ conn[q].ask.listener \in Listener
  BY <1>1, <1>2 DEF Serves, Served, Waiting, Active
<1>4. Waiting = {} => /\ holder = None
                      /\ \A q \in Conn : \/ conn[q].step = "free"
                                         \/ conn[q].ask.op \in {"read", "write"}
  <2>1. ASSUME Waiting = {}, NEW q \in Active
        PROVE  conn[q].ask.op \in {"read", "write"}
    BY <1>2, <2>1 DEF Waiting, Serves, Orphaned
  <2>2. ASSUME Waiting = {}, holder # None
        PROVE  FALSE
    <3>1. holder \in Active /\ conn[holder].ask.op = "add"
      BY <1>2, <2>2 DEF TypeOK, HolderWrites
    <3>2. QED
      BY <2>1, <2>2, <3>1
  <2>3. QED
    BY <2>1, <2>2 DEF Active
<1>5. QED
  BY <1>2, <1>3, <1>4 DEF TypeOK, DefaultKnown, AddedStays, Serves, DrainAnswers, Holds

\* A step of the process that leaves the connections as they are.
LEMMA SameConnections ==
    ASSUME GatewayInv, conn' = conn, orphans \subseteq orphans', orphans' \subseteq Active,
           \A q \in orphans' \ orphans : Orphaned(conn[q]),
           UNCHANGED <<file, added, workspace, opened, log, overlapped, stored, cut, holder>>,
           registry' = registry \/ Waiting = {}
    PROVE  /\ Drops /\ Active' = Active /\ Waiting' \subseteq Waiting /\ cut' = {}
           /\ \A q \in orphans' : Orphaned(conn[q])'
<1>1. Active' = Active /\ Waiting' \subseteq Waiting /\ orphans' \subseteq Active'
  BY DEF Active, Waiting
<1>2. \A q \in orphans' : Orphaned(conn[q])
  BY ProcessFields
<1>3. conn' \in [Conn -> Connection] /\ cut' = {}
  BY ProcessFields
<1>4. \/ registry' = registry
      \/ holder' = None /\ \A q \in Conn : \/ conn'[q].step = "free"
                                           \/ conn'[q].ask.op \in {"read", "write"}
  BY ProcessFields
<1>5. Drops
  BY <1>1, <1>3, <1>4 DEF Drops
<1>6. QED
  BY <1>1, <1>2, <1>3, <1>5 DEF Orphaned

\* The process starts.
LEMMA StartStep ==
    ASSUME GatewayInv, Start
    PROVE  GatewayInv'
<1>1. /\ phase = "down" /\ stops < MaxStops /\ phase' = "up" /\ registry' = file /\ current' = None
      /\ listeners' = [l \in Listener |-> "binding"]
      /\ UNCHANGED <<stops, conn, orphans, cut, holder>>
      /\ UNCHANGED <<file, added, workspace, opened, log, overlapped, stored>>
  BY DEF Start, repositories, files
<1>2. Waiting = {} /\ orphans \subseteq Active
  BY <1>1, ProcessFields
<1>3. /\ Drops /\ Waiting' = {} /\ cut' = {}
      /\ \A q \in orphans' : Orphaned(conn[q])'
  BY <1>1, <1>2, SameConnections
<1>4. Serves'
  <2>1. \A q \in Conn \ orphans' : Served(conn[q])'
    BY <1>3 DEF Served, Waiting, Active
  <2>2. QED
    BY <1>1, <1>3, <2>1 DEF Serves, DrainAnswers
<1>5. \A n \in DOMAIN registry' : Holds(file, n, registry'[n])
  BY <1>1 DEF Holds
<1>6. QED
  BY <1>1, <1>3, <1>4, <1>5, ProcessFields, DropStep

\* Nobody waits for a request any more.
LEMMA TimeOutStep ==
    ASSUME GatewayInv, NEW r \in Conn, TimeOut(r)
    PROVE  GatewayInv'
<1>1. /\ r \in Elsewhere /\ orphans' = orphans \cup {r}
      /\ UNCHANGED <<phase, listeners, stops, conn, cut, holder, registry, current>>
      /\ UNCHANGED <<file, added, workspace, opened, log, overlapped, stored>>
  BY DEF TimeOut, process, naming, repositories, files
<1>2. r \in Active /\ Orphaned(conn[r])
  BY <1>1 DEF Elsewhere, Run, Orphaned
<1>3. /\ Drops /\ Active' = Active /\ Waiting' \subseteq Waiting /\ cut' = {}
      /\ \A q \in orphans' : Orphaned(conn[q])'
  BY <1>1, <1>2, SameConnections, ProcessFields
<1>4. Serves'
  <2>1. \A q \in Conn \ orphans' : Served(conn[q])'
    BY <1>1 DEF GatewayInv, Serves, Served
  <2>2. phase' = "down" => Waiting' = {}
    BY <1>1, <1>3, ProcessFields
  <2>3. QED
    BY <1>1, <1>3, <2>1, <2>2, ProcessFields DEF Serves, DrainAnswers
<1>5. QED
  BY <1>1, <1>3, <1>4, ProcessFields, DropStep

\* A listener binds, the signal comes, a listener ends.
LEMMA ListenerStep ==
    ASSUME GatewayInv, Signal \/ \E l \in Listener : Bind(l) \/ ListenerEnds(l)
    PROVE  GatewayInv'
<1>1. /\ phase \in {"up", "drain"} /\ phase' \in {"up", "drain"}
      /\ UNCHANGED <<stops, conn, orphans, cut, holder, registry, current>>
      /\ UNCHANGED <<file, added, workspace, opened, log, overlapped, stored>>
  BY DEF Bind, ListenerEnds, Signal, naming, repositories, files
<1>2. /\ Drops /\ Active' = Active /\ Waiting' \subseteq Waiting /\ cut' = {}
      /\ \A q \in orphans' : Orphaned(conn[q])'
  BY <1>1, SameConnections, ProcessFields
<1>3. listeners' \in [Listener -> {"binding", "serving", "ended"}]
  BY ProcessFields DEF Bind, ListenerEnds, Signal
<1>4. \A q \in Waiting : listeners'[conn[q].ask.listener] = "serving"
  BY <1>1, ProcessFields DEF Bind, ListenerEnds, Signal
<1>5. Serves'
  <2>1. \A q \in Conn \ orphans' : Served(conn[q])'
    BY <1>1, <1>4 DEF Served, Waiting, Active
  <2>2. QED
    BY <1>1, <1>2, <2>1, ProcessFields DEF Serves, DrainAnswers
<1>6. QED
  BY <1>1, <1>2, <1>3, <1>5, ProcessFields, DropStep

\* serve_listeners returns, in time only when nothing is left to answer.
LEMMA ExitStep ==
    ASSUME GatewayInv, phase \in {"up", "drain"}, NEW inTime \in BOOLEAN, Exit(inTime),
           inTime => Waiting = {},
           listeners' \in [Listener -> {"binding", "serving", "ended"}]
    PROVE  GatewayInv'
<1>1. /\ phase' = "exit" /\ stops' = stops /\ holder' = holder
      /\ registry' = registry /\ current' = current
      /\ UNCHANGED <<file, added, workspace, opened, log, overlapped, stored>>
  BY DEF Exit, naming, repositories, files
<1>2. cut' = {}
  BY ProcessFields DEF Exit
<1>3. PICK dropped \in SUBSET Dropped, left \in SUBSET Elsewhere :
         /\ conn' = [q \in Conn |-> IF q \in dropped THEN Free ELSE conn[q]]
         /\ orphans' = orphans \cup (left \ dropped)
  <2>1. {r \in Elsewhere : conn[r].repo \in Stl} \subseteq Elsewhere
    OBVIOUS
  <2>2. QED
    BY <2>1 DEF Exit
<1>4. \A q \in dropped : q \in Waiting /\ conn[q].step \in {"accepted", "resolved", "answer", "refused"}
  BY <1>3 DEF Dropped
<1>5. holder # None => holder \in Conn /\ holder \notin dropped
  BY <1>4 DEF GatewayInv, Names, HolderWrites, TypeOK, Active
<1>6. \A q \in orphans' : q \in Active /\ conn'[q] = conn[q] /\ Orphaned(conn[q])
  BY <1>3, <1>4, ProcessFields DEF Elsewhere, Run, Orphaned, Waiting, Active
<1>7. Drops
  <2>1. orphans' \subseteq Active'
    BY <1>6 DEF Active
  <2>2. conn' \in [Conn -> Connection] /\ \A q \in Conn : conn'[q] = conn[q] \/ conn'[q].step = "free"
    BY <1>3, ProcessFields, FreeTyped
  <2>3. holder # None => conn'[holder] = conn[holder]
    BY <1>3, <1>5
  <2>4. QED
    BY <1>1, <2>1, <2>2, <2>3 DEF Drops
<1>8. Serves'
  <2>1. \A q \in Conn \ orphans' : Served(conn[q])'
    BY <1>1 DEF Served
  <2>2. \A q \in orphans' : Orphaned(conn[q])'
    BY <1>6 DEF Orphaned
  <2>3. QED
    BY <1>1, <1>2, <2>1, <2>2, ProcessFields DEF Serves, DrainAnswers
<1>9. QED
  BY <1>1, <1>2, <1>7, <1>8, ProcessFields, DropStep

\* A listener that cannot bind ends the others, unless they end already.
LEMMA BindFailsStep ==
    ASSUME GatewayInv, NEW l \in Listener, BindFails(l)
    PROVE  GatewayInv'
<1>1. /\ listeners[l] = "binding" /\ listeners' = [listeners EXCEPT ![l] = "ended"]
      /\ listeners' \in [Listener -> {"binding", "serving", "ended"}]
  BY ProcessFields DEF BindFails
<1>2. CASE phase = "up" /\ Exit(FALSE)
  BY <1>1, <1>2, ExitStep
<1>3. CASE phase = "drain" /\ UNCHANGED <<phase, stops, conn, orphans, cut, naming, repositories>>
  <2>1. /\ phase' = "drain" /\ UNCHANGED <<stops, conn, orphans, cut, holder, registry, current>>
        /\ UNCHANGED <<file, added, workspace, opened, log, overlapped, stored>>
    BY <1>3 DEF naming, repositories, files
  <2>2. /\ Drops /\ Active' = Active /\ Waiting' \subseteq Waiting /\ cut' = {}
        /\ \A q \in orphans' : Orphaned(conn[q])'
    BY <2>1, SameConnections, ProcessFields
  <2>3. \A q \in Waiting : listeners'[conn[q].ask.listener] = "serving"
    BY <1>1, <1>3, ProcessFields
  <2>4. Serves'
    <3>1. \A q \in Conn \ orphans' : Served(conn[q])'
      BY <2>1, <2>3 DEF Served, Waiting, Active
    <3>2. QED
      BY <1>3, <2>1, <2>2, <3>1, ProcessFields DEF Serves, DrainAnswers
  <2>5. QED
    BY <1>1, <1>3, <2>1, <2>2, <2>4, ProcessFields, DropStep
<1>4. QED
  BY <1>2, <1>3 DEF BindFails

\* A drain that is over has no request left.
LEMMA DrainStep ==
    ASSUME GatewayInv, Drained \/ Deadline
    PROVE  GatewayInv'
<1>1. phase = "drain"
  BY DEF Drained, Deadline
<1>2. CASE Drained
  <2>1. Exit(TRUE) /\ listeners' = listeners /\ \A l \in Listener : listeners[l] = "ended"
    BY <1>2 DEF Drained
  <2>2. Waiting = {}
    BY <1>1, <2>1, ProcessFields
  <2>3. QED
    BY <1>1, <2>1, <2>2, ProcessFields, ExitStep
<1>3. CASE Deadline
  <2>1. Exit(FALSE) /\ listeners' = [l \in Listener |-> "ended"]
    BY <1>3 DEF Deadline
  <2>2. listeners' \in [Listener -> {"binding", "serving", "ended"}]
    BY <2>1
  <2>3. QED
    BY <1>1, <2>1, <2>2, ExitStep
<1>4. QED
  BY <1>2, <1>3

\* The process is gone, with what it held in memory; only other processes go on.
LEMMA DownStep ==
    ASSUME GatewayInv, Gone \/ Crash
    PROVE  GatewayInv'
<1>1. /\ phase' = "down" /\ listeners' = [l \in Listener |-> "ended"]
      /\ stops' = stops + 1 /\ registry' = NoProjects /\ cut' = {}
      /\ UNCHANGED <<file, added, workspace, opened, log, overlapped, stored>>
  BY ProcessFields DEF Gone, Crash, repositories, files
<1>2. /\ conn' \in [Conn -> Connection] /\ holder' = None
      /\ \A q \in Conn : conn'[q].step = "free" \/ (conn'[q] = conn[q] /\ q \in orphans')
      /\ \A q \in orphans' : q \in Active /\ conn'[q] = conn[q] /\ Orphaned(conn[q])
  <2>1. CASE Gone
    <3>1. conn' = conn /\ orphans' = orphans /\ holder' = holder /\ Waiting = {}
      BY <2>1 DEF Gone
    <3>2. QED
      BY <3>1, ProcessFields DEF Waiting, Active
  <2>2. CASE Crash
    <3>1. PICK left \in SUBSET (Elsewhere \cup orphans) :
             /\ conn' = [r \in Conn |-> IF r \in left THEN conn[r] ELSE Free]
             /\ orphans' = left
      BY <2>2 DEF Crash
    <3>2. \A q \in left : q \in Active /\ Orphaned(conn[q])
      BY <3>1, ProcessFields DEF Elsewhere, Run, Orphaned
    <3>3. holder' = None
      BY <2>2 DEF Crash
    <3>4. QED
      BY <3>1, <3>2, <3>3, ProcessFields, FreeTyped DEF Active
  <2>3. QED
    BY <2>1, <2>2
<1>3. Drops
  <2>1. \A q \in Conn : conn'[q] = conn[q] \/ conn'[q].step = "free"
    BY <1>2
  <2>2. \A q \in Conn : conn'[q].step = "free" \/ conn'[q].ask.op \in {"read", "write"}
    BY <1>2 DEF Orphaned
  <2>3. orphans' \subseteq Active'
    BY <1>2 DEF Active
  <2>4. QED
    BY <1>1, <1>2, <2>1, <2>2, <2>3 DEF Drops
<1>4. Serves'
  <2>1. \A q \in orphans' : Orphaned(conn[q])'
    BY <1>2 DEF Orphaned
  <2>2. Waiting' = {}
    BY <1>2 DEF Waiting, Active
  <2>3. QED
    BY <1>1, <2>1, <2>2 DEF Serves, Served, DrainAnswers
<1>5. stops' \in 0..MaxStops /\ listeners' \in [Listener -> {"binding", "serving", "ended"}]
  <2>1. phase # "down"
    BY DEF Gone, Crash
  <2>2. QED
    BY <1>1, <2>1, ProcessFields, FreeTyped
<1>6. QED
  BY <1>1, <1>3, <1>4, <1>5, ProcessFields, FreeTyped, DropStep

(***************************************************************************)
(* Theorems.                                                               *)
(***************************************************************************)
\* The invariant holds before the first start.
LEMMA InitInv == Init => GatewayInv
<1> SUFFICES ASSUME Init
             PROVE  GatewayInv
  OBVIOUS
<1>1. /\ Config \in Projects /\ IsFiniteSet(DOMAIN Config) /\ Default \in DOMAIN Config \cup {None}
      /\ Cardinality(DOMAIN Config) <= MaxProjects /\ Fresh \subseteq Repo
      /\ Cardinality(DOMAIN Config) \in Nat
  BY GatewayAssumption, FS_CardinalityType
<1>2. \A r \in Conn : conn[r] = Free
  BY DEF Init
<1>3. Active = {} /\ Adding = {} /\ Writing = {} /\ Events = {}
  BY <1>2, FreeTyped DEF Init, Active, Adding, Writing, Events
<1>4. TypeOK
  <2>1. added \subseteq Name \X Repo
    BY <1>1, ProjectsType DEF Init
  <2>2. workspace \in [Repo -> Repo \cup Conn \cup {Torn, None}]
    BY DEF Init
  <2>3. QED
    BY <1>1, <1>3, <2>1, <2>2, FreeTyped DEF Init, TypeOK
<1>5. Names
  BY <1>1, <1>2, FreeTyped DEF Init, Names, Naming, HolderWrites, AddedStays, DefaultKnown
<1>6. Works
  <2>1. \A repo \in Repo : Creators(repo) = {}
    BY <1>2, FreeTyped DEF Creators, Run
  <2>2. OneCreator /\ StoredStaysListed
    BY <2>1 DEF OneCreator, StoredStaysListed, Init
  <2>3. OneWorkspace
    BY FreeTyped DEF OneWorkspace, Init
  <2>4. \A r \in Conn : Working(r, conn[r])
    BY <1>2, FreeTyped DEF Working
  <2>5. QED
    BY <2>2, <2>3, <2>4 DEF Works
<1>7. Serves
  BY <1>2, <1>3, FreeTyped DEF Init, Serves, Served, Waiting, DrainAnswers
<1>8. Counts
  BY <1>1, <1>3, FS_EmptySet, FreeTyped DEF Init, Counts
<1>9. QED
  BY <1>4, <1>5, <1>6, <1>7, <1>8 DEF GatewayInv

\* Every step of a request, of its listener and of the process keeps it.
LEMMA StepInv == GatewayInv /\ [Next]_vars => GatewayInv'
<1> SUFFICES ASSUME GatewayInv, [Next]_vars
             PROVE  GatewayInv'
  OBVIOUS
<1>1. CASE Next
  <2>1. CASE Start \/ Signal \/ Drained \/ Deadline \/ Gone \/ Crash
    BY <2>1, StartStep, ListenerStep, DrainStep, DownStep
  <2>2. ASSUME NEW l \in Listener, Bind(l) \/ BindFails(l) \/ ListenerEnds(l)
        PROVE  GatewayInv'
    BY <2>2, ListenerStep, BindFailsStep
  <2>3. ASSUME NEW r \in Conn, ProjectsRequest(r) \/ WorkRequest(r) \/ McpRequest(r)
        PROVE  GatewayInv'
    BY <2>3, AcceptStep DEF ProjectsRequest, WorkRequest, McpRequest
  <2>4. ASSUME NEW r \in Conn, Step(r)
        PROVE  GatewayInv'
    BY <2>4, RefuseStep, ReadConfigStep, WriteConfigStep, WriteConfigFailsStep, InsertNamedStep,
       FindStep, SetCurrentStep, ResolveStep, ForsakenStep, LoadStep, OpenStep, CreateStep,
       StoreStep, FailStep, AnswerStep, TimeOutStep
       DEF Step, Finish, Append, Forward
  <2>5. ASSUME NEW edit \in Edits, EditConfig(edit)
        PROVE  GatewayInv'
    BY <2>5, EditStep
  <2>6. QED
    BY <1>1, <2>1, <2>2, <2>3, <2>4, <2>5 DEF Next
<1>2. CASE UNCHANGED vars
  <2>1. /\ UNCHANGED <<phase, listeners, stops, conn, orphans, cut, holder, registry, current>>
        /\ UNCHANGED <<file, added, workspace, opened, log, overlapped, stored>>
    BY <1>2 DEF vars, process, naming, repositories, files
  <2>2. /\ Drops /\ Active' = Active /\ Waiting' \subseteq Waiting /\ cut' = {}
        /\ \A q \in orphans' : Orphaned(conn[q])'
    BY <2>1, SameConnections, ProcessFields
  <2>3. Serves'
    <3>1. \A q \in Conn \ orphans' : Served(conn[q])'
      BY <2>1 DEF GatewayInv, Serves, Served
    <3>2. QED
      BY <2>1, <2>2, <3>1, ProcessFields DEF Serves, DrainAnswers
  <2>4. QED
    BY <2>1, <2>2, <2>3, ProcessFields, DropStep
<1>3. QED
  BY <1>1, <1>2

\* Every reachable state of a gateway satisfies the inductive invariant.
THEOREM GatewaySound == Spec => []GatewayInv
  BY InitInv, StepInv, PTL DEF Spec

\* What gateway.rs and lifecycle.rs keep has its type: the projects of a base
\* always leave a name, a listed id is that of a workspace.json.
THEOREM Typing == Spec => []TypeOK
<1>1. GatewayInv => TypeOK
  BY DEF GatewayInv
<1>2. QED
  BY <1>1, GatewaySound, PTL

\* add_project: a project that was reported as added, or that the owner wrote into
\* the configuration, keeps its name and its repository in the file, through
\* concurrent additions, restarts and crashes.
THEOREM ProjectsStay == Spec => []AddedStays
<1>1. GatewayInv => AddedStays
  BY DEF GatewayInv, Names
<1>2. QED
  BY <1>1, GatewaySound, PTL

\* LocalEnv::load and RuntimeEnv::load: an event that was reported as stored is in
\* the log for good, and listed under its repository's workspace or, if an stl
\* found no database, under the client's name; only where the first two requests
\* of a repository overlapped may it be listed under an id that was replaced.
THEOREM WritesListed == Spec => []StoredStaysListed
<1>1. GatewayInv => StoredStaysListed
  BY DEF GatewayInv, Works
<1>2. QED
  BY <1>1, GatewaySound, PTL

\* serve_listeners: a drain that is over in time has answered every request.
THEOREM DrainsAnswer == Spec => []DrainAnswers
<1>1. GatewayInv => DrainAnswers
  BY DEF GatewayInv, Serves
<1>2. QED
  BY <1>1, GatewaySound, PTL
=============================================================================
