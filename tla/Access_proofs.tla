---------------------------- MODULE Access_proofs ----------------------------
(***************************************************************************)
(* Proofs about Access and Migration, for any number of processes, version *)
(* rows, migrations, clients, codes and tokens.                            *)
(*                                                                         *)
(* OpenedIsComplete is not inductive: it says nothing of a process that is *)
(* still opening the file.  OpenInv adds that a version row, whoever put   *)
(* it back, never exceeds what has been applied (VersionIsApplied), and    *)
(* what a process that reached a migration may rely on (Reached).          *)
(*                                                                         *)
(* CodeRedeemedOnce rests on the transaction that reads a code and uses    *)
(* it: a process whose snapshot is current has read a code that is unused  *)
(* still (SeenUnused), and an unused code has no token (UnusedNotIssued).  *)
(*                                                                         *)
(* AnswerIsRight rests on what an open server has seen applied: it finds   *)
(* hashed rows only (RowsHashed), rows agree with what was issued and      *)
(* revoked (RowsKnown), and a purge takes no live one (LiveStored).        *)
(***************************************************************************)
EXTENDS Access, TLAPS

files == <<version, applied, opening>>

Complete(done, s, n) == 1..n \subseteq done[s]

FilesTypeOK ==
    /\ version \in [Schema -> Nat]
    /\ applied \in [Schema -> SUBSET Nat]
    /\ opening \in [Proc -> Opening]

VersionIsApplied == \A s \in Schema : Complete(applied, s, version[s])

\* Every row before the one a process works on is complete, and the one it
\* works on up to the migration before its own.
Reached(done, o) ==
    /\ o.step \in {"version", "begin", "snapshot"} =>
         \A i \in 1..(o.at - 1) : Complete(done, Order[i], Latest[Order[i]])
    /\ o.step \in {"begin", "snapshot"} => Complete(done, Order[o.at], o.target - 1)
    /\ o.step = "open" => \A s \in Schema : Complete(done, s, Latest[s])

OpenInv ==
    /\ FilesTypeOK
    /\ VersionIsApplied
    /\ \A p \in Proc : Reached(applied, opening[p])

(***************************************************************************)
(* Openings                                                                *)
(***************************************************************************)
\* The rows are those of a nonempty sequence.
LEMMA OrderFacts ==
    /\ DOMAIN Order = 1..Len(Order)
    /\ Len(Order) \in Nat \ {0}
    /\ \A i \in DOMAIN Order : Order[i] \in Schema /\ Latest[Order[i]] \in Nat
    /\ Latest \in [Schema -> Nat]
<1>1. Order \in Seq(Schema) /\ Latest \in [Schema -> Nat]
  BY MigrationAssumption
<1>2. DOMAIN Order = 1..Len(Order) /\ Len(Order) \in Nat
  BY <1>1
<1>3. \A i \in DOMAIN Order : Order[i] \in Schema
  BY DEF Schema
<1>4. DOMAIN Order # {}
  BY AccessAssumption DEF Schema
<1> QED
  BY <1>1, <1>2, <1>3, <1>4

\* An opening of each kind, and the fields it has.
LEMMA OpeningFacts ==
    ASSUME NEW o \in Opening
    PROVE  /\ o.step \in {"closed", "open", "version", "begin", "snapshot"}
           /\ o.step \in {"version", "begin", "snapshot"} => o.at \in DOMAIN Order
           /\ o.step \in {"begin", "snapshot"} => o.target \in Nat
<1>1. CASE o \in {Closed, Opened}
  BY <1>1 DEF Closed, Opened
<1>2. CASE o \in [step : {"version"}, at : DOMAIN Order]
  BY <1>2
<1>3. CASE o \in [step : {"begin", "snapshot"}, at : DOMAIN Order, target : Nat]
  BY <1>3
<1> QED
  BY <1>1, <1>2, <1>3 DEF Opening

\* Where a process goes after the migration before "target" of a row: it may
\* rely on what it needs there, if that migration and the rows before are done.
LEMMA OnwardReached ==
    ASSUME NEW done, NEW at \in DOMAIN Order, NEW target \in Nat,
           \A i \in 1..(at - 1) : Complete(done, Order[i], Latest[Order[i]]),
           Complete(done, Order[at], target - 1)
    PROVE  Onward(at, target) \in Opening /\ Reached(done, Onward(at, target))
<1> DEFINE s == Order[at]
<1>1. s \in Schema /\ Latest[s] \in Nat /\ at \in 1..Len(Order) /\ Len(Order) \in Nat
  BY OrderFacts
<1>2. CASE target <= Latest[s]
  <2>1. Onward(at, target) = [step |-> "begin", at |-> at, target |-> target]
    BY <1>2 DEF Onward
  <2> QED
    BY <2>1 DEF Opening, Reached
<1>3. CASE target > Latest[s]
  <2>1. Complete(done, s, Latest[s])
    <3>1. 1..Latest[s] \subseteq 1..(target - 1)
      BY <1>1, <1>3
    <3> QED
      BY <3>1 DEF Complete
  <2>2. \A i \in 1..at : Complete(done, Order[i], Latest[Order[i]])
    BY <1>1, <2>1
  <2>3. CASE at < Len(Order)
    <3>1. Onward(at, target) = [step |-> "version", at |-> at + 1]
      BY <1>1, <1>3, <2>3 DEF Onward
    <3>2. at + 1 \in DOMAIN Order /\ (at + 1) - 1 = at
      BY <1>1, <2>3, OrderFacts
    <3> QED
      BY <2>2, <3>1, <3>2 DEF Opening, Reached
  <2>4. CASE ~(at < Len(Order))
    <3>1. Onward(at, target) = Opened
      BY <1>1, <1>3, <2>4 DEF Onward
    <3>2. at = Len(Order)
      BY <1>1, <2>4
    <3>3. \A t \in Schema : Complete(done, t, Latest[t])
      BY <2>2, <3>2, OrderFacts DEF Schema
    <3> QED
      BY <3>1, <3>3 DEF Opening, Opened, Reached
  <2> QED
    BY <2>3, <2>4
<1> QED
  BY <1>1, <1>2, <1>3

\* What is applied stays applied, so what a process relies on stays true.
LEMMA ReachedStays ==
    ASSUME NEW done, NEW later, NEW o \in Opening, Reached(done, o),
           \A s \in Schema : done[s] \subseteq later[s]
    PROVE  Reached(later, o)
<1>1. ASSUME NEW s \in Schema, NEW n, Complete(done, s, n)
      PROVE  Complete(later, s, n)
  BY <1>1 DEF Complete
<1>2. o.step \in {"version", "begin", "snapshot"} =>
        \A i \in 1..(o.at - 1) : i \in DOMAIN Order
  BY OpeningFacts, OrderFacts
<1> QED
  BY <1>1, <1>2, OpeningFacts, OrderFacts DEF Reached

(***************************************************************************)
(* Steps                                                                   *)
(***************************************************************************)
\* Process p goes to an opening it may rely on, and nothing else is undone.
LEMMA Moves ==
    ASSUME OpenInv, NEW p \in Proc, NEW o \in Opening,
           opening' = [opening EXCEPT ![p] = o],
           version' \in [Schema -> Nat], applied' \in [Schema -> SUBSET Nat],
           \A s \in Schema : applied[s] \subseteq applied'[s],
           VersionIsApplied', Reached(applied', o)
    PROVE  OpenInv'
<1>1. FilesTypeOK'
  BY DEF OpenInv, FilesTypeOK
<1>2. ASSUME NEW q \in Proc
      PROVE  Reached(applied', opening'[q])
  <2>1. opening[q] \in Opening /\ Reached(applied, opening[q])
    BY DEF OpenInv, FilesTypeOK
  <2>2. opening'[q] = IF q = p THEN o ELSE opening[q]
    BY DEF OpenInv, FilesTypeOK
  <2> QED
    BY <2>1, <2>2, ReachedStays
<1> QED
  BY <1>1, <1>2 DEF OpenInv

\* A process begins with the first row, and relies on nothing.
LEMMA OpenStep_OpenInv ==
    ASSUME OpenInv, NEW p \in Proc, Open(p)
    PROVE  OpenInv'
<1> DEFINE o == [step |-> "version", at |-> 1]
<1>1. o \in Opening
  BY OrderFacts DEF Opening
<1>2. /\ opening' = [opening EXCEPT ![p] = o]
      /\ version' = version /\ applied' = applied
  BY DEF Open
<1>3. Reached(applied', o)
  BY DEF Reached
<1>4. VersionIsApplied'
  BY <1>2 DEF OpenInv, VersionIsApplied, Complete
<1>5. version \in [Schema -> Nat] /\ applied \in [Schema -> SUBSET Nat]
  BY DEF OpenInv, FilesTypeOK
<1> HIDE DEF o
<1> QED
  BY <1>1, <1>2, <1>3, <1>4, <1>5, Moves

\* A file of a later version is refused; else what its version says is applied.
LEMMA ReadVersion_OpenInv ==
    ASSUME OpenInv, NEW p \in Proc, ReadVersion(p)
    PROVE  OpenInv'
<1> DEFINE at == opening[p].at
           s == Order[at]
           o == IF version[s] > Latest[s] THEN Closed ELSE Onward(at, version[s] + 1)
<1>1. /\ opening' = [opening EXCEPT ![p] = o]
      /\ version' = version /\ applied' = applied
  BY DEF ReadVersion
<1>2. version \in [Schema -> Nat] /\ applied \in [Schema -> SUBSET Nat] /\ opening[p] \in Opening
  BY DEF OpenInv, FilesTypeOK
<1>3. opening[p].step = "version" /\ at \in DOMAIN Order
  BY <1>2, OpeningFacts DEF ReadVersion
<1>4. s \in Schema /\ version[s] \in Nat /\ version[s] + 1 \in Nat /\ (version[s] + 1) - 1 = version[s]
  BY <1>2, <1>3, OrderFacts
<1>5. Complete(applied, s, (version[s] + 1) - 1)
  BY <1>4 DEF OpenInv, VersionIsApplied
<1>6. \A i \in 1..(at - 1) : Complete(applied, Order[i], Latest[Order[i]])
  BY <1>3 DEF OpenInv, Reached
<1>7. o \in Opening /\ Reached(applied, o)
  <2>1. Onward(at, version[s] + 1) \in Opening /\ Reached(applied, Onward(at, version[s] + 1))
    BY <1>3, <1>4, <1>5, <1>6, OnwardReached
  <2>2. Closed \in Opening /\ Reached(applied, Closed)
    BY DEF Opening, Closed, Reached
  <2> QED
    BY <2>1, <2>2
<1>8. VersionIsApplied'
  BY <1>1 DEF OpenInv, VersionIsApplied, Complete
<1> HIDE DEF o
<1>9. Reached(applied', o)
  BY <1>1, <1>2, <1>7, ReachedStays, SMTT(20)
<1> QED
  BY <1>1, <1>2, <1>7, <1>8, <1>9, Moves

\* The commit of a migration whose predecessors are applied.
LEMMA Apply_OpenInv ==
    ASSUME OpenInv, NEW p \in Proc, opening[p].step \in {"begin", "snapshot"},
           Apply(p, Order[opening[p].at], opening[p].target)
    PROVE  OpenInv'
<1> DEFINE at == opening[p].at
           s == Order[at]
           t == opening[p].target
           o == Onward(at, t + 1)
<1>1. version \in [Schema -> Nat] /\ applied \in [Schema -> SUBSET Nat] /\ opening[p] \in Opening
  BY DEF OpenInv, FilesTypeOK
<1>2. at \in DOMAIN Order /\ t \in Nat /\ s \in Schema
  BY <1>1, OpeningFacts, OrderFacts
<1>3. /\ opening' = [opening EXCEPT ![p] = o]
      /\ version' = [version EXCEPT ![s] = t]
      /\ applied' = [applied EXCEPT ![s] = @ \cup {t}]
  BY DEF Apply
<1>4. /\ version' \in [Schema -> Nat] /\ applied' \in [Schema -> SUBSET Nat]
      /\ \A r \in Schema : applied[r] \subseteq applied'[r]
  BY <1>1, <1>2, <1>3
<1>5. Complete(applied, s, t - 1) /\ \A i \in 1..(at - 1) : Complete(applied, Order[i], Latest[Order[i]])
  BY DEF OpenInv, Reached
<1>6. Complete(applied', s, t)
  <2>1. applied'[s] = applied[s] \cup {t}
    BY <1>1, <1>2, <1>3
  <2>2. 1..t \subseteq (1..(t - 1)) \cup {t}
    BY <1>2
  <2> QED
    BY <1>5, <2>1, <2>2 DEF Complete
<1>7. VersionIsApplied'
  <2>1. ASSUME NEW r \in Schema
        PROVE  Complete(applied', r, version'[r])
    <3>1. CASE r = s
      BY <1>1, <1>2, <1>3, <1>6, <3>1
    <3>2. CASE r # s
      <4>1. version'[r] = version[r] /\ Complete(applied, r, version[r])
        BY <1>1, <1>3, <3>2 DEF OpenInv, VersionIsApplied
      <4> QED
        BY <1>4, <4>1 DEF Complete
    <3> QED
      BY <3>1, <3>2
  <2> QED
    BY <2>1 DEF VersionIsApplied
<1>8. o \in Opening /\ Reached(applied', o)
  <2>1. t + 1 \in Nat /\ (t + 1) - 1 = t
    BY <1>2
  <2>2. \A i \in 1..(at - 1) : Complete(applied', Order[i], Latest[Order[i]])
    BY <1>2, <1>4, <1>5, OrderFacts DEF Complete
  <2> QED
    BY <1>2, <1>6, <2>1, <2>2, OnwardReached
<1> HIDE DEF o
<1> QED
  BY <1>3, <1>4, <1>7, <1>8, Moves

\* A process ends, or its open fails.
LEMMA Closes ==
    ASSUME OpenInv, NEW p \in Proc, opening' = [opening EXCEPT ![p] = Closed],
           UNCHANGED <<version, applied>>
    PROVE  OpenInv'
<1>1. Closed \in Opening /\ Reached(applied', Closed)
  BY DEF Closed, Opening, Reached
<1>2. VersionIsApplied'
  BY DEF OpenInv, VersionIsApplied, Complete
<1>3. version \in [Schema -> Nat] /\ applied \in [Schema -> SUBSET Nat]
  BY DEF OpenInv, FilesTypeOK
<1> QED
  BY <1>1, <1>2, <1>3, Moves

\* A migration that begins with a read.
LEMMA Waits ==
    ASSUME OpenInv, NEW p \in Proc, opening[p].step = "begin",
           opening' = [opening EXCEPT ![p].step = "snapshot"],
           UNCHANGED <<version, applied>>
    PROVE  OpenInv'
<1> DEFINE o == [opening[p] EXCEPT !.step = "snapshot"]
<1>1. opening[p] \in Opening /\ Reached(applied, opening[p])
  BY DEF OpenInv, FilesTypeOK
<1>2. opening[p] \in [step : {"begin", "snapshot"}, at : DOMAIN Order, target : Nat]
  BY <1>1 DEF Opening, Closed, Opened
<1>3. /\ o \in [step : {"begin", "snapshot"}, at : DOMAIN Order, target : Nat]
      /\ o.step = "snapshot" /\ o.at = opening[p].at /\ o.target = opening[p].target
  BY <1>2
<1>4. o \in Opening
  BY <1>3 DEF Opening
<1> HIDE DEF o
<1>5. Reached(applied', o)
  BY <1>1, <1>3 DEF Reached, Complete
<1>6. opening' = [opening EXCEPT ![p] = o]
  BY DEF o
<1>7. VersionIsApplied'
  BY DEF OpenInv, VersionIsApplied, Complete
<1>8. version \in [Schema -> Nat] /\ applied \in [Schema -> SUBSET Nat]
  BY DEF OpenInv, FilesTypeOK
<1> QED
  BY <1>4, <1>5, <1>6, <1>7, <1>8, Moves

\* A step of a migration is a commit, the read before one, or a failed write.
LEMMA Migrating_OpenInv ==
    ASSUME OpenInv, NEW p \in Proc, Migrating(p)
    PROVE  OpenInv'
<1>1. CASE Apply(p, Order[opening[p].at], opening[p].target) /\
           opening[p].step \in {"begin", "snapshot"}
  BY <1>1, Apply_OpenInv
<1>2. CASE /\ opening[p].step = "begin"
           /\ opening' = [opening EXCEPT ![p].step = "snapshot"]
           /\ UNCHANGED <<version, applied>>
  BY <1>2, Waits
<1>3. CASE opening' = [opening EXCEPT ![p] = Closed] /\ UNCHANGED <<version, applied>>
  BY <1>3, Closes
<1> QED
  BY <1>1, <1>2, <1>3 DEF Migrating, Begin, Commit

\* Every other step leaves the tables and the openings alone.
LEMMA Elsewhere ==
    ASSUME [Next]_vars
    PROVE  \/ \E p \in Proc : Open(p) \/ ReadVersion(p) \/ Migrating(p)
           \/ \E p \in Proc : Abandon(p)
           \/ UNCHANGED files
<1> USE DEF files, migrationVars
<1>1. CASE UNCHANGED vars
  BY <1>1 DEF vars
<1>2. CASE AppendEvent \/ Tick
  BY <1>2 DEF AppendEvent, Tick
<1>3. ASSUME NEW p \in Proc, OpenStep(p) \/ End(p)
      PROVE  \/ Open(p) \/ ReadVersion(p) \/ Migrating(p)
             \/ Abandon(p)
  BY <1>3 DEF OpenStep, End
<1>4. ASSUME NEW p \in Proc, AppRoute(p)
      PROVE  UNCHANGED files
  <2>1. ASSUME NEW client \in Client, Register(p, client)
        PROVE  UNCHANGED files
    BY <2>1 DEF Register, Enter, PurgeExpired
  <2>2. ASSUME NEW client \in Client, NEW code \in Code,
               Authorize(p, client, code) \/ Exchange(p, client, code)
        PROVE  UNCHANGED files
    BY <2>2 DEF Authorize, Exchange, Enter, PurgeExpired
  <2>3. CASE CountRequest(p) \/ RegisterClient(p) \/ CreateCode(p)
    BY <2>3 DEF CountRequest, RegisterClient, CreateCode
  <2>4. CASE SelectCode(p) \/ ExchangeConflict(p)
    BY <2>4 DEF SelectCode, ExchangeConflict
  <2>5. ASSUME NEW t \in Token, UseCode(p, t) \/ Bearer(p, t) \/ Revoke(p, t)
        PROVE  UNCHANGED files
    BY <2>5 DEF UseCode, Bearer, PurgeExpired, Revoke
  <2>6. CASE ValidateAccessToken(p) \/ CleanupExpired(p)
    BY <2>6 DEF ValidateAccessToken, CleanupExpired, PurgeExpired
  <2> QED
    BY <1>4, <2>1, <2>2, <2>3, <2>4, <2>5, <2>6 DEF AppRoute
<1> QED
  BY <1>1, <1>2, <1>3, <1>4 DEF Next, GatewayRoute

\* The invariant is kept by every step.
LEMMA OpenInv_Step == OpenInv /\ [Next]_vars => OpenInv'
<1> SUFFICES ASSUME OpenInv, [Next]_vars
             PROVE  OpenInv'
  OBVIOUS
<1>1. ASSUME NEW p \in Proc, Open(p) \/ ReadVersion(p) \/ Migrating(p)
      PROVE  OpenInv'
  BY <1>1, OpenStep_OpenInv, ReadVersion_OpenInv, Migrating_OpenInv
<1>2. ASSUME NEW p \in Proc, Abandon(p)
      PROVE  OpenInv'
  BY <1>2, Closes DEF Abandon
<1>3. CASE UNCHANGED files
  BY <1>3 DEF files, OpenInv, FilesTypeOK, VersionIsApplied, Reached, Complete
<1> QED
  BY <1>1, <1>2, <1>3, Elsewhere

\* A file may be of any age: it has what its version says, and perhaps more.
LEMMA OpenInv_Init == Init => OpenInv
<1> SUFFICES ASSUME MigrationInit
             PROVE  OpenInv
  BY DEF Init
<1>1. PICK found \in [Schema -> UNION {Found(s) : s \in Schema}] :
        /\ \A s \in Schema : found[s] \in Found(s)
        /\ version = [s \in Schema |-> found[s][1]]
        /\ applied = [s \in Schema |-> found[s][2]]
  BY DEF MigrationInit
<1>2. ASSUME NEW s \in Schema
      PROVE  version[s] \in Nat /\ applied[s] \subseteq Nat /\ Complete(applied, s, version[s])
  <2>1. Latest[s] \in Nat /\ version[s] = found[s][1] /\ applied[s] = found[s][2]
    BY <1>1, OrderFacts
  <2>2. CASE found[s] = <<0, {}>> \/ found[s] = <<0, {1}>>
    BY <2>1, <2>2 DEF Complete
  <2>3. ASSUME NEW v \in 1..Latest[s] + 1, found[s] = <<v, 1..v>>
        PROVE  version[s] \in Nat /\ applied[s] \subseteq Nat /\ Complete(applied, s, version[s])
    BY <2>1, <2>3 DEF Complete
  <2> QED
    BY <1>1, <2>2, <2>3 DEF Found
<1>3. opening = [p \in Proc |-> Closed] /\ Closed \in Opening /\ Reached(applied, Closed)
  BY DEF MigrationInit, Closed, Opening, Reached
<1>4. FilesTypeOK
  BY <1>1, <1>2, <1>3 DEF FilesTypeOK
<1>5. VersionIsApplied
  BY <1>2 DEF VersionIsApplied
<1> QED
  BY <1>3, <1>4, <1>5 DEF OpenInv

(***************************************************************************)
(* Whoever has opened the database finds every table, column and index of  *)
(* this binary, however many processes migrated it at once, in whatever    *)
(* order, and wherever they ended.  Code: migrate of store.rs and of       *)
(* oauth.rs, which read the version outside their transactions.            *)
(***************************************************************************)
THEOREM OpensComplete == Spec => []OpenedIsComplete
<1>1. OpenInv => OpenedIsComplete
  BY DEF OpenInv, Reached, Complete, OpenedIsComplete, IsOpen
<1> QED
  BY <1>1, OpenInv_Init, OpenInv_Step, PTL DEF Spec

(***************************************************************************)
(* Codes                                                                   *)
(***************************************************************************)
CodeAt(row) == [code |-> row.code, client |-> row.client,
                expires |-> row.expires, used |-> row.used]

\* As much of the types as the proof needs.
Coded(r) ==
    r.op \in {"select", "use"} => r = [op |-> r.op, client |-> r.client, code |-> r.code]

Shaped(r) ==
    /\ Coded(r)
    /\ r.op = "count" => r.next.op \in {"register", "authorize", "select"} /\ Coded(r.next)

Shapes ==
    /\ request = [p \in Proc |-> request[p]]
    /\ \A p \in Proc : Shaped(request[p])
    /\ \A row \in codes : row = CodeAt(row) /\ row.used \in BOOLEAN

WorkersAreOpen == \A p \in Proc : request[p].op # "idle" => IsOpen(p)

UnusedNotIssued ==
    \A row \in codes : ~row.used => \A t \in DOMAIN issued : issued[t].code # row.code

\* Nothing was committed since a process with a current snapshot read the code.
SeenUnused ==
    \A p \in Proc : p \in fresh /\ request[p].op = "use" =>
        \E row \in codes : row.code = request[p].code /\ ~row.used

\* A code that is about to be stored is nowhere yet.
NewCodesAreNew ==
    \A p \in Proc : Purposed(p).op = "authorize" =>
        /\ \A row \in codes : row.code # Purposed(p).code
        /\ \A t \in DOMAIN issued : issued[t].code # Purposed(p).code
        /\ \A q \in Proc \ {p} : Purposed(q).op = "authorize" =>
             Purposed(q).code # Purposed(p).code

CodeInv ==
    /\ Shapes
    /\ WorkersAreOpen
    /\ UnusedNotIssued
    /\ SeenUnused
    /\ NewCodesAreNew
    /\ CodeRedeemedOnce

\* Steps that store no code and no token, and let a process go on to requests
\* that are not about codes.
LEMMA CodesKept ==
    ASSUME CodeInv, codes' \subseteq codes, codes' = codes \/ fresh' = {}, issued' = issued,
           request' = [p \in Proc |-> request'[p]],
           \A p \in Proc :
               \/ /\ request'[p] = request[p]
                  /\ IsOpen(p) => IsOpen(p)'
                  /\ p \in fresh' => p \in fresh \/ request[p].op = "idle"
               \/ request'[p].op = "idle"
               \/ request'[p].op = "check" /\ IsOpen(p)'
               \/ /\ request'[p].op = "count" /\ Shaped(request'[p]) /\ IsOpen(p)'
                  /\ request'[p].next.op # "authorize"
    PROVE  CodeInv'
<1>1. Shapes'
  BY DEF CodeInv, Shapes, Shaped, Coded, CodeAt
<1>2. WorkersAreOpen'
  BY DEF CodeInv, WorkersAreOpen
<1>3. UnusedNotIssued'
  BY DEF CodeInv, UnusedNotIssued
<1>4. SeenUnused'
  BY DEF CodeInv, SeenUnused
<1>5. NewCodesAreNew'
  <2>1. ASSUME NEW p \in Proc, Purposed(p)'.op = "authorize"
        PROVE  Purposed(p)' = Purposed(p)
    BY <2>1 DEF Purposed
  <2> QED
    BY <2>1 DEF CodeInv, NewCodesAreNew
<1>6. CodeRedeemedOnce'
  BY DEF CodeInv, CodeRedeemedOnce
<1> QED
  BY <1>1, <1>2, <1>3, <1>4, <1>5, <1>6 DEF CodeInv

\* What a purge does to the codes.
LEMMA Purges ==
    ASSUME NEW p \in Proc, PurgeExpired(p)
    PROVE  /\ codes' \subseteq codes
           /\ fresh' = {} \/ (fresh' = fresh /\ codes' = codes)
           /\ opening' = opening
  BY DEF PurgeExpired, Outdate

\* Opening the file.
LEMMA Opening_CodeInv ==
    ASSUME CodeInv, OpenInv, NEW p \in Proc, OpenStep(p) \/ End(p)
    PROVE  CodeInv'
<1>1. /\ codes' = codes /\ issued' = issued
      /\ request' = request \/ request' = [request EXCEPT ![p] = Idle]
  BY DEF OpenStep, End, accessVars
<1>2. \A q \in Proc \ {p} : opening'[q] = opening[q]
  <2>1. \E o : opening' = [opening EXCEPT ![p] = o]
    BY DEF OpenStep, End, Open, ReadVersion, Migrating, Begin, Commit, Apply, Abandon
  <2> QED
    BY <2>1 DEF OpenInv, FilesTypeOK
<1>3. fresh' \subseteq fresh \cup {p}
  BY DEF OpenStep, End, Open, ReadVersion, Migrating, Begin, Commit, Apply, Abandon, Outdate
<1>4. request = [q \in Proc |-> request[q]]
  BY DEF CodeInv, Shapes
<1>5. request'[p].op = "idle"
  <2>1. CASE OpenStep(p)
    <3>1. ~IsOpen(p) /\ request' = request
      BY <2>1 DEF OpenStep, Open, ReadVersion, Migrating, Begin, Commit, IsOpen, accessVars
    <3> QED
      BY <3>1 DEF CodeInv, WorkersAreOpen
  <2>2. CASE End(p)
    BY <1>4, <2>2 DEF End, Idle
  <2> QED
    BY <2>1, <2>2
<1>6. request' = [q \in Proc |-> request'[q]] /\ \A q \in Proc \ {p} : request'[q] = request[q]
  BY <1>1, <1>4
<1> QED
  BY <1>1, <1>2, <1>3, <1>5, <1>6, CodesKept DEF IsOpen

\* Steps of a process that has the file open, and store no code or token.
LEMMA Routine_CodeInv ==
    ASSUME CodeInv, NEW p \in Proc, IsOpen(p), codes' \subseteq codes,
           fresh' = {} \/ (fresh' = fresh /\ codes' = codes),
           opening' = opening, issued' = issued,
           request' = [q \in Proc |-> IF q = p THEN request'[p] ELSE request[q]],
           \/ request'[p].op \in {"idle", "check"}
           \/ /\ request'[p].op = "count" /\ Shaped(request'[p])
              /\ request'[p].next.op # "authorize"
    PROVE  CodeInv'
<1>1. /\ request' = [q \in Proc |-> request'[q]]
      /\ \A q \in Proc \ {p} : request'[q] = request[q]
  OBVIOUS
<1> QED
  BY <1>1, CodesKept DEF IsOpen

\* Requests that are not about codes, and the end of every request that fails.
LEMMA Others_CodeInv ==
    ASSUME CodeInv, NEW p \in Proc,
           \/ \E client \in Client : Register(p, client)
           \/ \E client \in Client, code \in Code : Exchange(p, client, code)
           \/ RegisterClient(p) \/ ExchangeConflict(p)
           \/ \E t \in Token : Bearer(p, t)
           \/ ValidateAccessToken(p)
    PROVE  CodeInv'
<1>0. request = [q \in Proc |-> request[q]]
  BY DEF CodeInv, Shapes
<1>1. ASSUME NEW client \in Client, Register(p, client)
      PROVE  CodeInv'
  <2>1. /\ IsOpen(p) /\ codes' \subseteq codes /\ opening' = opening /\ issued' = issued
        /\ fresh' = {} \/ (fresh' = fresh /\ codes' = codes)
    BY <1>1, Purges DEF Register, Enter, Working
  <2>2. /\ request' = [q \in Proc |-> IF q = p THEN request'[p] ELSE request[q]]
        /\ request'[p].op = "count" /\ Shaped(request'[p])
        /\ request'[p].next.op = "register"
    BY <1>1, <1>0 DEF Register, Enter, Shaped, Coded
  <2> QED
    BY <2>1, <2>2, Routine_CodeInv
<1>2. ASSUME NEW client \in Client, NEW code \in Code, Exchange(p, client, code)
      PROVE  CodeInv'
  <2>1. /\ IsOpen(p) /\ codes' \subseteq codes /\ opening' = opening /\ issued' = issued
        /\ fresh' = {} \/ (fresh' = fresh /\ codes' = codes)
    BY <1>2, Purges DEF Exchange, Enter, Working
  <2>2. /\ request' = [q \in Proc |-> IF q = p THEN request'[p] ELSE request[q]]
        /\ request'[p].op = "count" /\ Shaped(request'[p])
        /\ request'[p].next.op = "select"
    BY <1>2, <1>0 DEF Exchange, Enter, Shaped, Coded
  <2> QED
    BY <2>1, <2>2, Routine_CodeInv
<1>3. CASE RegisterClient(p)
  <2>1. /\ IsOpen(p) /\ codes' = codes /\ opening' = opening /\ issued' = issued
        /\ fresh' = {} \/ fresh' = fresh
    BY <1>3 DEF RegisterClient, Outdate, Working
  <2>2. /\ request' = [q \in Proc |-> IF q = p THEN request'[p] ELSE request[q]]
        /\ request'[p].op = "idle"
    BY <1>3, <1>0 DEF RegisterClient, Outdate, Idle
  <2> QED
    BY <2>1, <2>2, Routine_CodeInv
<1>4. CASE ExchangeConflict(p)
  <2>1. /\ IsOpen(p) /\ codes' = codes /\ opening' = opening /\ issued' = issued
        /\ fresh' = {} \/ fresh' = fresh
    BY <1>4 DEF ExchangeConflict, migrationVars, Working
  <2>2. /\ request' = [q \in Proc |-> IF q = p THEN request'[p] ELSE request[q]]
        /\ request'[p].op = "idle"
    BY <1>4, <1>0 DEF ExchangeConflict, migrationVars, Idle
  <2> QED
    BY <2>1, <2>2, Routine_CodeInv
<1>5. ASSUME NEW t \in Token, Bearer(p, t)
      PROVE  CodeInv'
  <2>1. /\ IsOpen(p) /\ codes' \subseteq codes /\ opening' = opening /\ issued' = issued
        /\ fresh' = {} \/ (fresh' = fresh /\ codes' = codes)
    BY <1>5, Purges DEF Bearer, Working
  <2>2. /\ request' = [q \in Proc |-> IF q = p THEN request'[p] ELSE request[q]]
        /\ request'[p].op = "check"
    BY <1>5, <1>0 DEF Bearer, Idle
  <2> QED
    BY <2>1, <2>2, Routine_CodeInv
<1>6. CASE ValidateAccessToken(p)
  <2>1. /\ IsOpen(p) /\ codes' = codes /\ opening' = opening /\ issued' = issued
        /\ fresh' = {} \/ fresh' = fresh
    BY <1>6 DEF ValidateAccessToken, migrationVars, Working
  <2>2. /\ request' = [q \in Proc |-> IF q = p THEN request'[p] ELSE request[q]]
        /\ request'[p].op = "idle"
    BY <1>6, <1>0 DEF ValidateAccessToken, migrationVars, Idle
  <2> QED
    BY <2>1, <2>2, Routine_CodeInv
<1> QED
  BY <1>1, <1>2, <1>3, <1>4, <1>5, <1>6

\* Steps that change no request.
LEMMA Aside_CodeInv ==
    ASSUME CodeInv, codes' \subseteq codes, issued' = issued, request' = request,
           opening' = opening, fresh' = {} \/ (fresh' = fresh /\ codes' = codes)
    PROVE  CodeInv'
<1>1. request' = [p \in Proc |-> request'[p]]
  BY DEF CodeInv, Shapes
<1> QED
  BY <1>1, CodesKept DEF IsOpen

\* A new code is asked for.
LEMMA Authorize_CodeInv ==
    ASSUME CodeInv, NEW p \in Proc, NEW client \in Client, NEW code \in Code,
           Authorize(p, client, code)
    PROVE  CodeInv'
<1> DEFINE r == request'[p]
<1>1. /\ codes' \subseteq codes /\ issued' = issued /\ opening' = opening /\ IsOpen(p)
      /\ fresh' = {} \/ (fresh' = fresh /\ codes' = codes)
  BY Purges DEF Authorize, Enter, Working
<1>2. /\ request' = [q \in Proc |-> request'[q]]
      /\ \A q \in Proc \ {p} : request'[q] = request[q]
      /\ r.op = "count" /\ r.next.op = "authorize" /\ r.next.code = code
  BY DEF Authorize, Enter, CodeInv, Shapes
<1>3. /\ \A row \in codes : row.code # code
      /\ \A t \in DOMAIN issued : issued[t].code # code
      /\ \A q \in Proc : Purposed(q).op = "authorize" => Purposed(q).code # code
  BY DEF Authorize, NewCode
<1> HIDE DEF r
<1>4. Shapes'
  BY <1>1, <1>2 DEF CodeInv, Shapes, Shaped, Coded, CodeAt, r
<1>5. WorkersAreOpen'
  BY <1>1, <1>2 DEF CodeInv, WorkersAreOpen, IsOpen, r
<1>6. UnusedNotIssued'
  BY <1>1 DEF CodeInv, UnusedNotIssued
<1>7. SeenUnused'
  BY <1>1, <1>2 DEF CodeInv, SeenUnused, r
<1>8. NewCodesAreNew'
  <2>1. /\ Purposed(p)'.code = code
        /\ \A q \in Proc \ {p} : Purposed(q)' = Purposed(q)
    BY <1>2 DEF Purposed, r
  <2> QED
    BY <1>1, <1>3, <2>1 DEF CodeInv, NewCodesAreNew
<1>9. CodeRedeemedOnce'
  BY <1>1 DEF CodeInv, CodeRedeemedOnce
<1> QED
  BY <1>4, <1>5, <1>6, <1>7, <1>8, <1>9 DEF CodeInv

\* A request is counted, and goes on to what it was made for.
LEMMA CountRequest_CodeInv ==
    ASSUME CodeInv, NEW p \in Proc, CountRequest(p)
    PROVE  CodeInv'
<1>1. /\ codes' = codes /\ issued' = issued /\ opening' = opening /\ fresh' = {} /\ IsOpen(p)
      /\ request[p].op = "count"
  BY DEF CountRequest, Outdate, Working
<1>2. /\ request' = [q \in Proc |-> request'[q]]
      /\ \A q \in Proc \ {p} : request'[q] = request[q]
      /\ request'[p] = request[p].next
  BY DEF CountRequest, CodeInv, Shapes
<1>3. request[p].next.op \in {"register", "authorize", "select"} /\ Coded(request[p].next)
  BY <1>1 DEF CodeInv, Shapes, Shaped
<1>4. Shapes'
  <2>1. Shaped(request'[p])
    BY <1>2, <1>3 DEF Shaped
  <2> QED
    BY <1>1, <1>2, <2>1 DEF CodeInv, Shapes
<1>5. WorkersAreOpen'
  BY <1>1, <1>2 DEF CodeInv, WorkersAreOpen, IsOpen
<1>6. UnusedNotIssued'
  BY <1>1 DEF CodeInv, UnusedNotIssued
<1>7. SeenUnused'
  BY <1>1 DEF SeenUnused
<1>8. NewCodesAreNew'
  <2>1. \A q \in Proc : Purposed(q)' = Purposed(q)
    BY <1>1, <1>2, <1>3 DEF Purposed
  <2> QED
    BY <1>1, <2>1 DEF CodeInv, NewCodesAreNew
<1>9. CodeRedeemedOnce'
  BY <1>1 DEF CodeInv, CodeRedeemedOnce
<1> QED
  BY <1>4, <1>5, <1>6, <1>7, <1>8, <1>9 DEF CodeInv

\* The new code is stored.
LEMMA CreateCode_CodeInv ==
    ASSUME CodeInv, NEW p \in Proc, CreateCode(p)
    PROVE  CodeInv'
<1> DEFINE new == [code |-> request[p].code, client |-> request[p].client,
                   expires |-> request[p].expires, used |-> FALSE]
<1>1. /\ codes' = codes \cup {new} /\ issued' = issued /\ opening' = opening /\ fresh' = {}
      /\ request[p].op = "authorize"
  BY DEF CreateCode, Outdate, Working
<1>2. /\ request' = [q \in Proc |-> request'[q]]
      /\ \A q \in Proc \ {p} : request'[q] = request[q]
      /\ request'[p].op = "idle"
  BY DEF CreateCode, CodeInv, Shapes, Idle
<1>3. new.code = request[p].code /\ new = CodeAt(new) /\ new.used = FALSE
  BY DEF CodeAt
<1> HIDE DEF new
<1>4. /\ Purposed(p) = request[p] /\ Purposed(p)'.op # "authorize"
      /\ \A q \in Proc \ {p} : Purposed(q)' = Purposed(q)
  BY <1>1, <1>2 DEF Purposed
<1>5. Shapes'
  BY <1>1, <1>2, <1>3 DEF CodeInv, Shapes, Shaped, Coded
<1>6. WorkersAreOpen'
  BY <1>1, <1>2 DEF CodeInv, WorkersAreOpen, IsOpen
<1>7. UnusedNotIssued'
  BY <1>1, <1>3, <1>4 DEF CodeInv, UnusedNotIssued, NewCodesAreNew
<1>8. SeenUnused'
  BY <1>1 DEF SeenUnused
<1>9. NewCodesAreNew'
  BY <1>1, <1>3, <1>4 DEF CodeInv, NewCodesAreNew
<1>10. CodeRedeemedOnce'
  BY <1>1 DEF CodeInv, CodeRedeemedOnce
<1> QED
  BY <1>5, <1>6, <1>7, <1>8, <1>9, <1>10 DEF CodeInv

\* The code of an exchange is read.
LEMMA Select_CodeInv ==
    ASSUME CodeInv, NEW p \in Proc, SelectCode(p)
    PROVE  CodeInv'
<1>1. codes' = codes /\ issued' = issued /\ opening' = opening /\ IsOpen(p)
  BY DEF SelectCode, Working
<1>2. /\ request' = [q \in Proc |-> request'[q]]
      /\ \A q \in Proc \ {p} : request'[q] = request[q]
  BY DEF SelectCode, CodeInv, Shapes
<1>3. LET r == request[p] IN request[p] = [op |-> "select", client |-> r.client, code |-> r.code]
  BY DEF SelectCode, Working, CodeInv, Shapes, Shaped, Coded
<1>4. /\ request'[p].op \in {"use", "idle"} /\ Coded(request'[p])
      /\ fresh' \subseteq fresh \cup {p}
      /\ request'[p].op = "use" =>
           \E row \in codes : row.code = request'[p].code /\ ~row.used
  <2>1. request = [q \in Proc |-> request[q]]
    BY DEF CodeInv, Shapes
  <2>2. CASE request' = [request EXCEPT ![p] = Idle] /\ UNCHANGED fresh
    <3>1. request'[p] = Idle
      BY <2>1, <2>2
    <3> QED
      BY <2>2, <3>1 DEF Coded, Idle
  <2>3. CASE /\ \E row \in codes : row.code = request[p].code /\ ~row.used
             /\ request' = [request EXCEPT ![p].op = "use"]
             /\ fresh' = fresh \cup {p}
    <3>1. request'[p] = [op |-> "use", client |-> request[p].client, code |-> request[p].code]
      BY <1>3, <2>1, <2>3
    <3> QED
      BY <2>3, <3>1 DEF Coded
  <2> QED
    BY <2>2, <2>3 DEF SelectCode
<1>5. Shapes'
  <2>1. Shaped(request'[p])
    BY <1>4 DEF Shaped
  <2> QED
    BY <1>1, <1>2, <2>1 DEF CodeInv, Shapes
<1>6. WorkersAreOpen'
  BY <1>1, <1>2 DEF CodeInv, WorkersAreOpen, IsOpen
<1>7. UnusedNotIssued'
  BY <1>1 DEF CodeInv, UnusedNotIssued
<1>8. SeenUnused'
  BY <1>1, <1>2, <1>4 DEF CodeInv, SeenUnused
<1>9. NewCodesAreNew'
  <2>1. /\ Purposed(p)'.op # "authorize"
        /\ \A q \in Proc \ {p} : Purposed(q)' = Purposed(q)
    BY <1>2, <1>4 DEF Purposed
  <2> QED
    BY <1>1, <2>1 DEF CodeInv, NewCodesAreNew
<1>10. CodeRedeemedOnce'
  BY <1>1 DEF CodeInv, CodeRedeemedOnce
<1> QED
  BY <1>5, <1>6, <1>7, <1>8, <1>9, <1>10 DEF CodeInv

\* The code is used: it was unused, and its rows are marked.
LEMMA UseCode_CodeInv ==
    ASSUME CodeInv, NEW p \in Proc, NEW t \in Token, UseCode(p, t)
    PROVE  CodeInv'
<1> DEFINE c == request[p].code
           mark(row) == IF row.code = c THEN [row EXCEPT !.used = TRUE] ELSE row
<1>1. /\ codes' = {mark(row) : row \in codes} /\ opening' = opening /\ fresh' = {}
      /\ t \notin DOMAIN issued /\ DOMAIN issued' = DOMAIN issued \cup {t}
      /\ issued'[t].code = c /\ \A u \in DOMAIN issued : issued'[u] = issued[u]
  BY DEF UseCode, CreateToken, Outdate
<1>2. /\ request' = [q \in Proc |-> request'[q]]
      /\ \A q \in Proc \ {p} : request'[q] = request[q]
      /\ request'[p].op = "idle"
  BY DEF UseCode, CodeInv, Shapes, Idle
<1>3. \E row \in codes : row.code = c /\ ~row.used
  BY DEF UseCode, Working, CodeInv, SeenUnused
<1>4. \A u \in DOMAIN issued : issued[u].code # c
  BY <1>3 DEF CodeInv, UnusedNotIssued
<1>5. ASSUME NEW row \in codes
      PROVE  /\ mark(row).code = row.code /\ mark(row) = CodeAt(mark(row))
             /\ mark(row).used \in BOOLEAN
             /\ ~mark(row).used => row.code # c /\ ~row.used
  <2>1. row = CodeAt(row) /\ row.used \in BOOLEAN
    BY DEF CodeInv, Shapes
  <2> QED
    BY <2>1 DEF CodeAt
<1> HIDE DEF c, mark
<1>6. Shapes'
  BY <1>1, <1>2, <1>5 DEF CodeInv, Shapes, Shaped, Coded
<1>7. WorkersAreOpen'
  BY <1>1, <1>2 DEF CodeInv, WorkersAreOpen, IsOpen
<1>8. UnusedNotIssued'
  BY <1>1, <1>5 DEF CodeInv, UnusedNotIssued
<1>9. SeenUnused'
  BY <1>1 DEF SeenUnused
<1>10. NewCodesAreNew'
  <2>1. /\ Purposed(p)'.op # "authorize"
        /\ \A q \in Proc \ {p} : Purposed(q)' = Purposed(q)
    BY <1>2 DEF Purposed
  <2> QED
    BY <1>1, <1>3, <1>5, <2>1 DEF CodeInv, NewCodesAreNew
<1>11. CodeRedeemedOnce'
  BY <1>1, <1>4 DEF CodeInv, CodeRedeemedOnce
<1> QED
  BY <1>6, <1>7, <1>8, <1>9, <1>10, <1>11 DEF CodeInv

\* The invariant is kept by every step.
LEMMA CodeInv_Step == OpenInv /\ CodeInv /\ [Next]_vars => CodeInv'
<1> SUFFICES ASSUME OpenInv, CodeInv, [Next]_vars
             PROVE  CodeInv'
  OBVIOUS
<1>1. CASE UNCHANGED vars
  BY <1>1, Aside_CodeInv DEF vars, migrationVars, accessVars
<1>2. CASE AppendEvent \/ Tick
  BY <1>2, Aside_CodeInv DEF AppendEvent, Tick, Outdate, accessVars, migrationVars
<1>3. ASSUME NEW p \in Proc, OpenStep(p) \/ End(p)
      PROVE  CodeInv'
  BY <1>3, Opening_CodeInv
<1>4. ASSUME NEW p \in Proc, AppRoute(p)
      PROVE  CodeInv'
  <2>1. ASSUME NEW client \in Client, NEW code \in Code, Authorize(p, client, code)
        PROVE  CodeInv'
    BY <2>1, Authorize_CodeInv
  <2>2. CASE CountRequest(p) \/ CreateCode(p) \/ SelectCode(p)
    BY <2>2, CountRequest_CodeInv, CreateCode_CodeInv, Select_CodeInv
  <2>3. ASSUME NEW t \in Token, UseCode(p, t)
        PROVE  CodeInv'
    BY <2>3, UseCode_CodeInv
  <2>4. ASSUME NEW t \in Token, Revoke(p, t)
        PROVE  CodeInv'
    BY <2>4, Aside_CodeInv DEF Revoke, Outdate
  <2>5. CASE CleanupExpired(p)
    BY <2>5, Purges, Aside_CodeInv DEF CleanupExpired
  <2> QED
    BY <1>4, <2>1, <2>2, <2>3, <2>4, <2>5, Others_CodeInv DEF AppRoute
<1> QED
  BY <1>1, <1>2, <1>3, <1>4 DEF Next, GatewayRoute

\* At first there is neither a code nor a token that came of one.
LEMMA CodeInv_Init == Init => CodeInv
<1> SUFFICES ASSUME Init
             PROVE  CodeInv
  OBVIOUS
<1>1. codes = {} /\ request = [p \in Proc |-> Idle] /\ fresh = {}
  BY DEF Init, MigrationInit
<1>2. \A t \in DOMAIN issued : issued[t].code = "none"
  BY DEF Init
<1> QED
  BY <1>1, <1>2 DEF CodeInv, Shapes, Shaped, Coded, WorkersAreOpen, UnusedNotIssued, SeenUnused,
                    NewCodesAreNew, Purposed, CodeRedeemedOnce, Idle

(***************************************************************************)
(* An approval is worth one token: of two servers that exchange one code,  *)
(* only one finds its snapshot current when it writes, and whoever reads   *)
(* later finds the code used or purged.  Code: exchange_code of oauth.rs,  *)
(* a deferred transaction that reads the code before it marks it.          *)
(***************************************************************************)
THEOREM CodesRedeemedOnce == Spec => []CodeRedeemedOnce
<1>1. OpenInv /\ CodeInv => CodeRedeemedOnce
  BY DEF CodeInv
<1> QED
  BY <1>1, OpenInv_Init, OpenInv_Step, CodeInv_Init, CodeInv_Step, PTL DEF Spec

(***************************************************************************)
(* Types.  A rate limit that a request read leaves room for the request:   *)
(* without that its count would not be typed once it is written.           *)
(***************************************************************************)
TablesTyped ==
    /\ codes \subseteq CodeRow
    /\ tokens \subseteq TokenRow
    /\ DOMAIN limits \subseteq Key /\ \A k \in DOMAIN limits : limits[k] \in Rate
    /\ clients \subseteq Client

HistoryTyped ==
    /\ DOMAIN issued \subseteq Token
    /\ \A t \in DOMAIN issued : issued[t] \in [expires : Time, code : Code \cup {"none"}]
    /\ revoked \subseteq Token

ServersTyped ==
    /\ request \in [Proc -> Request]
    /\ answer \in [Proc -> {"none", "accepted", "refused"}]

Counts ==
    /\ fresh \subseteq Proc
    /\ now \in 0..MaxTime
    /\ fails \in 0..MaxFails

RatesAdmitted ==
    \A p \in Proc : request[p].op = "count" => Admitted(request[p].rate)

TypeInv == TablesTyped /\ HistoryTyped /\ ServersTyped /\ Counts /\ RatesAdmitted

\* The fields of a request of each kind.
LEMMA RequestFacts ==
    ASSUME NEW r \in Request
    PROVE  /\ r.op \in {"idle", "count", "register", "authorize", "select", "use", "check"}
           /\ r.op = "count" => r.key \in Key /\ r.rate \in Rate /\ r.next \in Purpose
           /\ r.op = "register" => r.client \in Client
           /\ r.op = "authorize" => r.client \in Client /\ r.code \in Code /\ r.expires \in Time
           /\ r.op \in {"select", "use"} =>
                r = [op |-> r.op, client |-> r.client, code |-> r.code] /\
                r.client \in Client /\ r.code \in Code
           /\ r.op = "check" => r.token \in Token
<1>1. CASE r = Idle
  BY <1>1 DEF Idle
<1>2. CASE r \in [op : {"count"}, key : Key, rate : Rate, next : Purpose]
  BY <1>2
<1>3. CASE r \in Purpose
  BY <1>3 DEF Purpose
<1>4. CASE r \in [op : {"use"}, client : Client, code : Code]
  BY <1>4
<1>5. CASE r \in [op : {"check"}, token : Token]
  BY <1>5
<1> QED
  BY <1>1, <1>2, <1>3, <1>4, <1>5 DEF Request

\* What a request is made for is no count.
LEMMA PurposeFacts ==
    ASSUME NEW r \in Purpose
    PROVE  r \in Request /\ r.op \in {"register", "authorize", "select"}
  BY DEF Purpose, Request

\* The clock, and how long what is stored now lasts.
LEMMA TimeFacts ==
    ASSUME Counts
    PROVE  /\ now \in Nat /\ now \in Time
           /\ now + CodeLife \in Time /\ now + TokenLife \in Time
           /\ {MaxRequests, Window, CodeLife, TokenLife, MaxTime, MaxFails} \subseteq Nat
           /\ MaxRequests > 0
  BY AccessAssumption DEF Counts, Time

\* A rate limit is typed, also one that has just begun.
LEMMA RateTyped ==
    ASSUME TypeInv, NEW k \in Key
    PROVE  RateOf(k) \in Rate
<1>1. k \in DOMAIN limits => limits[k] \in Rate
  BY DEF TypeInv, TablesTyped
<1>2. [started |-> now, count |-> 0] \in Rate
  BY TimeFacts DEF TypeInv, Rate
<1> QED
  BY <1>1, <1>2 DEF RateOf

\* What a purge leaves of the tables.
LEMMA PurgeTables ==
    ASSUME NEW p, PurgeExpired(p)
    PROVE  /\ codes' \subseteq codes /\ tokens' \subseteq tokens
           /\ fresh' \subseteq fresh /\ UNCHANGED <<version, applied, opening>>
  BY DEF PurgeExpired, Outdate

\* Steps that store nothing, and give at most one server another request.
LEMMA TypesKept ==
    ASSUME TypeInv, NEW p \in Proc, NEW r \in Request,
           codes' \subseteq codes, tokens' \subseteq tokens, fresh' \subseteq fresh \cup {p},
           request' = [request EXCEPT ![p] = r], r.op = "count" => Admitted(r.rate),
           answer' \in [Proc -> {"none", "accepted", "refused"}],
           UNCHANGED <<now, clients, limits, issued, revoked, fails>>
    PROVE  TypeInv'
<1>1. TablesTyped' /\ HistoryTyped' /\ Counts'
  BY DEF TypeInv, TablesTyped, HistoryTyped, Counts
<1>2. ServersTyped'
  BY DEF TypeInv, ServersTyped
<1>3. RatesAdmitted'
  BY DEF TypeInv, ServersTyped, RatesAdmitted, Admitted
<1> QED
  BY <1>1, <1>2, <1>3 DEF TypeInv

\* A request is accepted if its rate limit leaves room.
LEMMA Enter_TypeInv ==
    ASSUME TypeInv, NEW p \in Proc, NEW key \in Key, NEW purpose \in Purpose,
           Enter(p, key, purpose)
    PROVE  TypeInv'
<1> DEFINE r == [op |-> "count", key |-> key, rate |-> RateOf(key), next |-> purpose]
<1>1. /\ codes' \subseteq codes /\ tokens' \subseteq tokens /\ fresh' \subseteq fresh
      /\ request' = [request EXCEPT ![p] = r] /\ Admitted(RateOf(key))
      /\ UNCHANGED <<now, clients, limits, answer, issued, revoked, fails>>
  BY PurgeTables DEF Enter
<1>2. r \in Request /\ r.rate = RateOf(key)
  BY RateTyped DEF Request
<1>3. answer' \in [Proc -> {"none", "accepted", "refused"}]
  BY <1>1 DEF TypeInv, ServersTyped
<1> HIDE DEF r
<1> QED
  BY <1>1, <1>2, <1>3, TypesKept

\* A limit that is written counts at most as many requests as are allowed.
LEMMA CountRequest_TypeInv ==
    ASSUME TypeInv, NEW p \in Proc, CountRequest(p)
    PROVE  TypeInv'
<1> DEFINE r == request[p]
           row == [started |-> r.rate.started, count |-> r.rate.count + 1]
<1>1. r \in Request /\ r.op = "count"
  BY DEF TypeInv, ServersTyped, CountRequest, Working
<1>2. r.key \in Key /\ r.rate \in Rate /\ r.rate.count < MaxRequests /\ r.next \in Purpose
  BY <1>1, RequestFacts DEF TypeInv, RatesAdmitted, Admitted
<1>3. row \in Rate
  BY <1>2, AccessAssumption DEF Rate
<1>4. /\ limits' = [k \in DOMAIN limits \cup {r.key} |-> IF k = r.key THEN row ELSE limits[k]]
      /\ request' = [request EXCEPT ![p] = r.next] /\ fresh' = {}
      /\ UNCHANGED <<now, clients, codes, tokens, answer, issued, revoked, fails>>
  BY DEF CountRequest, Outdate
<1> HIDE DEF row
<1>5. TablesTyped'
  BY <1>2, <1>3, <1>4 DEF TypeInv, TablesTyped
<1>6. r.next \in Request /\ r.next.op # "count"
  BY <1>2, PurposeFacts
<1> HIDE DEF r
<1>7. ServersTyped' /\ RatesAdmitted'
  BY <1>4, <1>6 DEF TypeInv, ServersTyped, RatesAdmitted, Admitted
<1>8. HistoryTyped' /\ Counts'
  BY <1>4 DEF TypeInv, HistoryTyped, Counts
<1> QED
  BY <1>5, <1>7, <1>8 DEF TypeInv

\* A registration, and a new code.
LEMMA Created_TypeInv ==
    ASSUME TypeInv, NEW p \in Proc, RegisterClient(p) \/ CreateCode(p)
    PROVE  TypeInv'
<1> DEFINE r == request[p]
           row == [code |-> r.code, client |-> r.client, expires |-> r.expires, used |-> FALSE]
<1>1. r \in Request /\ r.op \in {"register", "authorize"}
  BY DEF TypeInv, ServersTyped, RegisterClient, CreateCode, Working
<1>2. r.client \in Client /\ (r.op = "authorize" => row \in CodeRow)
  BY <1>1, RequestFacts DEF CodeRow
<1>3. /\ UNCHANGED <<now, limits, answer, issued, revoked, fails, tokens>> /\ fresh' = {}
      /\ clients' = clients \cup {r.client} \/ clients' = clients
      /\ codes' = codes \/ (r.op = "authorize" /\ codes' = codes \cup {row})
      /\ request' = [request EXCEPT ![p] = Idle]
  BY DEF RegisterClient, CreateCode, Working, Outdate
<1> HIDE DEF row, r
<1>4. TablesTyped'
  BY <1>2, <1>3 DEF TypeInv, TablesTyped
<1>5. ServersTyped' /\ RatesAdmitted'
  BY <1>3 DEF TypeInv, ServersTyped, RatesAdmitted, Admitted, Request, Idle
<1>6. HistoryTyped' /\ Counts'
  BY <1>3 DEF TypeInv, HistoryTyped, Counts
<1> QED
  BY <1>4, <1>5, <1>6 DEF TypeInv

\* A code is read, used or lost to another server.
LEMMA Exchange_TypeInv ==
    ASSUME TypeInv, NEW p \in Proc,
           SelectCode(p) \/ ExchangeConflict(p)
    PROVE  TypeInv'
<1> DEFINE r == request[p]
           used == [op |-> "use", client |-> r.client, code |-> r.code]
<1>1. r \in Request /\ r.op \in {"select", "use"}
  BY DEF TypeInv, ServersTyped, SelectCode, ExchangeConflict, Working
<1>2. r = [op |-> r.op, client |-> r.client, code |-> r.code] /\ r.client \in Client /\ r.code \in Code
  BY <1>1, RequestFacts
<1>3. used \in Request /\ used.op # "count" /\ Idle \in Request /\ Idle.op # "count"
  BY <1>2 DEF Request, Idle
<1>4. \/ request' = [request EXCEPT ![p] = used]
      \/ request' = [request EXCEPT ![p] = Idle]
  BY <1>2 DEF SelectCode, ExchangeConflict
<1>5. /\ UNCHANGED <<now, clients, codes, tokens, limits, answer, issued, revoked, fails>>
      /\ fresh' \subseteq fresh \cup {p}
  BY DEF SelectCode, ExchangeConflict, migrationVars
<1>6. answer' \in [Proc -> {"none", "accepted", "refused"}]
  BY <1>5 DEF TypeInv, ServersTyped
<1> HIDE DEF used
<1> QED
  BY <1>3, <1>4, <1>5, <1>6, TypesKept

\* A token is stored for a code.
LEMMA UseCode_TypeInv ==
    ASSUME TypeInv, NEW p \in Proc, NEW t \in Token, UseCode(p, t)
    PROVE  TypeInv'
<1> DEFINE c == request[p].code
           row == [token |-> t, form |-> "digest", expires |-> now + TokenLife, revoked |-> FALSE]
           mark(x) == IF x.code = c THEN [x EXCEPT !.used = TRUE] ELSE x
<1>1. request[p] \in Request /\ request[p].op = "use"
  BY DEF TypeInv, ServersTyped, UseCode, Working
<1>2. c \in Code /\ now + TokenLife \in Time
  BY <1>1, RequestFacts, TimeFacts DEF TypeInv
<1>3. row \in TokenRow
  BY <1>2 DEF TokenRow, Form
<1>4. \A x \in CodeRow : mark(x) \in CodeRow
  BY DEF CodeRow
<1>5. /\ codes' = {mark(x) : x \in codes} /\ tokens' = tokens \cup {row}
      /\ DOMAIN issued' = DOMAIN issued \cup {t}
      /\ issued'[t] = [expires |-> now + TokenLife, code |-> c]
      /\ \A u \in DOMAIN issued \ {t} : issued'[u] = issued[u]
      /\ request' = [request EXCEPT ![p] = Idle] /\ fresh' = {}
      /\ UNCHANGED <<now, clients, limits, answer, revoked, fails>>
  BY DEF UseCode, CreateToken, Outdate
<1> HIDE DEF c, row, mark
<1>6. TablesTyped'
  BY <1>3, <1>4, <1>5 DEF TypeInv, TablesTyped
<1>7. HistoryTyped'
  BY <1>2, <1>5 DEF TypeInv, HistoryTyped
<1>8. ServersTyped' /\ RatesAdmitted'
  BY <1>5 DEF TypeInv, ServersTyped, RatesAdmitted, Admitted, Idle, Request
<1>9. Counts'
  BY <1>5 DEF TypeInv, Counts
<1> QED
  BY <1>6, <1>7, <1>8, <1>9 DEF TypeInv

\* A bearer token is looked up or revoked.
LEMMA Bearer_TypeInv ==
    ASSUME TypeInv, NEW p \in Proc, NEW t \in Token,
           Bearer(p, t) \/ ValidateAccessToken(p) \/ Revoke(p, t)
    PROVE  TypeInv'
<1> DEFINE check == [op |-> "check", token |-> t]
<1>1. check \in Request /\ check.op # "count" /\ Idle \in Request /\ Idle.op # "count"
  BY DEF Request, Idle
<1>2. CASE Bearer(p, t)
  <2>1. /\ codes' \subseteq codes /\ tokens' \subseteq tokens /\ fresh' \subseteq fresh
        /\ request' = [request EXCEPT ![p] = check]
        /\ answer' = [answer EXCEPT ![p] = "none"]
        /\ UNCHANGED <<now, clients, limits, issued, revoked, fails>>
    BY <1>2, PurgeTables DEF Bearer
  <2>2. answer' \in [Proc -> {"none", "accepted", "refused"}]
    BY <2>1 DEF TypeInv, ServersTyped
  <2> HIDE DEF check
  <2> QED
    BY <1>1, <2>1, <2>2, TypesKept
<1>3. CASE ValidateAccessToken(p)
  <2>1. /\ UNCHANGED <<now, clients, codes, tokens, limits, issued, revoked, fails, fresh>>
        /\ request' = [request EXCEPT ![p] = Idle]
        /\ answer' = [answer EXCEPT ![p] = "accepted"] \/ answer' = [answer EXCEPT ![p] = "refused"]
    BY <1>3 DEF ValidateAccessToken, migrationVars
  <2>2. answer' \in [Proc -> {"none", "accepted", "refused"}]
    BY <2>1 DEF TypeInv, ServersTyped
  <2> QED
    BY <1>1, <2>1, <2>2, TypesKept
<1>4. CASE Revoke(p, t)
  <2>1. /\ tokens' = {IF row.token = t /\ row.form = "digest" THEN [row EXCEPT !.revoked = TRUE]
                      ELSE row : row \in tokens}
        /\ revoked' \subseteq revoked \cup {t} /\ fresh' \subseteq fresh
        /\ UNCHANGED <<now, clients, codes, limits, request, answer, issued, fails>>
    BY <1>4 DEF Revoke, Outdate
  <2>2. \A row \in TokenRow : [row EXCEPT !.revoked = TRUE] \in TokenRow
    BY DEF TokenRow
  <2>3. TablesTyped'
    BY <2>1, <2>2 DEF TypeInv, TablesTyped
  <2>4. HistoryTyped' /\ ServersTyped' /\ Counts' /\ RatesAdmitted'
    BY <2>1 DEF TypeInv, HistoryTyped, ServersTyped, Counts, RatesAdmitted, Admitted
  <2> QED
    BY <2>3, <2>4 DEF TypeInv
<1> QED
  BY <1>2, <1>3, <1>4

\* The file is opened, or a process ends.
LEMMA Opening_TypeInv ==
    ASSUME TypeInv, NEW p \in Proc, OpenStep(p) \/ End(p)
    PROVE  TypeInv'
<1>1. fresh' \subseteq Proc
  BY DEF OpenStep, End, Open, ReadVersion, Migrating, Begin, Commit, Apply, Abandon, Outdate,
         TypeInv, Counts
<1>2. tokens' \subseteq TokenRow
  <2>1. \A row \in TokenRow : [row EXCEPT !.form = IF @ = "raw" THEN "digest" ELSE @] \in TokenRow
    BY DEF TokenRow, Form
  <2>2. HashTokens \subseteq TokenRow
    <3>1. tokens \subseteq TokenRow
      BY DEF TypeInv, TablesTyped
    <3> QED
      BY <2>1, <3>1 DEF HashTokens
  <2> QED
    BY <2>2 DEF OpenStep, End, accessVars, TypeInv, TablesTyped
<1>3. UNCHANGED <<now, clients, codes, limits, answer, issued, revoked>>
  BY DEF OpenStep, End, accessVars
<1>4. request' = request \/ request' = [request EXCEPT ![p] = Idle]
  BY DEF OpenStep, End, accessVars
<1>5. fails' \in 0..MaxFails
  BY AccessAssumption DEF OpenStep, End, accessVars, TypeInv, Counts
<1>6. TablesTyped' /\ HistoryTyped' /\ Counts'
  BY <1>1, <1>2, <1>3, <1>5 DEF TypeInv, TablesTyped, HistoryTyped, Counts
<1>7. ServersTyped' /\ RatesAdmitted'
  BY <1>3, <1>4 DEF TypeInv, ServersTyped, RatesAdmitted, Admitted, Idle, Request
<1> QED
  BY <1>6, <1>7 DEF TypeInv

\* What the server is asked.
LEMMA Asked_TypeInv ==
    ASSUME TypeInv, NEW p \in Proc, NEW client \in Client,
           \/ Register(p, client)
           \/ \E code \in Code : Authorize(p, client, code) \/ Exchange(p, client, code)
    PROVE  TypeInv'
<1>1. /\ <<"registration">> \in Key /\ <<"authorize", client>> \in Key
      /\ <<"token", client>> \in Key
  BY DEF Key
<1>2. CASE Register(p, client)
  <2>1. [op |-> "register", client |-> client] \in Purpose
    BY DEF Purpose
  <2> QED
    BY <1>1, <1>2, <2>1, Enter_TypeInv DEF Register
<1>3. ASSUME NEW code \in Code, Authorize(p, client, code)
      PROVE  TypeInv'
  <2>1. [op |-> "authorize", client |-> client, code |-> code, expires |-> now + CodeLife]
           \in Purpose
    BY TimeFacts DEF TypeInv, Purpose
  <2> QED
    BY <1>1, <1>3, <2>1, Enter_TypeInv DEF Authorize
<1>4. ASSUME NEW code \in Code, Exchange(p, client, code)
      PROVE  TypeInv'
  <2>1. [op |-> "select", client |-> client, code |-> code] \in Purpose
    BY DEF Purpose
  <2> QED
    BY <1>1, <1>4, <2>1, Enter_TypeInv DEF Exchange
<1> QED
  BY <1>2, <1>3, <1>4

\* Every step keeps the types.
LEMMA TypeInv_Step == TypeInv /\ [Next]_vars => TypeInv'
<1> SUFFICES ASSUME TypeInv, [Next]_vars
             PROVE  TypeInv'
  OBVIOUS
<1>1. ASSUME UNCHANGED <<clients, codes, tokens, limits, request, answer, issued, revoked, fails>>,
             fresh' \subseteq fresh, now' \in 0..MaxTime
      PROVE  TypeInv'
  BY <1>1 DEF TypeInv, TablesTyped, HistoryTyped, ServersTyped, Counts, RatesAdmitted, Admitted
<1>2. CASE UNCHANGED vars
  BY <1>1, <1>2 DEF vars, migrationVars, accessVars, TypeInv, Counts
<1>3. CASE AppendEvent \/ Tick
  BY <1>1, <1>3, AccessAssumption
     DEF AppendEvent, Tick, Outdate, accessVars, migrationVars, TypeInv, Counts
<1>4. ASSUME NEW p \in Proc, OpenStep(p) \/ End(p)
      PROVE  TypeInv'
  BY <1>4, Opening_TypeInv
<1>5. ASSUME NEW p \in Proc, AppRoute(p)
      PROVE  TypeInv'
  <2>1. CASE CleanupExpired(p)
    <3>1. /\ codes' \subseteq codes /\ tokens' \subseteq tokens /\ fresh' \subseteq fresh
          /\ UNCHANGED <<now, clients, limits, request, answer, issued, revoked, fails>>
      BY <2>1, PurgeTables DEF CleanupExpired
    <3> QED
      BY <3>1 DEF TypeInv, TablesTyped, HistoryTyped, ServersTyped, Counts, RatesAdmitted, Admitted
  <2>2. CASE ValidateAccessToken(p)
    <3>1. request[p] \in Request /\ request[p].op = "check"
      BY <2>2 DEF ValidateAccessToken, Working, TypeInv, ServersTyped
    <3>2. request[p].token \in Token
      BY <3>1, RequestFacts
    <3> QED
      BY <2>2, <3>2, Bearer_TypeInv
  <2>3. CASE \/ \E client \in Client : Register(p, client)
             \/ \E client \in Client, code \in Code :
                  Authorize(p, client, code) \/ Exchange(p, client, code)
    BY <2>3, Asked_TypeInv
  <2>4. CASE CountRequest(p) \/ RegisterClient(p) \/ CreateCode(p)
    BY <2>4, CountRequest_TypeInv, Created_TypeInv
  <2>5. CASE SelectCode(p) \/ ExchangeConflict(p)
    BY <2>5, Exchange_TypeInv
  <2>6. CASE \E t \in Token : UseCode(p, t) \/ Bearer(p, t) \/ Revoke(p, t)
    BY <2>6, UseCode_TypeInv, Bearer_TypeInv
  <2> QED
    BY <1>5, <2>1, <2>2, <2>3, <2>4, <2>5, <2>6 DEF AppRoute
<1> QED
  BY <1>2, <1>3, <1>4, <1>5 DEF Next, GatewayRoute

\* A file of any age, with the rows such a file has.
LEMMA TypeInv_Init == Init => TypeInv
<1> SUFFICES ASSUME Init
             PROVE  TypeInv
  OBVIOUS
<1>1. TokenLife \in Time /\ Legacy \subseteq Token /\ Known \subseteq Client /\ 0 \in 0..MaxTime /\ 0 \in 0..MaxFails
  BY AccessAssumption DEF Time
<1>2. TablesTyped
  <2>1. PICK old \in SUBSET Token, form \in Form :
          tokens = [token : old, form : {form}, expires : {TokenLife}, revoked : {FALSE}]
    <3>1. {"raw", "digest"} \subseteq Form
      BY DEF Form
    <3> QED
      BY <1>1, <3>1 DEF Init
  <2>2. tokens \subseteq TokenRow
    BY <1>1, <2>1 DEF TokenRow
  <2>3. codes = {} /\ DOMAIN limits = {} /\ clients \subseteq Client
    BY <1>1 DEF Init
  <2> QED
    BY <2>2, <2>3 DEF TablesTyped
<1>3. HistoryTyped
  BY <1>1 DEF Init, HistoryTyped
<1>4. ServersTyped /\ RatesAdmitted
  BY DEF Init, ServersTyped, RatesAdmitted, Idle, Request
<1>5. Counts
  BY <1>1 DEF Init, MigrationInit, Counts
<1> QED
  BY <1>2, <1>3, <1>4, <1>5 DEF TypeInv

(***************************************************************************)
(* Every row, request, answer and opening keeps its type; no row counts    *)
(* more requests than are allowed, although a limit is read and written by *)
(* two statements (enforce_rate_limit of oauth.rs).                        *)
(***************************************************************************)
THEOREM Typing == Spec => []TypeOK
<1>1. OpenInv /\ TypeInv => TypeOK
  BY DEF OpenInv, FilesTypeOK, TypeInv, TablesTyped, HistoryTyped, ServersTyped, Counts,
         TypeOK, MigrationTypeOK
<1> QED
  BY <1>1, OpenInv_Init, OpenInv_Step, TypeInv_Init, TypeInv_Step, PTL DEF Spec

(***************************************************************************)
(* Bearer tokens.  An open server finds only hashed tokens, because it saw *)
(* the third migration applied, and no older binary writes a row after it. *)
(***************************************************************************)
RowsHashed ==
    \A row \in tokens : /\ row.form \in {"raw", "digest"}
                        /\ 3 \in applied["oauth"] => row.form = "digest"

\* A row says of its token what history says.
RowsKnown ==
    \A row \in tokens : /\ row.token \in DOMAIN issued
                        /\ row.expires = issued[row.token].expires
                        /\ row.revoked <=> row.token \in revoked

\* A purge takes nothing that is still good.
LiveStored == \A t \in DOMAIN issued : Live(t) => \E row \in tokens : row.token = t

\* What is being looked up has no answer yet.
Unanswered == \A p \in Proc : request[p].op = "check" => answer[p] = "none"

TokenInv ==
    /\ RowsHashed
    /\ RowsKnown
    /\ LiveStored
    /\ revoked \subseteq DOMAIN issued
    /\ Unanswered

\* Steps that add no row and take only rows that are not live.
LEMMA RowsKept ==
    ASSUME TokenInv, TypeInv, TypeInv', tokens' \subseteq tokens, now <= now',
           \A row \in tokens \ tokens' : row.expires < now \/ row.revoked,
           UNCHANGED <<issued, revoked>>,
           3 \in applied'["oauth"] => 3 \in applied["oauth"]
    PROVE  RowsHashed' /\ RowsKnown' /\ LiveStored'
<1>1. RowsHashed' /\ RowsKnown'
  BY DEF TokenInv, RowsHashed, RowsKnown
<1>2. ASSUME NEW t \in DOMAIN issued', Live(t)'
      PROVE  \E row \in tokens' : row.token = t
  <2>1. /\ t \in DOMAIN issued \ revoked /\ issued[t].expires > now'
        /\ now \in Nat /\ now' \in Nat /\ issued[t].expires \in Nat
    BY <1>2, TimeFacts DEF Live, TypeInv, HistoryTyped, Counts, Time
  <2>2. Live(t)
    BY <2>1 DEF Live
  <2>3. PICK row \in tokens : row.token = t
    BY <2>1, <2>2 DEF TokenInv, LiveStored
  <2>4. ~ row.revoked /\ ~ (row.expires < now)
    BY <2>1, <2>3 DEF TokenInv, RowsKnown
  <2> QED
    BY <2>3, <2>4
<1> QED
  BY <1>1, <1>2 DEF LiveStored

\* A server goes on to another request.
LEMMA StaysUnanswered ==
    ASSUME TypeInv, Unanswered, NEW p \in Proc, NEW r,
           request' = [request EXCEPT ![p] = r],
           r.op = "check" => answer'[p] = "none",
           \A q \in Proc \ {p} : answer'[q] = answer[q]
    PROVE  Unanswered'
  BY DEF TypeInv, ServersTyped, Unanswered

\* What a purge takes.
LEMMA PurgedRows ==
    ASSUME TypeInv, NEW p, PurgeExpired(p)
    PROVE  /\ tokens' \subseteq tokens
           /\ \A row \in tokens \ tokens' : row.expires < now \/ row.revoked
  BY DEF PurgeExpired, Purged

\* The third migration hashes the tokens in the transaction it commits.
LEMMA Opening_TokenInv ==
    ASSUME TokenInv, TypeInv, TypeInv', OpenInv, NEW p \in Proc, OpenStep(p) \/ End(p)
    PROVE  TokenInv'
<1> DEFINE s == Order[opening[p].at]
           t == opening[p].target
           hashed(row) == [row EXCEPT !.form = IF @ = "raw" THEN "digest" ELSE @]
<1>1. /\ UNCHANGED <<now, issued, revoked, answer>>
      /\ request' = request \/ request' = [request EXCEPT ![p] = Idle]
  BY DEF OpenStep, End, accessVars
<1>2. Unanswered'
  BY <1>1 DEF Idle, TokenInv, Unanswered, TypeInv, ServersTyped
<1>3. now \in Nat
  BY TimeFacts DEF TypeInv
<1>4. CASE tokens' = HashTokens
  <2>1. tokens' = {hashed(row) : row \in tokens}
    BY <1>4 DEF HashTokens
  <2>2. ASSUME NEW row \in tokens
        PROVE  /\ hashed(row).form = "digest" /\ hashed(row).token = row.token
               /\ hashed(row).expires = row.expires /\ hashed(row).revoked = row.revoked
    <3>1. row \in TokenRow /\ row.form \in {"raw", "digest"}
      BY DEF TypeInv, TablesTyped, TokenInv, RowsHashed
    <3> QED
      BY <3>1 DEF TokenRow
  <2> HIDE DEF hashed
  <2>3. RowsHashed' /\ RowsKnown'
    BY <1>1, <2>1, <2>2 DEF TokenInv, RowsHashed, RowsKnown
  <2>4. LiveStored'
    BY <1>1, <2>1, <2>2 DEF TokenInv, LiveStored, Live
  <2> QED
    BY <1>1, <1>2, <2>3, <2>4 DEF TokenInv
<1>5. CASE tokens' = tokens /\ (3 \in applied'["oauth"] => 3 \in applied["oauth"])
  BY <1>1, <1>2, <1>3, <1>5, RowsKept DEF TokenInv
<1>6. CASE tokens' = tokens /\ ~ (3 \in applied'["oauth"] => 3 \in applied["oauth"])
  <2>1. applied \in [Schema -> SUBSET Nat] /\ opening[p] \in Opening
    BY DEF OpenInv, FilesTypeOK
  <2>2. Migrating(p) /\ (Hashes(p) => tokens' = HashTokens)
    BY <1>6 DEF OpenStep, Open, ReadVersion, End, Abandon
  <2>3. Apply(p, s, t) /\ opening[p].step \in {"begin", "snapshot"}
    BY <1>6, <2>2 DEF Migrating, Begin, Commit
  <2>4. s = "oauth" /\ t = 3
    BY <1>6, <2>1, <2>3 DEF Apply
  <2>5. opening[p].step = "snapshot" /\ p \in fresh
    BY <1>6, <2>2, <2>4, AccessAssumption DEF Migrating, Begin, Commit, BeginsWithRead
  <2> QED
    BY <1>4, <2>2, <2>4, <2>5 DEF Hashes
<1> QED
  BY <1>4, <1>5, <1>6 DEF OpenStep, End, accessVars

\* A token is stored for a code: hashed, new, and not revoked.
LEMMA UseCode_TokenInv ==
    ASSUME TokenInv, TypeInv, NEW p \in Proc, NEW t \in Token, UseCode(p, t)
    PROVE  TokenInv'
<1> DEFINE row == [token |-> t, form |-> "digest", expires |-> now + TokenLife, revoked |-> FALSE]
<1>1. /\ t \notin DOMAIN issued /\ tokens' = tokens \cup {row}
      /\ DOMAIN issued' = DOMAIN issued \cup {t}
      /\ issued'[t].expires = now + TokenLife
      /\ \A u \in DOMAIN issued : issued'[u] = issued[u]
      /\ request' = [request EXCEPT ![p] = Idle]
      /\ UNCHANGED <<now, answer, revoked, applied>>
  BY DEF UseCode, CreateToken
<1>2. /\ row.token = t /\ row.form = "digest" /\ row.expires = now + TokenLife
      /\ ~ row.revoked
  OBVIOUS
<1> HIDE DEF row
<1>3. RowsHashed'
  BY <1>1, <1>2 DEF TokenInv, RowsHashed
<1>4. RowsKnown'
  <2>1. t \notin revoked
    BY <1>1 DEF TokenInv
  <2> QED
    BY <1>1, <1>2, <2>1 DEF TokenInv, RowsKnown
<1>5. LiveStored'
  BY <1>1, <1>2 DEF TokenInv, LiveStored, Live
<1>6. Unanswered'
  BY <1>1 DEF Idle, TokenInv, TypeInv, ServersTyped, Unanswered
<1> QED
  BY <1>1, <1>3, <1>4, <1>5, <1>6 DEF TokenInv

\* Every row of a revoked token is marked: the server that marks it is open,
\* so the row is hashed.
LEMMA Revoke_TokenInv ==
    ASSUME TokenInv, TypeInv, OpenInv, NEW p \in Proc, NEW t \in Token, Revoke(p, t)
    PROVE  TokenInv'
<1> DEFINE marked(row) == [row EXCEPT !.revoked = TRUE]
           mark(row) == IF row.token = t /\ row.form = "digest" THEN marked(row) ELSE row
<1>1. /\ tokens' = {mark(row) : row \in tokens}
      /\ revoked' = revoked \cup ({t} \cap DOMAIN issued)
      /\ UNCHANGED <<now, answer, request, issued, applied>>
  BY DEF Revoke
<1>2. 3 \in applied["oauth"]
  <2>1. Complete(applied, "oauth", Latest["oauth"])
    BY AccessAssumption DEF Revoke, Working, IsOpen, OpenInv, Reached
  <2>2. 3 \in 1..Latest["oauth"]
    BY AccessAssumption, MigrationAssumption
  <2> QED
    BY <2>1, <2>2 DEF Complete
<1>3. ASSUME NEW row \in tokens
      PROVE  /\ mark(row).form = "digest" /\ mark(row).token = row.token
             /\ mark(row).expires = row.expires
             /\ mark(row).revoked <=> row.revoked \/ row.token = t
  <2>1. row \in TokenRow /\ row.form = "digest"
    BY <1>2 DEF TypeInv, TablesTyped, TokenInv, RowsHashed
  <2>2. /\ marked(row).form = row.form /\ marked(row).token = row.token
        /\ marked(row).expires = row.expires /\ marked(row).revoked = TRUE
    BY <2>1 DEF TokenRow
  <2> HIDE DEF marked
  <2> QED
    BY <2>1, <2>2
<1> HIDE DEF mark
<1>4. RowsHashed'
  BY <1>1, <1>3 DEF RowsHashed
<1>5. RowsKnown'
  BY <1>1, <1>3 DEF TokenInv, RowsKnown
<1>6. LiveStored'
  BY <1>1, <1>3 DEF TokenInv, LiveStored, Live
<1> QED
  BY <1>1, <1>4, <1>5, <1>6 DEF TokenInv, Unanswered

\* Requests that leave the tokens alone but for a purge.
LEMMA Others_TokenInv ==
    ASSUME TokenInv, TypeInv, TypeInv', NEW p \in Proc, NEW r,
           \/ PurgeExpired(p)
           \/ tokens' = tokens /\ UNCHANGED applied,
           UNCHANGED <<now, issued, revoked>>,
           request' = [request EXCEPT ![p] = r],
           r.op = "check" => answer'[p] = "none",
           \A q \in Proc \ {p} : answer'[q] = answer[q]
    PROVE  TokenInv'
<1>1. Unanswered'
  BY StaysUnanswered DEF TokenInv
<1>2. now <= now'
  BY TimeFacts DEF TypeInv
<1>3. /\ tokens' \subseteq tokens /\ UNCHANGED applied
      /\ \A row \in tokens \ tokens' : row.expires < now \/ row.revoked
  BY PurgedRows DEF PurgeExpired
<1>4. RowsHashed' /\ RowsKnown' /\ LiveStored'
  BY <1>2, <1>3, RowsKept
<1> QED
  BY <1>1, <1>4 DEF TokenInv

\* The steps of a server on its request, by what becomes of it.
LEMMA Route_TokenInv ==
    ASSUME TokenInv, TypeInv, TypeInv', OpenInv, NEW p \in Proc, AppRoute(p)
    PROVE  TokenInv'
<1> USE DEF Idle
<1>1. ASSUME NEW key, NEW purpose, Enter(p, key, purpose)
      PROVE  TokenInv'
  BY <1>1, Others_TokenInv DEF Enter
<1>2. ASSUME NEW client \in Client, Register(p, client)
      PROVE  TokenInv'
  BY <1>1, <1>2 DEF Register
<1>3. ASSUME NEW client \in Client, NEW code \in Code,
             Authorize(p, client, code) \/ Exchange(p, client, code)
      PROVE  TokenInv'
  BY <1>1, <1>3 DEF Authorize, Exchange
<1>4. CASE RegisterClient(p) \/ CreateCode(p)
  BY <1>4, Others_TokenInv DEF RegisterClient, CreateCode
<1>5. CASE CountRequest(p)
  <2>1. request[p] \in Request /\ request[p].op = "count"
    BY <1>5 DEF CountRequest, Working, TypeInv, ServersTyped
  <2>2. request[p].next.op # "check"
    BY <2>1, RequestFacts, PurposeFacts
  <2> QED
    BY <1>5, <2>2, Others_TokenInv DEF CountRequest
<1>6. CASE SelectCode(p)
  <2>1. request[p] \in Request /\ request[p].op = "select"
    BY <1>6 DEF SelectCode, Working, TypeInv, ServersTyped
  <2>2. [request[p] EXCEPT !.op = "use"].op = "use"
    BY <2>1, RequestFacts
  <2> QED
    BY <1>6, <2>2, Others_TokenInv DEF SelectCode
<1>7. CASE ExchangeConflict(p) \/ ValidateAccessToken(p)
  <2>1. /\ tokens' = tokens /\ UNCHANGED <<applied, now, issued, revoked>>
        /\ request' = [request EXCEPT ![p] = Idle]
        /\ \A q \in Proc \ {p} : answer'[q] = answer[q]
    BY <1>7 DEF ExchangeConflict, ValidateAccessToken, migrationVars, TypeInv, ServersTyped
  <2> QED
    BY <2>1, Others_TokenInv
<1>8. ASSUME NEW t \in Token, Bearer(p, t)
      PROVE  TokenInv'
  <2>1. answer'[p] = "none" /\ \A q \in Proc \ {p} : answer'[q] = answer[q]
    BY <1>8 DEF Bearer, TypeInv, ServersTyped
  <2> QED
    BY <1>8, <2>1, Others_TokenInv DEF Bearer
<1>9. CASE CleanupExpired(p)
  <2>1. request' = [request EXCEPT ![p] = request[p]] /\ answer' = answer
    BY <1>9 DEF CleanupExpired, TypeInv, ServersTyped
  <2>2. request[p].op # "check"
    BY <1>9 DEF CleanupExpired, Working
  <2> QED
    BY <1>9, <2>1, <2>2, Others_TokenInv DEF CleanupExpired
<1> QED
  BY <1>2, <1>3, <1>4, <1>5, <1>6, <1>7, <1>8, <1>9, UseCode_TokenInv, Revoke_TokenInv
     DEF AppRoute

\* Every step keeps the invariant.
LEMMA TokenInv_Step ==
    OpenInv /\ TypeInv /\ TypeInv' /\ TokenInv /\ [Next]_vars => TokenInv'
<1> SUFFICES ASSUME OpenInv, TypeInv, TypeInv', TokenInv, [Next]_vars
             PROVE  TokenInv'
  OBVIOUS
<1>1. ASSUME UNCHANGED <<tokens, issued, revoked, request, answer, applied>>, now <= now'
      PROVE  TokenInv'
  BY <1>1, RowsKept DEF TokenInv, Unanswered
<1>2. now \in Nat
  BY TimeFacts DEF TypeInv
<1>3. CASE UNCHANGED vars
  BY <1>1, <1>2, <1>3 DEF vars, migrationVars, accessVars
<1>4. CASE AppendEvent \/ Tick
  BY <1>1, <1>2, <1>4 DEF AppendEvent, Tick, accessVars, migrationVars
<1>5. ASSUME NEW p \in Proc, OpenStep(p) \/ End(p)
      PROVE  TokenInv'
  BY <1>5, Opening_TokenInv
<1>6. ASSUME NEW p \in Proc, AppRoute(p)
      PROVE  TokenInv'
  BY <1>6, Route_TokenInv
<1> QED
  BY <1>3, <1>4, <1>5, <1>6 DEF Next, GatewayRoute

\* The tokens of an older binary are raw if the third migration is missing.
LEMMA TokenInv_Init == Init => TokenInv
<1> SUFFICES ASSUME Init
             PROVE  TokenInv
  OBVIOUS
<1> DEFINE old == IF 1 \in applied["oauth"] THEN Legacy ELSE {}
           form == IF 3 \in applied["oauth"] THEN "digest" ELSE "raw"
<1>1. /\ tokens = [token : old, form : {form}, expires : {TokenLife}, revoked : {FALSE}]
      /\ issued = [t \in old |-> [expires |-> TokenLife, code |-> "none"]]
      /\ revoked = {}
      /\ \A p \in Proc : request[p] = Idle
  BY DEF Init
<1>2. RowsHashed
  BY <1>1 DEF RowsHashed
<1> HIDE DEF form
<1>3. ASSUME NEW t \in old
      PROVE  [token |-> t, form |-> form, expires |-> TokenLife, revoked |-> FALSE] \in tokens
  BY <1>1
<1> HIDE DEF old
<1>4. RowsKnown /\ LiveStored
  BY <1>1, <1>3 DEF RowsKnown, LiveStored
<1> QED
  BY <1>1, <1>2, <1>4 DEF TokenInv, Unanswered, Idle

(***************************************************************************)
(* A bearer token is accepted exactly if it was issued, has not run out    *)
(* and has not been revoked, whatever is migrated, purged and revoked by   *)
(* other servers at the same time.  Code: validate_access_token,           *)
(* purge_expired and apply_oauth_migration of oauth.rs.                    *)
(***************************************************************************)
THEOREM AnswersRight == Spec => AnswerIsRight
<1> DEFINE Right == \A p \in Proc :
               Working(p, "check") /\ answer'[p] # "none" =>
                   (answer'[p] = "accepted" <=> Live(request[p].token))
<1>1. OpenInv /\ TypeInv /\ TokenInv /\ [Next]_vars => [Right]_vars
  <2> SUFFICES ASSUME OpenInv, TypeInv, TokenInv, Next,
                      NEW p \in Proc, Working(p, "check"), answer'[p] # "none"
               PROVE  answer'[p] = "accepted" <=> Live(request[p].token)
    OBVIOUS
  <2> DEFINE t == request[p].token
  <2>1. ValidateAccessToken(p)
    <3>1. answer[p] = "none"
      BY DEF Working, TokenInv, Unanswered
    <3>2. ASSUME NEW q \in Proc, ValidateAccessToken(q)
          PROVE  q = p
      BY <3>1, <3>2 DEF ValidateAccessToken, TypeInv, ServersTyped
    <3>3. ASSUME NEW q \in Proc, AppRoute(q)
          PROVE  \/ ValidateAccessToken(q)
                 \/ answer' = answer
                 \/ answer' = [answer EXCEPT ![q] = "none"]
      BY <3>3 DEF AppRoute, Register, Authorize, Exchange, Enter, RegisterClient, CreateCode,
              CountRequest, SelectCode, ExchangeConflict, UseCode, Bearer, Revoke, CleanupExpired
    <3>4. ASSUME NEW q \in Proc, OpenStep(q) \/ End(q)
          PROVE  answer' = answer
      BY <3>4 DEF OpenStep, End, accessVars
    <3>5. AppendEvent \/ Tick => answer' = answer
      BY DEF AppendEvent, Tick, accessVars
    <3>6. PICK q \in Proc : ValidateAccessToken(q)
      BY <3>1, <3>3, <3>4, <3>5 DEF Next, GatewayRoute, TypeInv, ServersTyped
    <3> QED
      BY <3>2, <3>6
  <2>2. 3 \in applied["oauth"]
    <3>1. Complete(applied, "oauth", Latest["oauth"])
      BY AccessAssumption DEF Working, IsOpen, OpenInv, Reached
    <3>2. 3 \in 1..Latest["oauth"]
      BY AccessAssumption, MigrationAssumption
    <3> QED
      BY <3>1, <3>2 DEF Complete
  <2>3. answer'[p] = "accepted" <=>
          \E row \in tokens : row.token = t /\ ~row.revoked /\ row.expires > now
    BY <2>1, <2>2 DEF ValidateAccessToken, TypeInv, ServersTyped, TokenInv, RowsHashed
  <2> QED
    BY <2>3 DEF Live, TokenInv, RowsKnown, LiveStored
<1> QED
  BY <1>1, OpenInv_Init, OpenInv_Step, TypeInv_Init, TypeInv_Step,
     TokenInv_Init, TokenInv_Step, PTL DEF Spec, AnswerIsRight
=============================================================================
