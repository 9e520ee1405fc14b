----------------------------- MODULE Migration -----------------------------
(***************************************************************************)
(* Opening .shuttle/shuttle.db: the migrations of the event store          *)
(* (src/src/store.rs) and of the OAuth store (src/src/oauth.rs), which keep *)
(* two version rows in one SQLite file in WAL mode.  Any number of stl     *)
(* commands and servers may open it at once, and end anywhere.             *)
(*                                                                         *)
(* The version is read outside the transactions that apply migrations.  A  *)
(* transaction is deferred: one that begins with a write holds the write   *)
(* lock from its first statement to its commit, one that begins with a     *)
(* read holds a snapshot and fails at its first write if anything was      *)
(* committed since (SQLITE_BUSY_SNAPSHOT, which no busy timeout retries).  *)
(* The steps of a process are conjoined with what they do to the tables by *)
(* the module that extends this one.                                       *)
(***************************************************************************)
EXTENDS Naturals, Sequences

CONSTANTS
    Proc,        \* processes that open the file
    Order,       \* the version rows, in the order a process migrates them
    Latest,      \* the newest version this binary knows, by row
    ReadsFirst   \* the migrations whose first statement reads, by row

Schema == {Order[i] : i \in DOMAIN Order}

ASSUME MigrationAssumption ==
    /\ Order \in Seq(Schema)
    /\ Latest \in [Schema -> Nat]
    /\ ReadsFirst \in [Schema -> SUBSET Nat]

VARIABLES
    version,   \* the version rows
    applied,   \* the migrations whose tables and columns are there
    opening,   \* how far each process is
    fresh      \* processes in a transaction that began with a read, if nothing
               \* was committed since

migrationVars == <<version, applied, opening, fresh>>

Closed == [step |-> "closed"]
Opened == [step |-> "open"]

Opening ==
    {Closed, Opened} \cup
    [step : {"version"}, at : DOMAIN Order] \cup
    [step : {"begin", "snapshot"}, at : DOMAIN Order, target : Nat]

MigrationTypeOK ==
    /\ version \in [Schema -> Nat]
    /\ applied \in [Schema -> SUBSET Nat]
    /\ opening \in [Proc -> Opening]
    /\ fresh \subseteq Proc

\* A new file, one of a time before version rows, one of any earlier binary, or
\* one of a later binary.
Found(s) ==
    {<<0, {}>>, <<0, {1}>>} \cup {<<v, 1..v>> : v \in 1..Latest[s] + 1}

MigrationInit ==
    /\ \E found \in [Schema -> UNION {Found(s) : s \in Schema}] :
        /\ \A s \in Schema : found[s] \in Found(s)
        /\ version = [s \in Schema |-> found[s][1]]
        /\ applied = [s \in Schema |-> found[s][2]]
    /\ opening = [p \in Proc |-> Closed]
    /\ fresh = {}

IsOpen(p) == opening[p].step = "open"

\* After a commit no snapshot is current.
Outdate == fresh' = {}

\* The next migration of a version row, the next row, or done.
Onward(at, target) ==
    IF target <= Latest[Order[at]] THEN [step |-> "begin", at |-> at, target |-> target]
    ELSE IF at < Len(Order) THEN [step |-> "version", at |-> at + 1]
    ELSE Opened

Open(p) ==
    /\ opening[p].step = "closed"
    /\ opening' = [opening EXCEPT ![p] = [step |-> "version", at |-> 1]]
    /\ UNCHANGED <<version, applied, fresh>>

\* A file of a newer binary is refused.  The table of the version is created
\* before, and a first row inserted after it is found to be 0: commits of their
\* own, if nobody made them before.
ReadVersion(p) ==
    /\ opening[p].step = "version"
    /\ LET at == opening[p].at
           found == version[Order[at]]
       IN  /\ opening' = [opening EXCEPT ![p] =
                  IF found > Latest[Order[at]] THEN Closed ELSE Onward(at, found + 1)]
           /\ fresh' = fresh \/ (found = 0 /\ Outdate)
    /\ UNCHANGED <<version, applied>>

\* The transaction of p applies migration t of s and is committed.
\* Mutant: the first transaction of a row writes the newest version.
Apply_LatestAtOnce(p, s, t) ==
    /\ applied' = [applied EXCEPT ![s] = @ \cup {t}]
    /\ version' = [version EXCEPT ![s] = Latest[s]]
    /\ opening' = [opening EXCEPT ![p] = Onward(@.at, t + 1)]
    /\ Outdate

Apply(p, s, t) ==
    /\ applied' = [applied EXCEPT ![s] = @ \cup {t}]
    /\ version' = [version EXCEPT ![s] = t]
    /\ opening' = [opening EXCEPT ![p] = Onward(@.at, t + 1)]
    /\ Outdate

\* CREATE ... IF NOT EXISTS reads, and does not write, what is there already.
BeginsWithRead(s, t) == t \in ReadsFirst[s] \/ t \in applied[s]

Begin(p) ==
    /\ opening[p].step = "begin"
    /\ LET s == Order[opening[p].at]
           t == opening[p].target
       IN  IF BeginsWithRead(s, t)
           THEN /\ opening' = [opening EXCEPT ![p].step = "snapshot"]
                /\ fresh' = fresh \cup {p}
                /\ UNCHANGED <<version, applied>>
           ELSE Apply(p, s, t)

Commit(p) ==
    /\ opening[p].step = "snapshot"
    /\ IF p \notin fresh
       THEN /\ opening' = [opening EXCEPT ![p] = Closed]
            /\ UNCHANGED <<version, applied, fresh>>
       ELSE Apply(p, Order[opening[p].at], opening[p].target)

\* What an open of p does that is no commit, and the commit of a migration.
Migrating(p) == Begin(p) \/ Commit(p)

\* The process ends, or the write lock is not given to it within the timeout.
Abandon(p) ==
    /\ opening[p].step # "closed"
    /\ opening' = [opening EXCEPT ![p] = Closed]
    /\ fresh' = fresh \ {p}
    /\ UNCHANGED <<version, applied>>

(***************************************************************************)
(* What an open is for: whoever has opened the file finds every table,     *)
(* column and index of this binary, although a slower process may have     *)
(* put the version back, and although an open may end between any two      *)
(* transactions.                                                           *)
(***************************************************************************)
OpenedIsComplete ==
    \A p \in Proc : IsOpen(p) => \A s \in Schema : 1..Latest[s] \subseteq applied[s]
=============================================================================
