-------------------------- MODULE RemoteSync_proofs --------------------------
(***************************************************************************)
(* What a checkpoint says of the two logs, for any number of repositories, *)
(* processes, events, failures, clock skews and page sizes.  Checkpoints   *)
(* are saved whole by syncs that run at once, so that an old one can come  *)
(* back; every copy, on disk or in memory, is therefore shown to be true,  *)
(* and to stay true while the logs grow.                                   *)
(***************************************************************************)
EXTENDS RemoteSync, FiniteSetTheorems, WellFoundedInduction, TLAPS

(***************************************************************************)
(* Numbers and finite sets of them.                                        *)
(***************************************************************************)
LEMMA LeastOf ==
    ASSUME NEW T \in SUBSET Nat, T # {}
    PROVE  \E n \in T : \A m \in T : n <= m
<1> DEFINE Less == OpToRel(<, Nat)
<1>1. \A m, n \in Nat : m < n => <<m, n>> \in Less
  BY DEF OpToRel
<1>2. IsWellFoundedOn(Less, Nat)
  BY NatLessThanWellFounded, Zenon
<1> HIDE DEF Less
<1>3. PICK n \in T : \A m \in T : ~ (<<m, n>> \in Less)
  BY <1>2, WFMin
<1>4. \A m \in T : ~ (m < n)
  BY <1>1, <1>3
<1>5. QED
  BY <1>4

\* Min is the least member.
LEMMA MinOf ==
    ASSUME NEW T \in SUBSET Nat, T # {}
    PROVE  Min(T) \in T /\ \A m \in T : Min(T) <= m
<1>1. \E n \in T : \A m \in T : n <= m
  BY LeastOf
<1>2. QED
  BY <1>1 DEF Min

Above(S, e) == {f \in S : f > e}
Below(S, e) == {f \in S : f < e}

\* Fewer events are above a later one.
LEMMA AboveShrinks ==
    ASSUME NEW S \in SUBSET Nat, IsFiniteSet(S), NEW d \in Nat, NEW e \in Nat, d <= e
    PROVE  /\ Cardinality(Above(S, d)) \in Nat /\ Cardinality(Above(S, e)) \in Nat
           /\ Cardinality(Above(S, e)) <= Cardinality(Above(S, d))
           /\ d < e /\ e \in S => Cardinality(Above(S, e)) < Cardinality(Above(S, d))
<1>1. Above(S, d) \in SUBSET S /\ Above(S, e) \in SUBSET Above(S, d)
  <2>1. \A f \in S : f > e => f > d
    OBVIOUS
  <2>2. QED
    BY <2>1, Zenon DEF Above
<1>2. IsFiniteSet(Above(S, d)) /\ IsFiniteSet(Above(S, e))
  BY <1>1, FS_Subset
<1>3. Cardinality(Above(S, d)) \in Nat /\ Cardinality(Above(S, e)) \in Nat
  BY <1>2, FS_CardinalityType
<1>4. /\ Cardinality(Above(S, e)) <= Cardinality(Above(S, d))
      /\ Cardinality(Above(S, d)) = Cardinality(Above(S, e)) => Above(S, d) = Above(S, e)
  BY <1>1, <1>2, FS_Subset
<1>5. d < e /\ e \in S => Above(S, d) # Above(S, e)
  BY DEF Above
<1>6. QED
  BY <1>3, <1>4, <1>5

\* Fewer events are below an earlier one.
LEMMA BelowShrinks ==
    ASSUME NEW S \in SUBSET Nat, IsFiniteSet(S), NEW d \in Nat, NEW e \in Nat, d <= e
    PROVE  /\ Cardinality(Below(S, d)) \in Nat /\ Cardinality(Below(S, e)) \in Nat
           /\ Cardinality(Below(S, d)) <= Cardinality(Below(S, e))
<1>1. Below(S, e) \in SUBSET S /\ Below(S, d) \in SUBSET Below(S, e)
  <2>1. \A f \in S : f < d => f < e
    OBVIOUS
  <2>2. QED
    BY <2>1, Zenon DEF Below
<1>2. IsFiniteSet(Below(S, d)) /\ IsFiniteSet(Below(S, e))
  BY <1>1, FS_Subset
<1>3. Cardinality(Below(S, d)) \in Nat /\ Cardinality(Below(S, e)) \in Nat
  BY <1>2, FS_CardinalityType
<1>4. QED
  BY <1>1, <1>2, <1>3, FS_Subset

\* Max is the greatest member of a finite set.
LEMMA MaxOf ==
    ASSUME NEW T \in SUBSET Nat, IsFiniteSet(T), T # {}
    PROVE  Max(T) \in T /\ \A m \in T : Max(T) >= m
<1> DEFINE C == {Cardinality(Above(T, e)) : e \in T}
<1>1. C \in SUBSET Nat /\ C # {}
  <2>1. \A e \in T : Cardinality(Above(T, e)) \in Nat
    BY AboveShrinks
  <2>2. QED
    BY <2>1
<1>2. PICK c \in C : \A b \in C : c <= b
  <2> HIDE DEF C
  <2>1. QED
    BY <1>1, LeastOf
<1>3. PICK n \in T : c = Cardinality(Above(T, n))
  BY <1>2
<1>4. ASSUME NEW m \in T
      PROVE  n >= m
  <2>1. SUFFICES ASSUME n < m PROVE FALSE
    OBVIOUS
  <2>2. Cardinality(Above(T, m)) < Cardinality(Above(T, n)) /\ Cardinality(Above(T, m)) \in Nat
        /\ Cardinality(Above(T, n)) \in Nat
    BY <2>1, AboveShrinks
  <2>3. Cardinality(Above(T, n)) <= Cardinality(Above(T, m))
    BY <1>2, <1>3
  <2>4. QED
    BY <2>2, <2>3
<1>5. QED
  BY <1>4 DEF Max

(***************************************************************************)
(* Pages.                                                                  *)
(***************************************************************************)
LEMMA NewestOf ==
    ASSUME NEW S \in SUBSET Nat, IsFiniteSet(S), NEW n \in Nat
    PROVE  /\ Newest(S, n) \subseteq S
           /\ \A d \in Newest(S, n), e \in S : d <= e => e \in Newest(S, n)
           /\ Cardinality(Newest(S, n)) < n => Newest(S, n) = S
<1>1. \A e : e \in Newest(S, n) <=> e \in S /\ Cardinality(Above(S, e)) < n
  BY DEF Newest, Above
<1>2. ASSUME NEW d \in Newest(S, n), NEW e \in S, d <= e
      PROVE  e \in Newest(S, n)
  <2>1. d \in S /\ Cardinality(Above(S, d)) < n
    BY <1>1
  <2>2. /\ Cardinality(Above(S, d)) \in Nat /\ Cardinality(Above(S, e)) \in Nat
        /\ Cardinality(Above(S, e)) <= Cardinality(Above(S, d))
    BY <1>2, <2>1, AboveShrinks
  <2>3. QED
    BY <1>1, <2>1, <2>2
<1>3. ASSUME Cardinality(Newest(S, n)) < n, S \ Newest(S, n) # {}
      PROVE  FALSE
  <2> DEFINE rest == S \ Newest(S, n)
  <2>1. rest \in SUBSET S /\ IsFiniteSet(rest) /\ rest # {}
    BY <1>3, FS_Subset
  <2>2. PICK m \in rest : \A e \in rest : m >= e
    <3> HIDE DEF rest
    <3>1. QED
      BY <2>1, MaxOf
  <2>3. Above(S, m) \subseteq Newest(S, n)
    <3>1. \A e \in S : e > m => ~ (m >= e)
      OBVIOUS
    <3>2. \A e \in S : e > m => e \notin rest
      BY <2>2, <3>1
    <3>3. QED
      BY <3>2 DEF Above
  <2>4. Newest(S, n) \in SUBSET S /\ IsFiniteSet(Newest(S, n))
    BY <1>1, FS_Subset
  <2>5. /\ Cardinality(Above(S, m)) <= Cardinality(Newest(S, n))
        /\ IsFiniteSet(Above(S, m))
    BY <2>3, <2>4, FS_Subset
  <2>6. Cardinality(Above(S, m)) \in Nat /\ Cardinality(Newest(S, n)) \in Nat
    BY <2>4, <2>5, FS_CardinalityType
  <2>7. m \in Newest(S, n)
    BY <1>1, <1>3, <2>2, <2>5, <2>6
  <2>8. QED
    BY <2>2, <2>7
<1>4. Newest(S, n) \subseteq S
  BY <1>1
<1>5. QED
  BY <1>2, <1>3, <1>4

\* Oldest takes a prefix of what is listed.
LEMMA OldestOf ==
    ASSUME NEW S \in SUBSET Nat, IsFiniteSet(S), NEW n \in Nat
    PROVE  /\ Oldest(S, n) \subseteq S
           /\ \A e \in Oldest(S, n), d \in S : d <= e => d \in Oldest(S, n)
<1>1. \A e : e \in Oldest(S, n) <=> e \in S /\ Cardinality(Below(S, e)) < n
  BY DEF Oldest, Below
<1>2. ASSUME NEW e \in Oldest(S, n), NEW d \in S, d <= e
      PROVE  d \in Oldest(S, n)
  <2>1. e \in S /\ Cardinality(Below(S, e)) < n
    BY <1>1
  <2>2. /\ Cardinality(Below(S, d)) \in Nat /\ Cardinality(Below(S, e)) \in Nat
        /\ Cardinality(Below(S, d)) <= Cardinality(Below(S, e))
    BY <1>2, <2>1, BelowShrinks
  <2>3. QED
    BY <1>1, <2>1, <2>2
<1>3. QED
  BY <1>1, <1>2

(***************************************************************************)
(* Stamps.                                                                 *)
(***************************************************************************)
LEMMA EventsFinite ==
    /\ Event \in SUBSET Nat /\ 0 \notin Event
    /\ IsFiniteSet(Event)
    /\ \A r \in Replica, t \in 1..MaxClock : Stamp(r, t) \in Event
<1>1. ASSUME NEW r \in Replica, NEW t \in 1..MaxClock
      PROVE  Stamp(r, t) \in Nat /\ Stamp(r, t) > 0
  <2>1. /\ r \in Nat /\ r > 0 /\ NumReplicas \in Nat /\ t + Skew[r] \in Nat
    BY SyncAssumption DEF Replica
  <2>2. (t + Skew[r]) * NumReplicas \in Nat
    BY <2>1
  <2>3. QED
    BY <2>1, <2>2 DEF Stamp
<1>2. IsFiniteSet(Event)
  <2> DEFINE P == Replica \X (1..MaxClock)
             f == [x \in P |-> Stamp(x[1], x[2])]
  <2>1. IsFiniteSet(Replica) /\ IsFiniteSet(1..MaxClock)
    BY SyncAssumption, FS_Interval DEF Replica
  <2>2. IsFiniteSet(P)
    BY <2>1, FS_Product
  <2>3. f \in Surjection(P, Event)
    <3>1. f \in [P -> Event]
      BY DEF Event
    <3>2. \A e \in Event : \E x \in P : f[x] = e
      <4>1. TAKE e \in Event
      <4>2. PICK r \in Replica, t \in 1..MaxClock : e = Stamp(r, t)
        BY DEF Event
      <4>3. <<r, t>> \in P /\ f[<<r, t>>] = e
        BY <4>2
      <4>4. QED
        BY <4>3
    <3>3. QED
      BY <3>1, <3>2 DEF Surjection
  <2>4. QED
    BY <2>2, <2>3, FS_Surjection
<1>3. QED
  BY <1>1, <1>2 DEF Event

(***************************************************************************)
(* What a checkpoint and a session say.                                    *)
(***************************************************************************)
Session == [stage    : {"idle", "load", "append", "savePush", "fetch", "import", "savePage"},
            thenPull : BOOLEAN, queue : SUBSET Event, forward : BOOLEAN,
            cursor   : Cursor, latest : Cursor, page : SUBSET Event, more : BOOLEAN,
            saved    : Checkpoint]

\* Of the events up to n, r misses none on the gateway that it should have.
PushedTo(r, n)      == \A e \in local[r] \ behind : e <= n => e \in remote
PulledTo(r, n)      == \A e \in remote \ late : e <= n => e \in local[r] \cup hidden[r]
PulledFrom(r, m, n) == \A e \in remote \ late : m <= e /\ e <= n => e \in local[r]

CheckpointTrue(r, c) ==
    /\ c.push \in local[r] \cup {0}
    /\ PushedTo(r, c.push)
    /\ c.after \in remote \cup {0}
    /\ c.phase = "incremental" => c.after # 0 /\ PulledTo(r, c.after)
    /\ c.phase = "backfill" => /\ c.before = 0 <=> c.after = 0
                               /\ c.before # 0 => PulledFrom(r, c.before, c.after)

\* What is local and older than an event of the queue has been pushed or is
\* in the queue itself; in savePush the first event of the queue was stored.
QueueTrue(r, s) ==
    /\ s.queue \subseteq local[r]
    /\ \A e \in local[r] \ behind, f \in s.queue :
          s.saved.push < e /\ e < f => e \in s.queue \cup remote
    /\ s.stage = "savePush" => s.queue # {} /\ Min(s.queue) \in remote

\* What a pull has covered when it is about to ask for the next page.
FetchTrue(r, s) ==
    /\ s.forward => s.cursor \in remote /\ PulledTo(r, s.cursor)
    /\ ~ s.forward => /\ s.cursor = 0 <=> s.latest = 0
                      /\ s.cursor # 0 => PulledFrom(r, s.cursor, s.latest)

\* What it covers once its page is stored.
PageTrue(r, s) ==
    /\ s.page # {} /\ s.page \subseteq remote
    /\ s.forward =>
          \A e \in remote \ late :
             e <= Max(s.page) => e \in local[r] \cup (s.page \cup hidden[r])
    /\ ~ s.forward =>
          /\ s.latest # 0
          /\ \A e \in remote \ late :
                Min(s.page) <= e /\ e <= s.latest => e \in local[r] \cup s.page
          /\ Page < Cap /\ ~ s.more => \A e \in remote \ late : Min(s.page) <= e

SessionTrue(p, s) ==
    LET r == Home[p]
    IN  /\ CheckpointTrue(r, s.saved)
        /\ s.stage \in {"load", "append", "savePush"} => QueueTrue(r, s)
        /\ s.stage = "load" => s.saved.push = 0
        /\ s.stage \in {"fetch", "import", "savePage"} =>
              /\ s.forward <=> s.saved.phase = "incremental"
              /\ s.latest \in remote \cup {0}
        /\ s.stage = "fetch" => FetchTrue(r, s)
        /\ s.stage \in {"import", "savePage"} => PageTrue(r, s)
        /\ s.stage = "savePage" => s.page \subseteq local[r]

\* A gateway that can tell whether there are more hides nothing.
NothingHidden == Page < Cap => \A r \in Replica : hidden[r] = {}

SyncInv ==
    /\ TypeOK
    /\ \A r \in Replica : CheckpointTrue(r, checkpoint[r])
    /\ \A p \in Process : SessionTrue(p, session[p])
    /\ NothingHidden

(***************************************************************************)
(* Both stay true while the logs grow.                                     *)
(***************************************************************************)
LogsTyped ==
    /\ local \in [Replica -> SUBSET Event]
    /\ remote \subseteq Event /\ late \subseteq Event /\ behind \subseteq Event
    /\ hidden \in [Replica -> SUBSET Event]

\* What is new on the gateway is the newest there, or late; what is new in a
\* repository is the newest there, or behind, or from the gateway.
Grows ==
    /\ remote \subseteq remote' /\ late \subseteq late' /\ behind \subseteq behind'
    /\ \A r \in Replica : local[r] \subseteq local'[r] /\ hidden[r] \subseteq hidden'[r]
    /\ \A e \in remote' \ remote : e \in late' \/ \A f \in remote : f < e
    /\ \A r \in Replica : \A e \in local'[r] \ local[r] :
          e \in remote' \/ e \in behind' \/ \A f \in local[r] : f < e

\* What was pulled up to a cursor stays pulled while the logs grow.
LEMMA PulledGrows ==
    ASSUME LogsTyped, LogsTyped', Grows, NEW r \in Replica, NEW n \in remote,
           NEW S, NEW m \in Nat,
           \A e \in remote \ late : m <= e /\ e <= n => e \in local[r] \cup S
    PROVE  \A e \in remote' \ late' : m <= e /\ e <= n => e \in local'[r] \cup S
<1>1. SUFFICES ASSUME NEW e \in remote' \ late', m <= e, e <= n
               PROVE  e \in local'[r] \cup S
  OBVIOUS
<1>2. CASE e \in remote
  BY <1>1, <1>2 DEF Grows
<1>3. CASE e \notin remote
  <2>1. n < e
    BY <1>1, <1>3 DEF Grows
  <2>2. e \in Nat /\ n \in Nat
    BY EventsFinite DEF LogsTyped
  <2>3. QED
    BY <1>1, <2>1, <2>2
<1>4. QED
  BY <1>2, <1>3

\* So does what was pulled or hidden.
LEMMA PulledToGrows ==
    ASSUME LogsTyped, LogsTyped', Grows, NEW r \in Replica, NEW n \in remote,
           PulledTo(r, n)
    PROVE  PulledTo(r, n)'
<1>1. \A e \in remote \ late : 0 <= e /\ e <= n => e \in local[r] \cup hidden[r]
  BY DEF PulledTo
<1>2. \A e \in remote' \ late' : 0 <= e /\ e <= n => e \in local'[r] \cup hidden[r]
  BY <1>1, PulledGrows
<1>3. \A e \in remote' : e \in Nat
  BY EventsFinite DEF LogsTyped
<1>4. hidden[r] \subseteq hidden'[r]
  BY DEF Grows
<1>5. QED
  BY <1>2, <1>3, <1>4 DEF PulledTo

\* The types of a checkpoint's fields.
LEMMA CheckpointFields ==
    ASSUME NEW c \in Checkpoint
    PROVE  /\ c.push \in Nat /\ c.before \in Nat /\ c.after \in Nat
           /\ c.phase \in {"backfill", "incremental"}
           /\ c.push \in Cursor /\ c.before \in Cursor /\ c.after \in Cursor
<1>1. \A n \in Cursor : n \in Nat
  BY EventsFinite DEF Cursor
<1>2. c.push \in Cursor /\ c.before \in Cursor /\ c.after \in Cursor
      /\ c.phase \in {"backfill", "incremental"}
  BY DEF Checkpoint
<1>3. QED
  BY <1>1, <1>2

\* The types of a session's fields.
LEMMA SessionFields ==
    ASSUME NEW s \in Session
    PROVE  /\ s.saved \in Checkpoint
           /\ s.cursor \in Nat /\ s.latest \in Nat
           /\ s.cursor \in Cursor /\ s.latest \in Cursor
           /\ s.queue \subseteq Event /\ s.page \subseteq Event
           /\ s.thenPull \in BOOLEAN /\ s.forward \in BOOLEAN /\ s.more \in BOOLEAN
           /\ s.stage \in {"idle", "load", "append", "savePush", "fetch", "import", "savePage"}
<1>1. \A n \in Cursor : n \in Nat
  BY EventsFinite DEF Cursor
<1>2. s.cursor \in Cursor /\ s.latest \in Cursor
  BY DEF Session
<1>3. QED
  BY <1>1, <1>2 DEF Session

\* The first and the last event of a page.
LEMMA PageBounds ==
    ASSUME NEW T \in SUBSET Event, T # {}
    PROVE  /\ Min(T) \in T /\ \A m \in T : Min(T) <= m
           /\ Max(T) \in T /\ \A m \in T : Max(T) >= m
<1>1. T \in SUBSET Nat /\ IsFiniteSet(T)
  BY EventsFinite, FS_Subset
<1>2. QED
  BY <1>1, MinOf, MaxOf

\* A true checkpoint stays true while the logs grow.
LEMMA CheckpointGrows ==
    ASSUME LogsTyped, LogsTyped', Grows, NEW r \in Replica, NEW c \in Checkpoint,
           CheckpointTrue(r, c)
    PROVE  CheckpointTrue(r, c)'
<1>1. /\ c.push \in Nat /\ c.before \in Nat /\ c.after \in Nat
      /\ c.phase \in {"backfill", "incremental"}
  BY CheckpointFields
<1>2. PushedTo(r, c.push)'
  <2>1. SUFFICES ASSUME NEW e \in local'[r] \ behind', e <= c.push
                 PROVE  e \in remote'
    BY DEF PushedTo
  <2>2. CASE e \in local[r]
    BY <2>1, <2>2 DEF Grows, CheckpointTrue, PushedTo
  <2>3. CASE e \notin local[r]
    <3>1. e \in Nat /\ e > 0
      BY EventsFinite DEF LogsTyped
    <3>2. c.push \in local[r]
      BY <1>1, <2>1, <3>1 DEF CheckpointTrue
    <3>3. c.push < e \/ e \in remote'
      BY <2>1, <2>3, <3>2 DEF Grows
    <3>4. QED
      BY <1>1, <2>1, <3>1, <3>3
  <2>4. QED
    BY <2>2, <2>3
<1>3. c.phase = "incremental" => c.after # 0 /\ PulledTo(r, c.after)'
  <2>1. SUFFICES ASSUME c.phase = "incremental" PROVE PulledTo(r, c.after)'
    BY DEF CheckpointTrue
  <2>2. c.after \in remote /\ PulledTo(r, c.after)
    BY <2>1 DEF CheckpointTrue
  <2>3. QED
    BY <2>2, PulledToGrows
<1>4. c.before # 0 /\ c.phase = "backfill" => PulledFrom(r, c.before, c.after)'
  <2>1. SUFFICES ASSUME c.before # 0, c.phase = "backfill"
                 PROVE  PulledFrom(r, c.before, c.after)'
    OBVIOUS
  <2>2. c.after \in remote /\ PulledFrom(r, c.before, c.after)
    BY <2>1 DEF CheckpointTrue
  <2>3. \A e \in remote \ late : c.before <= e /\ e <= c.after => e \in local[r] \cup {}
    BY <2>2 DEF PulledFrom
  <2>4. \A e \in remote' \ late' : c.before <= e /\ e <= c.after => e \in local'[r] \cup {}
    BY <1>1, <2>2, <2>3, PulledGrows
  <2>5. QED
    BY <2>4 DEF PulledFrom
<1>5. c.push \in local'[r] \cup {0} /\ c.after \in remote' \cup {0}
  BY DEF CheckpointTrue, Grows
<1>6. QED
  BY <1>2, <1>3, <1>4, <1>5 DEF CheckpointTrue

\* So does what a session in progress remembers.
LEMMA SessionGrows ==
    ASSUME LogsTyped, LogsTyped', Grows, NEW p \in Process, NEW s \in Session,
           SessionTrue(p, s)
    PROVE  SessionTrue(p, s)'
<1> DEFINE r == Home[p]
<1>1. /\ r \in Replica /\ s.saved \in Checkpoint
      /\ s.cursor \in Nat /\ s.latest \in Nat
      /\ s.queue \subseteq Event /\ s.page \subseteq Event
      /\ \A e \in Event : e \in Nat /\ e > 0
      /\ s.saved.push \in Nat
      /\ s.stage \in {"idle", "load", "append", "savePush", "fetch", "import", "savePage"}
  <2>1. r \in Replica
    BY SyncAssumption
  <2>2. \A e \in Event : e \in Nat /\ e > 0
    BY EventsFinite
  <2>3. QED
    BY <2>1, <2>2, SessionFields, CheckpointFields
<1>2. CheckpointTrue(r, s.saved)'
  BY <1>1, CheckpointGrows DEF SessionTrue
<1>3. QueueTrue(r, s) => QueueTrue(r, s)'
  <2>1. SUFFICES ASSUME QueueTrue(r, s) PROVE QueueTrue(r, s)'
    OBVIOUS
  <2>2. /\ s.queue \subseteq local'[r]
        /\ s.stage = "savePush" => s.queue # {} /\ Min(s.queue) \in remote'
    BY <1>1, <2>1 DEF QueueTrue, Grows
  <2>3. ASSUME NEW e \in local'[r] \ behind', NEW f \in s.queue, s.saved.push < e, e < f
        PROVE  e \in s.queue \cup remote'
    <3>1. CASE e \in local[r]
      BY <1>1, <2>1, <2>3, <3>1 DEF QueueTrue, Grows
    <3>2. CASE e \notin local[r]
      <4>1. f \in local[r] /\ e \in Nat /\ f \in Nat
        BY <1>1, <2>1 DEF QueueTrue, LogsTyped
      <4>2. f < e \/ e \in remote'
        BY <1>1, <2>3, <3>2, <4>1 DEF Grows
      <4>3. QED
        BY <2>3, <4>1, <4>2
    <3>3. QED
      BY <3>1, <3>2
  <2>4. QED
    BY <2>2, <2>3 DEF QueueTrue
<1>4. FetchTrue(r, s) /\ s.latest \in remote \cup {0} => FetchTrue(r, s)'
  <2>1. SUFFICES ASSUME FetchTrue(r, s), s.latest \in remote \cup {0}
                 PROVE  FetchTrue(r, s)'
    OBVIOUS
  <2>2. s.forward => s.cursor \in remote'
    BY <2>1 DEF FetchTrue, Grows
  <2>3. s.forward => PulledTo(r, s.cursor)'
    BY <1>1, <2>1, PulledToGrows DEF FetchTrue
  <2>4. ~ s.forward /\ s.cursor # 0 => PulledFrom(r, s.cursor, s.latest)'
    <3>1. SUFFICES ASSUME ~ s.forward, s.cursor # 0 PROVE PulledFrom(r, s.cursor, s.latest)'
      OBVIOUS
    <3>2. s.latest \in remote /\ PulledFrom(r, s.cursor, s.latest)
      BY <2>1, <3>1 DEF FetchTrue
    <3>3. \A e \in remote \ late : s.cursor <= e /\ e <= s.latest => e \in local[r] \cup {}
      BY <3>2 DEF PulledFrom
    <3>4. \A e \in remote' \ late' : s.cursor <= e /\ e <= s.latest => e \in local'[r] \cup {}
      BY <1>1, <3>2, <3>3, PulledGrows
    <3>5. QED
      BY <3>4 DEF PulledFrom
  <2>5. QED
    BY <2>1, <2>2, <2>3, <2>4 DEF FetchTrue
<1>5. PageTrue(r, s) /\ s.latest \in remote \cup {0} => PageTrue(r, s)'
  <2>1. SUFFICES ASSUME PageTrue(r, s), s.latest \in remote \cup {0}
                 PROVE  PageTrue(r, s)'
    OBVIOUS
  <2>2. /\ s.page # {}
        /\ s.page \subseteq remote'
        /\ ~ s.forward => s.latest # 0
    BY <2>1 DEF PageTrue, Grows
  <2>3. /\ Min(s.page) \in s.page /\ Max(s.page) \in s.page
    BY <1>1, <2>2, PageBounds
  <2>4. Min(s.page) \in Nat /\ Max(s.page) \in remote
    BY <1>1, <2>1, <2>3 DEF PageTrue
  <2>5. s.forward =>
           \A e \in remote' \ late' :
              e <= Max(s.page) => e \in local'[r] \cup (s.page \cup hidden'[r])
    <3>1. SUFFICES ASSUME s.forward
                   PROVE  \A e \in remote' \ late' : e <= Max(s.page) =>
                             e \in local'[r] \cup (s.page \cup hidden'[r])
      OBVIOUS
    <3>2. \A e \in remote \ late : 0 <= e /\ e <= Max(s.page) =>
             e \in local[r] \cup (s.page \cup hidden[r])
      BY <2>1, <3>1 DEF PageTrue
    <3>3. \A e \in remote' \ late' : 0 <= e /\ e <= Max(s.page) =>
             e \in local'[r] \cup (s.page \cup hidden[r])
      BY <1>1, <2>4, <3>2, PulledGrows
    <3>4. hidden[r] \subseteq hidden'[r]
      BY <1>1 DEF Grows
    <3>5. QED
      BY <1>1, <3>3, <3>4 DEF LogsTyped
  <2>6. ~ s.forward =>
           \A e \in remote' \ late' :
              Min(s.page) <= e /\ e <= s.latest => e \in local'[r] \cup s.page
    <3>1. SUFFICES ASSUME ~ s.forward
                   PROVE  \A e \in remote' \ late' :
                             Min(s.page) <= e /\ e <= s.latest => e \in local'[r] \cup s.page
      OBVIOUS
    <3>2. /\ s.latest \in remote
          /\ \A e \in remote \ late :
                Min(s.page) <= e /\ e <= s.latest => e \in local[r] \cup s.page
      BY <2>1, <3>1 DEF PageTrue
    <3>3. QED
      BY <1>1, <2>4, <3>2, PulledGrows
  <2>7. ~ s.forward /\ Page < Cap /\ ~ s.more =>
           \A e \in remote' \ late' : Min(s.page) <= e
    <3>1. SUFFICES ASSUME ~ s.forward, Page < Cap, ~ s.more, NEW e \in remote' \ late'
                   PROVE  Min(s.page) <= e
      OBVIOUS
    <3>2. CASE e \in remote
      BY <2>1, <3>1, <3>2 DEF PageTrue, Grows
    <3>3. CASE e \notin remote
      <4>1. Min(s.page) < e
        BY <2>1, <2>3, <3>1, <3>3 DEF PageTrue, Grows
      <4>2. QED
        BY <1>1, <2>4, <3>1, <4>1 DEF LogsTyped
    <3>4. QED
      BY <3>2, <3>3
  <2>8. QED
    BY <2>2, <2>5, <2>6, <2>7 DEF PageTrue
<1>6. /\ s.latest \in remote \cup {0} => s.latest \in remote' \cup {0}
      /\ s.page \subseteq local[r] => s.page \subseteq local'[r]
  BY <1>1 DEF Grows
<1>7. QED
  BY <1>2, <1>3, <1>4, <1>5, <1>6 DEF SessionTrue

\* Nothing that is true of the logs changes while they do not.
LEMMA Unmoved ==
    ASSUME UNCHANGED logs, NEW p \in Process, NEW r \in Replica
    PROVE  /\ \A c : CheckpointTrue(r, c) => CheckpointTrue(r, c)'
           /\ \A s : SessionTrue(p, s) => SessionTrue(p, s)'
<1>1. /\ local' = local /\ remote' = remote /\ late' = late /\ behind' = behind
      /\ hidden' = hidden
  BY DEF logs
<1>2. \A c : CheckpointTrue(r, c) => CheckpointTrue(r, c)'
  BY <1>1 DEF CheckpointTrue, PushedTo, PulledTo, PulledFrom
<1>3. \A s : SessionTrue(p, s) => SessionTrue(p, s)'
  BY <1>1 DEF SessionTrue, CheckpointTrue, PushedTo, PulledTo, PulledFrom,
              QueueTrue, FetchTrue, PageTrue
<1>4. QED
  BY <1>2, <1>3

\* Logs that do not change have grown, by nothing.
LEMMA UnmovedLogs ==
    ASSUME TypeOK, UNCHANGED logs
    PROVE  LogsTyped /\ LogsTyped' /\ Grows /\ late' \subseteq remote'
BY DEF TypeOK, LogsTyped, Grows, logs

\* The checkpoint of a repository that never synced is true.
LEMMA NothingPulled ==
    LogsTyped => \A r \in Replica : CheckpointTrue(r, NoCheckpoint)
<1>1. SUFFICES ASSUME LogsTyped, NEW r \in Replica PROVE CheckpointTrue(r, NoCheckpoint)
  OBVIOUS
<1>2. \A e \in local[r] : e \in Nat /\ e > 0
  BY <1>1, EventsFinite DEF LogsTyped
<1>3. QED
  BY <1>2 DEF CheckpointTrue, NoCheckpoint, PushedTo

\* An idle session claims nothing.
LEMMA IdleTrue ==
    LogsTyped => \A q \in Process : SessionTrue(q, Idle)
BY NothingPulled, SyncAssumption DEF SessionTrue, Idle

\* Idle sessions and fresh checkpoints are typed.
LEMMA IdleTyped == Idle \in Session /\ NoCheckpoint \in Checkpoint
BY DEF Idle, Session, NoCheckpoint, Checkpoint, Cursor

\* What is left to show of a step: the new session, and the checkpoint if it
\* is saved.
LEMMA OneSession ==
    ASSUME SyncInv, LogsTyped', Grows, late' \subseteq remote',
           NothingHidden',
           clock' \in 0..MaxClock, fails' \in 0..MaxFails,
           NEW p \in Process, NEW s \in Session,
           session' = [session EXCEPT ![p] = s], SessionTrue(p, s)',
           NEW c \in Checkpoint,
           checkpoint' = checkpoint
           \/ /\ checkpoint' = [checkpoint EXCEPT ![Home[p]] = c]
              /\ CheckpointTrue(Home[p], c)'
    PROVE  SyncInv'
<1>1. LogsTyped /\ session \in [Process -> Session] /\ checkpoint \in [Replica -> Checkpoint]
  BY DEF SyncInv, TypeOK, LogsTyped, Session
<1>2. TypeOK'
  <2>1. session' \in [Process -> Session] /\ checkpoint' \in [Replica -> Checkpoint]
    BY <1>1
  <2>2. QED
    BY <2>1 DEF TypeOK, LogsTyped, Session
<1>3. \A r \in Replica : CheckpointTrue(r, checkpoint[r])'
  <2>1. TAKE r \in Replica
  <2>2. PICK d : d = checkpoint[r]
    OBVIOUS
  <2>3. d \in Checkpoint /\ CheckpointTrue(r, d)
    BY <1>1, <2>2 DEF SyncInv
  <2>4. CheckpointTrue(r, d)'
    BY <1>1, <2>3, CheckpointGrows
  <2>5. \/ checkpoint'[r] = d
        \/ r = Home[p] /\ checkpoint'[r] = c /\ CheckpointTrue(Home[p], c)'
    BY <1>1, <2>2
  <2>6. CASE checkpoint'[r] = d
    BY <2>4, <2>6 DEF CheckpointTrue, PushedTo, PulledTo, PulledFrom
  <2>7. CASE r = Home[p] /\ checkpoint'[r] = c /\ CheckpointTrue(Home[p], c)'
    BY <2>7 DEF CheckpointTrue, PushedTo, PulledTo, PulledFrom
  <2>8. QED
    BY <2>5, <2>6, <2>7
<1>4. \A q \in Process : SessionTrue(q, session[q])'
  <2>1. TAKE q \in Process
  <2>2. PICK t : t = IF q = p THEN s ELSE session[q]
    OBVIOUS
  <2>3. SessionTrue(q, t)'
    <3>1. CASE q = p
      BY <2>2, <3>1
    <3>2. CASE q # p
      <4>1. t \in Session /\ SessionTrue(q, t)
        BY <1>1, <2>2, <3>2 DEF SyncInv
      <4>2. QED
        BY <1>1, <4>1, SessionGrows
    <3>3. QED
      BY <3>1, <3>2
  <2>4. session'[q] = t
    BY <1>1, <2>2
  <2>5. QED
    BY <2>3, <2>4 DEF SessionTrue, CheckpointTrue, PushedTo, PulledTo, PulledFrom,
                      QueueTrue, FetchTrue, PageTrue
<1>5. QED
  BY <1>2, <1>3, <1>4 DEF SyncInv

\* The invariant holds before the first sync.
LEMMA SyncInit == Init => SyncInv
<1>1. SUFFICES ASSUME Init PROVE SyncInv
  OBVIOUS
<1>2. TypeOK
  <2>1. local \in [Replica -> SUBSET Event] /\ remote \subseteq Event
        /\ late \subseteq remote /\ behind \subseteq Event
        /\ hidden \in [Replica -> SUBSET Event]
    BY <1>1 DEF Init
  <2>2. clock \in 0..MaxClock /\ fails \in 0..MaxFails
    BY <1>1, SyncAssumption DEF Init
  <2>3. checkpoint \in [Replica -> Checkpoint] /\ session \in [Process -> Session]
    BY <1>1, IdleTyped DEF Init
  <2>4. QED
    BY <2>1, <2>2, <2>3 DEF TypeOK, Session
<1>3. LogsTyped
  BY <1>2 DEF TypeOK, LogsTyped
<1>4. NothingHidden
  BY <1>1 DEF Init, NothingHidden
<1>5. QED
  BY <1>1, <1>2, <1>3, <1>4, NothingPulled, IdleTrue DEF SyncInv, Init

(***************************************************************************)
(* The steps.                                                              *)
(***************************************************************************)
\* What every step of a process starts from.
LEMMA Before ==
    ASSUME SyncInv, NEW p \in Process
    PROVE  /\ Home[p] \in Replica /\ session[p] \in Session
           /\ checkpoint[Home[p]] \in Checkpoint
           /\ CheckpointTrue(Home[p], checkpoint[Home[p]])
           /\ SessionTrue(p, session[p])
           /\ LogsTyped /\ TypeOK
BY SyncAssumption DEF SyncInv, TypeOK, Session, LogsTyped

\* A step that changes nothing but the session.
LEMMA OnlySession ==
    ASSUME SyncInv, NEW p \in Process, NEW s \in Session, SessionTrue(p, s), Go(p, s),
           UNCHANGED <<clock, logs, checkpoint>>, fails' \in 0..MaxFails
    PROVE  SyncInv'
<1>1. LogsTyped' /\ Grows /\ late' \subseteq remote' /\ UNCHANGED logs /\ Home[p] \in Replica
  BY Before, UnmovedLogs
<1>2. SessionTrue(p, s)'
  BY <1>1, Unmoved
<1>3. clock' \in 0..MaxClock /\ checkpoint' = checkpoint /\ NoCheckpoint \in Checkpoint
  BY IdleTyped DEF SyncInv, TypeOK
<1>4. session' = [session EXCEPT ![p] = s]
  BY DEF Go
<1>5. NothingHidden'
  BY <1>1 DEF logs, SyncInv, NothingHidden
<1>6. QED
  BY <1>1, <1>2, <1>3, <1>4, <1>5, OneSession

\* A command records an event locally.
LEMMA RecordStep ==
    ASSUME SyncInv, NEW r \in Replica, Record(r)
    PROVE  SyncInv'
<1>1. PICK e : e = Stamp(r, clock + 1)
  OBVIOUS
<1>2. e \in Event /\ clock' \in 0..MaxClock
  <2>1. clock + 1 \in 1..MaxClock
    BY SyncAssumption DEF SyncInv, TypeOK, Record
  <2>2. QED
    BY <1>1, <2>1, EventsFinite DEF Record
<1>3. /\ local' = [local EXCEPT ![r] = @ \cup {e}]
      /\ behind' = IF \E f \in local[r] : f > e THEN behind \cup {e} ELSE behind
      /\ remote' = remote /\ late' = late /\ checkpoint' = checkpoint
      /\ session' = session /\ fails' = fails /\ hidden' = hidden
  BY <1>1 DEF Record
<1>4. LogsTyped /\ LogsTyped'
  BY <1>2, <1>3 DEF SyncInv, TypeOK, LogsTyped
<1>5. Grows
  <2>1. ASSUME NEW q \in Replica, NEW d \in local'[q] \ local[q]
        PROVE  d \in remote' \/ d \in behind' \/ \A f \in local[q] : f < d
    <3>1. q = r /\ d = e
      BY <1>3, <1>4, <2>1 DEF LogsTyped
    <3>2. CASE \E f \in local[r] : f > e
      BY <1>3, <3>1, <3>2
    <3>3. CASE ~ \E f \in local[r] : f > e
      <4>1. \A f \in local[r] : f \in Nat /\ e \in Nat /\ f # e
        BY <1>2, <1>4, <2>1, <3>1, EventsFinite DEF LogsTyped
      <4>2. QED
        BY <3>1, <3>3, <4>1
    <3>4. QED
      BY <3>2, <3>3
  <2>2. \A q \in Replica : local[q] \subseteq local'[q]
    BY <1>3, <1>4 DEF LogsTyped
  <2>3. QED
    BY <1>3, <2>1, <2>2 DEF Grows
<1>6. TypeOK'
  BY <1>2, <1>3, <1>4 DEF SyncInv, TypeOK, LogsTyped
<1>7. \A q \in Replica : CheckpointTrue(q, checkpoint[q])'
  <2>1. TAKE q \in Replica
  <2>2. PICK c : c = checkpoint[q]
    OBVIOUS
  <2>3. c \in Checkpoint /\ CheckpointTrue(q, c)
    BY <2>2 DEF SyncInv, TypeOK
  <2>4. CheckpointTrue(q, c)'
    BY <1>4, <1>5, <2>3, CheckpointGrows
  <2>5. QED
    BY <1>3, <2>2, <2>4 DEF CheckpointTrue, PushedTo, PulledTo, PulledFrom
<1>8. \A p \in Process : SessionTrue(p, session[p])'
  <2>1. TAKE p \in Process
  <2>2. PICK s : s = session[p]
    OBVIOUS
  <2>3. s \in Session /\ SessionTrue(p, s)
    BY <2>2, Before
  <2>4. SessionTrue(p, s)'
    BY <1>4, <1>5, <2>3, SessionGrows
  <2>5. QED
    BY <1>3, <2>2, <2>4 DEF SessionTrue, CheckpointTrue, PushedTo, PulledTo, PulledFrom,
                            QueueTrue, FetchTrue, PageTrue
<1>9. NothingHidden'
  BY <1>3 DEF SyncInv, NothingHidden
<1>10. QED
  BY <1>6, <1>7, <1>8, <1>9 DEF SyncInv

\* A sync begins with the push.
LEMMA BeginPushStep ==
    ASSUME SyncInv, NEW p \in Process, NEW thenPull \in BOOLEAN, BeginPush(p, thenPull)
    PROVE  SyncInv'
<1>1. PICK queue : queue = local[Home[p]]
  OBVIOUS
<1>2. PICK s : s = [Idle EXCEPT !.stage = "load", !.thenPull = thenPull, !.queue = queue]
  OBVIOUS
<1>3. /\ s.stage = "load" /\ s.saved = NoCheckpoint /\ s.queue = queue
      /\ s = [stage |-> "load", thenPull |-> thenPull, queue |-> queue, forward |-> FALSE,
              cursor |-> 0, latest |-> 0, page |-> {}, more |-> FALSE, saved |-> NoCheckpoint]
  BY <1>2 DEF Idle
<1>4. queue \subseteq Event /\ CheckpointTrue(Home[p], NoCheckpoint)
  BY <1>1, Before, NothingPulled DEF LogsTyped
<1>5. s \in Session
  BY <1>3, <1>4, IdleTyped DEF Session, Cursor
<1>6. QueueTrue(Home[p], s) /\ s.saved.push = 0
  BY <1>1, <1>3 DEF QueueTrue, NoCheckpoint
<1>7. SessionTrue(p, s)
  BY <1>3, <1>4, <1>6 DEF SessionTrue
<1>8. Go(p, s) /\ UNCHANGED <<clock, logs, checkpoint>> /\ fails' \in 0..MaxFails
  BY <1>1, <1>2 DEF BeginPush, SyncInv, TypeOK
<1>9. QED
  BY <1>5, <1>7, <1>8, OnlySession

\* What was listed and is after the saved cursor will be pushed.
LEMMA LoadPushStep ==
    ASSUME SyncInv, NEW p \in Process, LoadPush(p)
    PROVE  SyncInv'
<1> DEFINE r == Home[p]
<1>1. PICK t : t = session[p]
  OBVIOUS
<1>2. PICK c : c = checkpoint[r]
  OBVIOUS
<1>3. PICK queue : queue = {e \in t.queue : e > c.push}
  OBVIOUS
<1>4. PICK s : s = [t EXCEPT !.stage = "append", !.saved = c, !.queue = queue]
  OBVIOUS
<1>5. /\ t \in Session /\ SessionTrue(p, t) /\ t.stage = "load" /\ r \in Replica /\ LogsTyped
      /\ c \in Checkpoint /\ CheckpointTrue(r, c) /\ c.push \in Nat
  BY <1>1, <1>2, Before, CheckpointFields DEF LoadPush
<1>6. QueueTrue(r, t) /\ t.saved.push = 0
  BY <1>5 DEF SessionTrue
<1>7. s \in Session /\ s.stage = "append" /\ s.saved = c /\ s.queue = queue
  BY <1>3, <1>4, <1>5 DEF Session
<1>8. QueueTrue(r, s)
  <2>1. ASSUME NEW e \in local[r] \ behind, NEW f \in s.queue, s.saved.push < e, e < f
        PROVE  e \in s.queue \cup remote
    <3>1. e \in Nat /\ e > 0
      <4>1. e \in Event
        BY <1>5, <2>1 DEF LogsTyped
      <4>2. QED
        BY <4>1, EventsFinite
    <3>2. e \in t.queue \cup remote
      BY <1>3, <1>6, <1>7, <2>1, <3>1 DEF QueueTrue
    <3>3. QED
      BY <1>3, <1>5, <1>7, <2>1, <3>1, <3>2
  <2>2. s.queue \subseteq local[r]
    BY <1>3, <1>6, <1>7 DEF QueueTrue
  <2>3. QED
    BY <1>7, <2>1, <2>2 DEF QueueTrue
<1>9. SessionTrue(p, s)
  BY <1>5, <1>7, <1>8 DEF SessionTrue
<1>10. Go(p, s) /\ UNCHANGED <<clock, logs, checkpoint>> /\ fails' \in 0..MaxFails
  BY <1>1, <1>2, <1>3, <1>4 DEF LoadPush, SyncInv, TypeOK
<1>11. QED
  BY <1>7, <1>9, <1>10, OnlySession

\* The next event of the queue reaches the gateway.
LEMMA AppendEventStep ==
    ASSUME SyncInv, NEW p \in Process, AppendEvent(p)
    PROVE  SyncInv'
<1>1. PICK t : t = session[p]
  OBVIOUS
<1>2. /\ t \in Session /\ t.stage = "append" /\ t.queue # {} /\ Upload(Min(t.queue))
      /\ Go(p, [t EXCEPT !.stage = "savePush"])
      /\ clock' = clock /\ local' = local /\ behind' = behind /\ hidden' = hidden
      /\ checkpoint' = checkpoint /\ fails' = fails
  BY <1>1, Before DEF AppendEvent
<1>3. PICK e : e = Min(t.queue)
  OBVIOUS
<1>4. e \in t.queue /\ e \in Event
  BY <1>2, <1>3, SessionFields, PageBounds
<1>5. /\ remote' = remote \cup {e}
      /\ late' = IF e \notin remote /\ \E f \in remote : f > e
                 THEN late \cup {e} ELSE late
  BY <1>2, <1>3 DEF Upload
<1>6. LogsTyped /\ LogsTyped' /\ late' \subseteq remote'
  BY <1>2, <1>4, <1>5 DEF SyncInv, TypeOK, LogsTyped
<1>7. Grows
  <2>1. ASSUME NEW d \in remote' \ remote
        PROVE  d \in late' \/ \A f \in remote : f < d
    <3>1. d = e /\ e \notin remote
      BY <1>5, <2>1
    <3>2. \A f \in remote : f \in Nat /\ e \in Nat /\ f # e
      BY <1>4, <1>6, <3>1, EventsFinite DEF LogsTyped
    <3>3. QED
      BY <1>5, <3>1, <3>2
  <2>2. QED
    BY <1>2, <1>5, <2>1 DEF Grows
<1>8. PICK s : s = [t EXCEPT !.stage = "savePush"]
  OBVIOUS
<1>9. /\ s \in Session /\ s.stage = "savePush" /\ s.queue = t.queue /\ s.saved = t.saved
  BY <1>2, <1>8 DEF Session
<1>10. SessionTrue(p, s)'
  <2>1. SessionTrue(p, t)'
    BY <1>1, <1>2, <1>6, <1>7, Before, SessionGrows
  <2>2. CheckpointTrue(Home[p], t.saved)' /\ QueueTrue(Home[p], t)'
    BY <1>2, <2>1 DEF SessionTrue
  <2>3. Min(s.queue) \in remote' /\ s.queue # {}
    BY <1>2, <1>3, <1>5, <1>9
  <2>4. QueueTrue(Home[p], s)'
    BY <1>9, <2>2, <2>3 DEF QueueTrue
  <2>5. CheckpointTrue(Home[p], s.saved)'
    BY <1>9, <2>2
  <2>6. QED
    BY <1>9, <2>4, <2>5 DEF SessionTrue
<1>11. session' = [session EXCEPT ![p] = s] /\ clock' \in 0..MaxClock
       /\ fails' \in 0..MaxFails /\ NoCheckpoint \in Checkpoint
  BY <1>2, <1>8, IdleTyped DEF Go, SyncInv, TypeOK
<1>12. NothingHidden'
  BY <1>2 DEF SyncInv, NothingHidden
<1>13. QED
  BY <1>2, <1>6, <1>7, <1>9, <1>10, <1>11, <1>12, OneSession

\* A lost answer: the same event is sent again.
LEMMA RetryStep ==
    ASSUME SyncInv, NEW p \in Process, Retry(p)
    PROVE  SyncInv'
<1>1. PICK t : t = session[p]
  OBVIOUS
<1>2. t \in Session /\ SessionTrue(p, t) /\ t.stage = "savePush"
  BY <1>1, Before DEF Retry
<1>3. PICK s : s = [t EXCEPT !.stage = "append"]
  OBVIOUS
<1>4. s \in Session /\ s.stage = "append" /\ s.queue = t.queue /\ s.saved = t.saved
  BY <1>2, <1>3 DEF Session
<1>5. SessionTrue(p, s)
  BY <1>2, <1>4 DEF SessionTrue, QueueTrue
<1>6. Go(p, s) /\ UNCHANGED <<clock, logs, checkpoint>>
  BY <1>1, <1>3 DEF Retry
<1>7. fails' \in 0..MaxFails
  BY SyncAssumption DEF Retry, SyncInv, TypeOK
<1>8. QED
  BY <1>4, <1>5, <1>6, <1>7, OnlySession

\* A save writes a checkpoint that is true, and goes on with it.
LEMMA SavedSession ==
    ASSUME SyncInv, NEW p \in Process, NEW t \in Session, NEW c \in Checkpoint,
           Save(p, t, c), CheckpointTrue(Home[p], c)', UNCHANGED <<clock, fails>>,
           LogsTyped', Grows, late' \subseteq remote', NothingHidden',
           NEW s \in Session, SessionTrue(p, s)',
           s = [t EXCEPT !.saved = IF t.stage = "idle" THEN NoCheckpoint ELSE c]
    PROVE  SyncInv'
<1>1. clock' \in 0..MaxClock /\ fails' \in 0..MaxFails
  BY DEF SyncInv, TypeOK
<1>2. session' = [session EXCEPT ![p] = s] /\ checkpoint' = [checkpoint EXCEPT ![Home[p]] = c]
  BY DEF Go, Save
<1>3. QED
  BY <1>1, <1>2, OneSession

\* The push cursor is saved.
LEMMA SavePushStep ==
    ASSUME SyncInv, NEW p \in Process, SavePush(p)
    PROVE  SyncInv'
<1> DEFINE r == Home[p]
<1>1. PICK t : t = session[p]
  OBVIOUS
<1>2. t \in Session /\ SessionTrue(p, t) /\ t.stage = "savePush" /\ r \in Replica /\ LogsTyped
  BY <1>1, Before DEF SavePush
<1>3. QueueTrue(r, t) /\ t.queue # {} /\ Min(t.queue) \in remote /\ CheckpointTrue(r, t.saved)
  BY <1>2 DEF SessionTrue, QueueTrue
<1>4. PICK e : e = Min(t.queue)
  OBVIOUS
<1>5. e \in t.queue /\ e \in Event /\ e \in remote /\ \A f \in t.queue : e <= f
  BY <1>2, <1>3, <1>4, SessionFields, PageBounds
<1>6. PICK c : c = [t.saved EXCEPT !.push = e]
  OBVIOUS
<1>7. /\ c \in Checkpoint /\ c.push = e /\ c.phase = t.saved.phase
      /\ c.before = t.saved.before /\ c.after = t.saved.after
  BY <1>2, <1>5, <1>6 DEF Session, Checkpoint, Cursor
<1>8. CheckpointTrue(r, c)
  <2>1. e \in local[r]
    BY <1>3, <1>5 DEF QueueTrue
  <2>2. ASSUME NEW d \in local[r] \ behind, d <= e
        PROVE  d \in remote
    <3>1. d \in Nat /\ e \in Nat /\ t.saved.push \in Nat
      BY <1>2, <1>5, EventsFinite, SessionFields, CheckpointFields DEF LogsTyped
    <3>2. CASE d <= t.saved.push
      BY <1>3, <2>2, <3>2 DEF CheckpointTrue, PushedTo
    <3>3. CASE t.saved.push < d /\ d < e
      <4>1. d \in t.queue \cup remote
        BY <1>3, <1>5, <2>2, <3>3 DEF QueueTrue
      <4>2. ~ (e <= d)
        BY <3>1, <3>3
      <4>3. QED
        BY <1>5, <4>1, <4>2
    <3>4. CASE d = e
      BY <1>5, <3>4
    <3>5. QED
      BY <2>2, <3>1, <3>2, <3>3, <3>4
  <2>3. PushedTo(r, c.push)
    BY <1>7, <2>2 DEF PushedTo
  <2>4. QED
    BY <1>3, <1>7, <2>1, <2>3 DEF CheckpointTrue
<1>9. PICK u : u = [t EXCEPT !.stage = "append", !.queue = @ \ {e}]
  OBVIOUS
<1>10. u \in Session /\ u.stage = "append" /\ u.queue = t.queue \ {e}
  BY <1>2, <1>9 DEF Session
<1>11. PICK s : s = [u EXCEPT !.saved = IF u.stage = "idle" THEN NoCheckpoint ELSE c]
  OBVIOUS
<1>12. s \in Session /\ s.stage = "append" /\ s.queue = t.queue \ {e} /\ s.saved = c
  BY <1>7, <1>10, <1>11 DEF Session
<1>13. QueueTrue(r, s)
  <2>1. ASSUME NEW d \in local[r] \ behind, NEW f \in s.queue, s.saved.push < d, d < f
        PROVE  d \in s.queue \cup remote
    <3>1. d \in Nat /\ e \in Nat /\ t.saved.push \in Nat
      BY <1>2, <1>5, EventsFinite, SessionFields, CheckpointFields DEF LogsTyped
    <3>2. e < d
      BY <1>7, <1>12, <2>1
    <3>3. CASE d <= t.saved.push
      BY <1>3, <2>1, <3>3 DEF CheckpointTrue, PushedTo
    <3>4. CASE t.saved.push < d
      <4>1. d \in t.queue \cup remote
        BY <1>3, <1>12, <2>1, <3>4 DEF QueueTrue
      <4>2. QED
        BY <1>12, <3>1, <3>2, <4>1
    <3>5. QED
      BY <3>1, <3>3, <3>4
  <2>2. s.queue \subseteq local[r]
    BY <1>3, <1>12 DEF QueueTrue
  <2>3. QED
    BY <1>12, <2>1, <2>2 DEF QueueTrue
<1>14. SessionTrue(p, s)
  BY <1>8, <1>12, <1>13 DEF SessionTrue
<1>15. Save(p, u, c) /\ UNCHANGED <<clock, logs, fails>>
  BY <1>1, <1>4, <1>6, <1>9 DEF SavePush
<1>16. LogsTyped' /\ Grows /\ late' \subseteq remote' /\ NothingHidden'
  BY <1>15, Before, UnmovedLogs DEF logs, SyncInv, NothingHidden
<1>17. SessionTrue(p, s)' /\ CheckpointTrue(r, c)'
  BY <1>2, <1>8, <1>14, <1>15, Unmoved
<1>18. QED
  BY <1>7, <1>10, <1>11, <1>12, <1>15, <1>16, <1>17, SavedSession

\* The session with which a pull starts is true of the checkpoint it read.
LEMMA PullStarts ==
    ASSUME SyncInv, NEW p \in Process
    PROVE  StartOfPull(p) \in Session /\ SessionTrue(p, StartOfPull(p))
<1> DEFINE r == Home[p]
<1>1. PICK c : c = checkpoint[r]
  OBVIOUS
<1>2. c \in Checkpoint /\ CheckpointTrue(r, c) /\ r \in Replica
  BY <1>1, Before
<1>3. PICK forward : forward = (c.phase = "incremental" /\ c.after # 0)
  OBVIOUS
<1>4. PICK s : s = StartOfPull(p)
  OBVIOUS
<1>5. s = [Idle EXCEPT !.stage = "fetch", !.forward = forward, !.saved = c,
                       !.cursor = IF forward THEN c.after ELSE c.before,
                       !.latest = c.after]
  BY <1>1, <1>3, <1>4 DEF StartOfPull
<1>6. s = [stage |-> "fetch", thenPull |-> FALSE, queue |-> {}, forward |-> forward,
           cursor |-> IF forward THEN c.after ELSE c.before, latest |-> c.after,
           page |-> {}, more |-> FALSE, saved |-> c]
  BY <1>5 DEF Idle
<1>7. s \in Session
  BY <1>2, <1>3, <1>6, CheckpointFields DEF Session
<1>8. forward <=> c.phase = "incremental"
  BY <1>2, <1>3 DEF CheckpointTrue
<1>9. FetchTrue(r, s)
  <2>1. CASE forward
    BY <1>2, <1>6, <1>8, <2>1 DEF FetchTrue, CheckpointTrue
  <2>2. CASE ~ forward
    <3>1. c.phase = "backfill"
      BY <1>2, <1>8, <2>2, CheckpointFields
    <3>2. QED
      BY <1>2, <1>6, <2>2, <3>1 DEF FetchTrue, CheckpointTrue
  <2>3. QED
    BY <2>1, <2>2
<1>10. c.after \in remote \cup {0}
  BY <1>2 DEF CheckpointTrue
<1>11. SessionTrue(p, s)
  BY <1>2, <1>6, <1>8, <1>9, <1>10 DEF SessionTrue
<1>12. QED
  BY <1>4, <1>7, <1>11

\* A push without a pull ends.
LEMMA EndPushStep ==
    ASSUME SyncInv, NEW p \in Process, EndPush(p)
    PROVE  SyncInv'
<1>1. PICK s : s = IF session[p].thenPull THEN StartOfPull(p) ELSE Idle
  OBVIOUS
<1>2. s \in Session /\ SessionTrue(p, s)
  BY <1>1, Before, PullStarts, IdleTrue, IdleTyped
<1>3. Go(p, s) /\ UNCHANGED <<clock, logs, checkpoint>> /\ fails' \in 0..MaxFails
  BY <1>1 DEF EndPush, SyncInv, TypeOK
<1>4. QED
  BY <1>2, <1>3, OnlySession

\* A pull of its own begins.
LEMMA BeginPullStep ==
    ASSUME SyncInv, NEW p \in Process, BeginPull(p)
    PROVE  SyncInv'
<1>1. PICK s : s = StartOfPull(p)
  OBVIOUS
<1>2. s \in Session /\ SessionTrue(p, s)
  BY <1>1, PullStarts
<1>3. Go(p, s) /\ UNCHANGED <<clock, logs, checkpoint>> /\ fails' \in 0..MaxFails
  BY <1>1 DEF BeginPull, SyncInv, TypeOK
<1>4. QED
  BY <1>2, <1>3, OnlySession

\* A listing that is not cut is the whole log.
LEMMA NewestAll ==
    ASSUME NEW S \in SUBSET Nat, IsFiniteSet(S), NEW n \in Nat, Cardinality(S) <= n
    PROVE  Newest(S, n) = S
<1>1. ASSUME NEW e \in S
      PROVE  Cardinality({f \in S : f > e}) < n
  <2>1. e \in Nat /\ ~ (e > e)
    OBVIOUS
  <2>2. PICK T : T = {f \in S : f > e}
    OBVIOUS
  <2>3. T \in SUBSET S /\ T # S
    BY <2>1, <2>2
  <2>4. /\ Cardinality(T) <= Cardinality(S)
        /\ Cardinality(S) = Cardinality(T) => S = T
        /\ IsFiniteSet(T)
    BY <2>3, FS_Subset
  <2>5. Cardinality(S) \in Nat /\ Cardinality(T) \in Nat
    BY <2>4, FS_CardinalityType
  <2>6. QED
    BY <2>2, <2>3, <2>4, <2>5
<1>2. QED
  BY <1>1 DEF Newest

\* What a page holds of what the gateway has on its side of the cursor.
LEMMA PageListed ==
    ASSUME LogsTyped, NEW forward \in BOOLEAN, NEW cursor \in Cursor,
           NEW got, got = ListedPage(forward, cursor)
    PROVE  /\ got.events \subseteq remote /\ got.more \in BOOLEAN
           /\ forward => \A d \in remote, e \in got.events :
                            cursor < d /\ d <= e => d \in got.events
           /\ ~ forward => \A d \in got.events, e \in remote :
                            (cursor = 0 \/ e < cursor) /\ d <= e => e \in got.events
           /\ ~ forward /\ ~ got.more /\ Page < Cap => \A e \in remote :
                            cursor = 0 \/ e < cursor => e \in got.events
<1>1. PICK n : n = Min({Page + 1, Cap})
  OBVIOUS
<1>2. n \in Nat /\ Page \in Nat /\ (Page < Cap => n = Page + 1)
  <2>1. Page \in Nat /\ Page + 1 \in Nat /\ Cap \in Nat
    BY SyncAssumption
  <2>2. n \in {Page + 1, Cap} /\ \A m \in {Page + 1, Cap} : n <= m
    BY <1>1, <2>1, MinOf
  <2>3. QED
    BY <2>1, <2>2
<1>3. PICK S : S = IF forward THEN {e \in remote : e > cursor}
                   ELSE {e \in remote : cursor = 0 \/ e < cursor}
  OBVIOUS
<1>4. S \subseteq remote /\ S \in SUBSET Nat /\ IsFiniteSet(S)
  <2>1. S \subseteq remote
    BY <1>3
  <2>2. QED
    BY <2>1, EventsFinite, FS_Subset DEF LogsTyped
<1>5. PICK rows : rows = Rows(forward, cursor, n)
  OBVIOUS
<1>6. rows = IF forward THEN Oldest(S, n) ELSE Newest(S, n)
  BY <1>3, <1>5 DEF Rows
<1>7. /\ got.events = IF forward THEN Oldest(rows, Page) ELSE Newest(rows, Page)
      /\ got.more = (Cardinality(rows) > Page)
  BY <1>1, <1>5 DEF ListedPage
<1>8. rows \subseteq S /\ rows \in SUBSET Nat /\ IsFiniteSet(rows)
  <2>1. rows \subseteq S
    BY <1>2, <1>4, <1>6, NewestOf, OldestOf
  <2>2. QED
    BY <1>4, <2>1, FS_Subset
<1>9. got.events \subseteq rows /\ got.more \in BOOLEAN
  <2>1. Oldest(rows, Page) \subseteq rows /\ Newest(rows, Page) \subseteq rows
    BY <1>2, <1>8, NewestOf, OldestOf
  <2>2. got.more \in BOOLEAN
    <3>1. Cardinality(rows) \in Nat
      BY <1>8, FS_CardinalityType
    <3>2. CASE Cardinality(rows) > Page
      BY <1>2, <1>7, <3>1, <3>2
    <3>3. CASE ~ (Cardinality(rows) > Page)
      BY <1>2, <1>7, <3>1, <3>3
    <3>4. QED
      BY <3>2, <3>3
  <2>3. QED
    BY <1>7, <2>1, <2>2
<1>10. ASSUME forward, NEW d \in remote, NEW e \in got.events, cursor < d, d <= e
       PROVE  d \in got.events
  <2>1. d \in Nat /\ cursor \in Nat
    BY EventsFinite DEF LogsTyped, Cursor
  <2>2. d \in S
    BY <1>3, <1>10, <2>1
  <2>3. e \in rows /\ e \in Oldest(S, n)
    BY <1>6, <1>9, <1>10
  <2>4. d \in rows
    BY <1>2, <1>4, <1>6, <1>10, <2>2, <2>3, OldestOf
  <2>5. QED
    BY <1>2, <1>7, <1>8, <1>10, <2>4, OldestOf
<1>11. ASSUME ~ forward, NEW d \in got.events, NEW e \in remote,
              cursor = 0 \/ e < cursor, d <= e
       PROVE  e \in got.events
  <2>1. e \in S
    BY <1>3, <1>11
  <2>2. d \in rows /\ d \in Newest(S, n)
    BY <1>6, <1>9, <1>11
  <2>3. e \in rows
    BY <1>2, <1>4, <1>6, <1>11, <2>1, <2>2, NewestOf
  <2>4. QED
    BY <1>2, <1>7, <1>8, <1>11, <2>3, NewestOf
<1>12. ASSUME ~ forward, ~ got.more, Page < Cap, NEW e \in remote, cursor = 0 \/ e < cursor
       PROVE  e \in got.events
  <2>1. Cardinality(rows) \in Nat
    BY <1>8, FS_CardinalityType
  <2>2. Cardinality(rows) <= Page
    <3>1. ~ (Cardinality(rows) > Page)
      BY <1>7, <1>12, Zenon
    <3>2. QED
      BY <1>2, <2>1, <3>1
  <2>3. rows = S
    <3>1. Cardinality(Newest(S, n)) < n
      BY <1>2, <1>6, <1>12, <2>1, <2>2
    <3>2. QED
      BY <1>2, <1>4, <1>6, <1>12, <3>1, NewestOf
  <2>4. got.events = rows
    BY <1>2, <1>7, <1>8, <1>12, <2>2, NewestAll
  <2>5. QED
    BY <1>3, <1>12, <2>3, <2>4
<1>13. QED
  BY <1>4, <1>8, <1>9, <1>10, <1>11, <1>12

\* A page of a backfill is older than its cursor.
LEMMA PageBehind ==
    ASSUME NEW cursor, cursor # 0
    PROVE  \A e \in ListedPage(FALSE, cursor).events : e < cursor
BY DEF ListedPage, Rows, Newest

\* A page is fetched.
LEMMA FetchStep ==
    ASSUME SyncInv, NEW p \in Process, Fetch(p)
    PROVE  SyncInv'
<1> DEFINE r == Home[p]
<1>1. PICK t : t = session[p]
  OBVIOUS
<1>2. PICK got : got = ListedPage(t.forward, t.cursor)
  OBVIOUS
<1>3. PICK s : s = IF got.events = {} THEN Idle
                   ELSE [t EXCEPT !.stage = "import", !.page = got.events, !.more = got.more,
                                  !.latest = IF @ = 0 THEN Max(got.events) ELSE @]
  OBVIOUS
<1>4. t \in Session /\ SessionTrue(p, t) /\ t.stage = "fetch" /\ r \in Replica /\ LogsTyped
  BY <1>1, Before DEF Fetch
<1>5. /\ FetchTrue(r, t) /\ CheckpointTrue(r, t.saved)
      /\ t.forward <=> t.saved.phase = "incremental"
      /\ t.latest \in remote \cup {0}
  BY <1>4 DEF SessionTrue
<1>6. Go(p, s) /\ UNCHANGED <<clock, logs, checkpoint>> /\ fails' \in 0..MaxFails
  BY <1>1, <1>2, <1>3 DEF Fetch, SyncInv, TypeOK
<1>7. CASE got.events = {}
  BY <1>3, <1>4, <1>6, <1>7, IdleTrue, IdleTyped, OnlySession
<1>8. CASE got.events # {}
  <2>1. /\ t.forward \in BOOLEAN /\ t.cursor \in Cursor /\ t.cursor \in Nat
        /\ t.latest \in Cursor /\ t.latest \in Nat /\ t.saved \in Checkpoint
    BY <1>4, SessionFields
  <2>2. got.events \subseteq remote /\ got.more \in BOOLEAN
    BY <1>2, <1>4, <2>1, PageListed
  <2>3. got.events \in SUBSET Event /\ \A e \in remote : e \in Nat /\ e > 0
    <3>1. remote \subseteq Event /\ got.events \subseteq Event
      BY <1>4, <2>2 DEF LogsTyped
    <3>2. \A e \in Event : e \in Nat /\ e > 0
      BY EventsFinite
    <3>3. QED
      BY <3>1, <3>2
  <2>4. PICK lo, hi : lo = Min(got.events) /\ hi = Max(got.events)
    OBVIOUS
  <2>5. /\ lo \in got.events /\ hi \in got.events /\ lo \in remote /\ hi \in remote
        /\ lo \in Nat /\ hi \in Nat /\ hi > 0
        /\ \A e \in got.events : lo <= e /\ hi >= e
    BY <1>8, <2>2, <2>3, <2>4, PageBounds
  <2>6. PICK top : top = IF t.latest = 0 THEN hi ELSE t.latest
    OBVIOUS
  <2>7. top \in remote /\ top \in Nat /\ top # 0 /\ top \in Cursor
    BY <1>5, <2>1, <2>3, <2>5, <2>6 DEF Cursor
  <2>8. s = [t EXCEPT !.stage = "import", !.page = got.events, !.more = got.more, !.latest = top]
    BY <1>3, <1>4, <1>8, <2>4, <2>6 DEF Session
  <2>9. s \in Session
    BY <1>4, <2>2, <2>3, <2>7, <2>8 DEF Session
  <2>10. /\ s.stage = "import" /\ s.page = got.events /\ s.more = got.more /\ s.latest = top
         /\ s.saved = t.saved /\ s.forward = t.forward
    BY <1>4, <2>8 DEF Session
  <2>11. ASSUME t.forward, NEW e \in remote \ late, e <= hi
         PROVE  e \in local[r] \cup (got.events \cup hidden[r])
    <3>1. CASE e <= t.cursor
      <4>1. PulledTo(r, t.cursor)
        BY <1>5, <2>11 DEF FetchTrue
      <4>2. e \in local[r] \cup hidden[r]
        BY <2>11, <3>1, <4>1 DEF PulledTo
      <4>3. QED
        BY <4>2
    <3>2. CASE t.cursor < e
      <4>1. \A d \in remote, f \in got.events : t.cursor < d /\ d <= f => d \in got.events
        BY <1>2, <1>4, <2>1, <2>11, PageListed
      <4>2. e \in got.events
        BY <2>5, <2>11, <3>2, <4>1
      <4>3. QED
        BY <4>2
    <3>3. QED
      BY <2>1, <2>3, <3>1, <3>2
  <2>12. ASSUME ~ t.forward, NEW e \in remote \ late, lo <= e, e <= top
         PROVE  e \in local[r] \cup got.events
    <3>1. CASE t.cursor = 0 \/ e < t.cursor
      BY <1>2, <1>4, <2>1, <2>5, <2>12, <3>1, PageListed
    <3>2. CASE t.cursor # 0 /\ t.cursor <= e
      <4>1. PulledFrom(r, t.cursor, t.latest) /\ t.latest # 0
        BY <1>5, <2>12, <3>2 DEF FetchTrue
      <4>2. QED
        BY <2>6, <2>12, <3>2, <4>1 DEF PulledFrom
    <3>3. QED
      BY <2>1, <2>3, <3>1, <3>2
  <2>13. ASSUME ~ t.forward, Page < Cap, ~ got.more, NEW e \in remote \ late
         PROVE  lo <= e
    <3>1. CASE t.cursor = 0 \/ e < t.cursor
      BY <1>2, <1>4, <2>1, <2>5, <2>13, <3>1, PageListed
    <3>2. CASE t.cursor # 0 /\ t.cursor <= e
      <4>1. lo < t.cursor
        <5>1. t.forward = FALSE
          BY <2>1, <2>13
        <5>2. got = ListedPage(FALSE, t.cursor)
          BY <1>2, <5>1
        <5>3. QED
          BY <2>5, <3>2, <5>2, PageBehind
      <4>2. QED
        BY <2>1, <2>3, <2>5, <3>2, <4>1
    <3>3. QED
      BY <2>1, <2>3, <3>1, <3>2
  <2>14. PageTrue(r, s)
    BY <1>8, <2>2, <2>4, <2>7, <2>10, <2>11, <2>12, <2>13 DEF PageTrue
  <2>15. SessionTrue(p, s)
    BY <1>5, <2>7, <2>10, <2>14 DEF SessionTrue
  <2>16. QED
    BY <1>6, <2>9, <2>15, OnlySession
<1>9. QED
  BY <1>7, <1>8

\* Events of the gateway are stored in a repository: a page, or a part of it.
LEMMA StoredGrows ==
    ASSUME SyncInv, NEW r \in Replica, NEW S \in SUBSET remote,
           local' = [local EXCEPT ![r] = @ \cup S],
           UNCHANGED <<remote, late, behind, hidden>>
    PROVE  /\ LogsTyped /\ LogsTyped' /\ Grows /\ NothingHidden' /\ late' \subseteq remote'
           /\ local'[r] = local[r] \cup S
<1>1. remote \subseteq Event /\ LogsTyped /\ late \subseteq remote
  BY DEF SyncInv, TypeOK, LogsTyped
<1>2. LogsTyped'
  BY <1>1 DEF LogsTyped
<1>3. \A q \in Replica : local'[q] = IF q = r THEN local[q] \cup S ELSE local[q]
  BY <1>1 DEF LogsTyped
<1>4. Grows
  BY <1>1, <1>3 DEF Grows
<1>5. NothingHidden'
  BY DEF SyncInv, NothingHidden
<1>6. QED
  BY <1>1, <1>2, <1>3, <1>4, <1>5

\* A page is imported.
LEMMA ImportStep ==
    ASSUME SyncInv, NEW p \in Process, Import(p)
    PROVE  SyncInv'
<1> DEFINE r == Home[p]
<1>1. PICK t : t = session[p]
  OBVIOUS
<1>2. t \in Session /\ SessionTrue(p, t) /\ t.stage = "import" /\ r \in Replica
  BY <1>1, Before DEF Import
<1>3. /\ local' = [local EXCEPT ![r] = @ \cup t.page]
      /\ Go(p, [t EXCEPT !.stage = "savePage"])
      /\ clock' = clock /\ checkpoint' = checkpoint /\ fails' = fails
      /\ UNCHANGED <<remote, late, behind, hidden>>
  BY <1>1 DEF Import
<1>4. t.page \in SUBSET remote
  BY <1>2 DEF SessionTrue, PageTrue
<1>5. /\ LogsTyped /\ LogsTyped' /\ Grows /\ late' \subseteq remote' /\ NothingHidden'
      /\ local'[r] = local[r] \cup t.page
  BY <1>2, <1>3, <1>4, StoredGrows
<1>6. PICK s : s = [t EXCEPT !.stage = "savePage"]
  OBVIOUS
<1>7. /\ s \in Session /\ s.stage = "savePage" /\ s.page = t.page /\ s.more = t.more
      /\ s.latest = t.latest /\ s.forward = t.forward /\ s.saved = t.saved
  BY <1>2, <1>6 DEF Session
<1>8. SessionTrue(p, s)'
  <2>1. SessionTrue(p, t)'
    BY <1>2, <1>5, SessionGrows
  <2>2. /\ CheckpointTrue(r, t.saved)' /\ PageTrue(r, t)'
        /\ t.forward <=> t.saved.phase = "incremental"
        /\ t.latest \in remote' \cup {0}
    BY <1>2, <2>1 DEF SessionTrue
  <2>3. PageTrue(r, s)'
    BY <1>7, <2>2 DEF PageTrue
  <2>4. CheckpointTrue(r, s.saved)'
    BY <1>7, <2>2
  <2>5. QED
    BY <1>5, <1>7, <2>2, <2>3, <2>4 DEF SessionTrue
<1>9. session' = [session EXCEPT ![p] = s] /\ clock' \in 0..MaxClock
      /\ fails' \in 0..MaxFails /\ NoCheckpoint \in Checkpoint
  BY <1>3, <1>6, IdleTyped DEF Go, SyncInv, TypeOK
<1>10. QED
  BY <1>3, <1>5, <1>7, <1>8, <1>9, OneSession

\* A request fails and the sync ends, its saved pages kept.
LEMMA FailStep ==
    ASSUME SyncInv, NEW p \in Process, Fail(p)
    PROVE  SyncInv'
<1> DEFINE r == Home[p]
<1>1. PICK t : t = session[p]
  OBVIOUS
<1>2. t \in Session /\ SessionTrue(p, t) /\ r \in Replica /\ LogsTyped
  BY <1>1, Before
<1>3. PICK S \in SUBSET remote : local' = [local EXCEPT ![r] = @ \cup S]
  <2>1. CASE t.stage = "import"
    <3>1. PICK n : local' = [local EXCEPT ![r] = @ \cup
                       (IF t.forward THEN Oldest(t.page, n) ELSE Newest(t.page, n))]
      BY <1>1, <2>1 DEF Fail
    <3>2. Oldest(t.page, n) \subseteq t.page /\ Newest(t.page, n) \subseteq t.page
      BY DEF Oldest, Newest
    <3>3. t.page \subseteq remote
      BY <1>2, <2>1 DEF SessionTrue, PageTrue
    <3>4. (IF t.forward THEN Oldest(t.page, n) ELSE Newest(t.page, n)) \in SUBSET remote
      BY <3>2, <3>3
    <3>5. QED
      BY <3>1, <3>4
  <2>2. CASE t.stage # "import"
    <3>1. local' = local
      BY <1>1, <2>2 DEF Fail
    <3>2. local = [local EXCEPT ![r] = @ \cup {}]
      BY <1>2 DEF LogsTyped
    <3>3. QED
      BY <3>1, <3>2
  <2>3. QED
    BY <2>1, <2>2
<1>4. /\ Go(p, Idle) /\ clock' = clock /\ checkpoint' = checkpoint
      /\ UNCHANGED <<remote, late, behind, hidden>>
  BY DEF Fail
<1>5. fails' \in 0..MaxFails /\ clock' \in 0..MaxClock
  BY SyncAssumption DEF Fail, SyncInv, TypeOK
<1>6. LogsTyped' /\ Grows /\ late' \subseteq remote' /\ NothingHidden'
  BY <1>2, <1>3, <1>4, StoredGrows
<1>7. Idle \in Session /\ NoCheckpoint \in Checkpoint /\ SessionTrue(p, Idle)'
  <2>1. \A e \in local'[r] : e \in Nat /\ e > 0
    BY <1>2, <1>6, EventsFinite DEF LogsTyped
  <2>2. SessionTrue(p, Idle)'
    BY <2>1 DEF SessionTrue, CheckpointTrue, PushedTo, Idle, NoCheckpoint
  <2>3. QED
    BY <2>2, IdleTyped
<1>8. session' = [session EXCEPT ![p] = Idle]
  BY <1>4 DEF Go
<1>9. QED
  BY <1>4, <1>5, <1>6, <1>7, <1>8, OneSession

\* The cursors of an imported page are saved.
LEMMA SavePageStep ==
    ASSUME SyncInv, NEW p \in Process, SavePage(p)
    PROVE  SyncInv'
<1> DEFINE r == Home[p]
<1>1. PICK t : t = session[p]
  OBVIOUS
<1>2. t \in Session /\ SessionTrue(p, t) /\ t.stage = "savePage" /\ r \in Replica /\ LogsTyped
  BY <1>1, Before DEF SavePage
<1>3. /\ CheckpointTrue(r, t.saved) /\ PageTrue(r, t) /\ t.page \subseteq local[r]
      /\ t.forward <=> t.saved.phase = "incremental"
      /\ t.latest \in remote \cup {0}
  BY <1>2 DEF SessionTrue
<1>4. PICK lo, hi : lo = Min(t.page) /\ hi = Max(t.page)
  OBVIOUS
<1>5. /\ lo \in Event /\ lo # 0 /\ hi \in remote /\ hi \in Event /\ hi # 0
  <2>1. t.page \in SUBSET Event /\ t.page \subseteq remote /\ t.page # {}
    BY <1>2, <1>3, SessionFields DEF PageTrue
  <2>2. lo \in t.page /\ hi \in t.page
    BY <1>4, <2>1, PageBounds
  <2>3. QED
    BY <2>1, <2>2, EventsFinite
<1>6. PICK c : c = PageSaved(t.saved, t)
  OBVIOUS
<1>7. /\ t.saved \in Checkpoint /\ t.latest \in Cursor /\ lo \in Cursor /\ hi \in Cursor
      /\ 0 \in Cursor /\ t.saved.phase \in {"backfill", "incremental"}
  BY <1>2, <1>5, SessionFields, CheckpointFields DEF Cursor
<1> DEFINE passed == {e \in remote \ late : e < lo}
<1>8. /\ UNCHANGED <<clock, local, remote, late, behind, fails>>
       /\ hidden' = IF t.forward \/ t.more THEN hidden
                     ELSE [hidden EXCEPT ![r] = @ \cup passed]
  BY <1>1, <1>4 DEF SavePage
<1>9. /\ UNCHANGED <<clock, fails>>
      /\ LogsTyped' /\ Grows /\ late' \subseteq remote' /\ NothingHidden'
      /\ ~ t.forward /\ ~ t.more => hidden'[r] = hidden[r] \cup passed
  <2>1. LogsTyped' /\ late' \subseteq remote'
    BY <1>2, <1>8 DEF LogsTyped, SyncInv, TypeOK
  <2>2. \A q \in Replica : hidden'[q] = IF q = r /\ ~ t.forward /\ ~ t.more
                                         THEN hidden[q] \cup passed ELSE hidden[q]
    BY <1>2, <1>8 DEF LogsTyped
  <2>3. Grows
    BY <1>8, <2>2 DEF Grows
  <2>4. NothingHidden'
    <3>1. SUFFICES ASSUME Page < Cap, NEW q \in Replica PROVE hidden'[q] = {}
      BY DEF NothingHidden
    <3>2. hidden[q] = {}
      BY <3>1 DEF SyncInv, NothingHidden
    <3>3. CASE ~ t.forward /\ ~ t.more
      <4>1. \A e \in remote \ late : lo <= e /\ e \in Nat /\ lo \in Nat
        BY <1>2, <1>3, <1>4, <1>5, <3>1, <3>3, EventsFinite DEF PageTrue, LogsTyped
      <4>2. passed = {}
        BY <4>1
      <4>3. QED
        BY <2>2, <3>2, <4>2
    <3>4. QED
      BY <2>2, <3>2, <3>3
  <2>5. QED
    BY <1>2, <1>8, <2>1, <2>2, <2>3, <2>4
<1> HIDE DEF passed
<1>10. /\ c \in Checkpoint /\ CheckpointTrue(r, c)'
       /\ t.more => (t.forward <=> c.phase = "incremental")
  <2>1. /\ PushedTo(r, t.saved.push)' /\ t.saved.push \in local'[r] \cup {0}
        /\ t.latest \in remote' \cup {0} /\ hi \in remote'
    BY <1>3, <1>5, <1>8 DEF CheckpointTrue, PushedTo
  <2>2. CASE t.forward
    <3>1. c = [t.saved EXCEPT !.after = hi]
      BY <1>4, <1>6, <2>2 DEF PageSaved
    <3>2. /\ c \in Checkpoint /\ c.push = t.saved.push /\ c.phase = "incremental" /\ c.after = hi
      BY <1>3, <1>7, <2>2, <3>1 DEF Checkpoint
    <3>3. PulledTo(r, hi)'
      BY <1>3, <1>4, <1>8, <2>2 DEF PageTrue, PulledTo
    <3>4. QED
      BY <1>5, <2>1, <2>2, <3>2, <3>3 DEF CheckpointTrue, PushedTo, PulledTo
  <2>3. CASE ~ t.forward /\ t.more
    <3>1. c = [t.saved EXCEPT !.before = lo, !.after = t.latest]
      BY <1>4, <1>6, <2>3 DEF PageSaved
    <3>2. /\ c \in Checkpoint /\ c.push = t.saved.push /\ c.phase = "backfill"
          /\ c.before = lo /\ c.after = t.latest
      BY <1>3, <1>7, <2>3, <3>1 DEF Checkpoint
    <3>3. t.latest # 0 /\ PulledFrom(r, lo, t.latest)'
      BY <1>3, <1>4, <1>8, <2>3 DEF PageTrue, PulledFrom
    <3>4. QED
      BY <1>5, <2>1, <2>3, <3>2, <3>3 DEF CheckpointTrue, PushedTo, PulledFrom
  <2>4. CASE ~ t.forward /\ ~ t.more
    <3>1. c = [t.saved EXCEPT !.phase = "incremental", !.before = 0, !.after = t.latest]
      BY <1>6, <2>4 DEF PageSaved
    <3>2. /\ c \in Checkpoint /\ c.push = t.saved.push /\ c.phase = "incremental"
          /\ c.before = 0 /\ c.after = t.latest
      BY <1>3, <1>7, <2>4, <3>1 DEF Checkpoint
    <3>3. t.latest # 0 /\ PulledTo(r, t.latest)'
      <4>1. ASSUME NEW e \in remote \ late, e <= t.latest
            PROVE  e \in local[r] \cup hidden'[r]
        <5>1. CASE e < lo
          <6>1. hidden'[r] = hidden[r] \cup passed
            BY <1>9, <2>4
          <6>2. e \in passed
            BY <4>1, <5>1 DEF passed
          <6>3. QED
            BY <6>1, <6>2
        <5>2. CASE lo <= e
          BY <1>3, <1>4, <2>4, <4>1, <5>2 DEF PageTrue
        <5>3. e \in Nat /\ lo \in Nat
          BY <1>2, <1>5, EventsFinite DEF LogsTyped
        <5>4. QED
          BY <5>1, <5>2, <5>3
      <4>2. QED
        BY <1>3, <1>8, <2>4, <4>1 DEF PageTrue, PulledTo
    <3>4. QED
      BY <2>1, <2>4, <3>2, <3>3 DEF CheckpointTrue, PushedTo, PulledTo
  <2>5. QED
    BY <2>2, <2>3, <2>4
<1>11. PICK u : u = IF t.more
                    THEN [t EXCEPT !.stage = "fetch", !.page = {},
                                   !.cursor = IF t.forward THEN hi ELSE lo]
                    ELSE Idle
  OBVIOUS
<1>12. PICK s : s = [u EXCEPT !.saved = IF u.stage = "idle" THEN NoCheckpoint ELSE c]
  OBVIOUS
<1>13. Save(p, u, c)
  BY <1>1, <1>4, <1>6, <1>11 DEF SavePage
<1>14. CASE ~ t.more
  <2>1. u = Idle /\ s = Idle
    BY <1>11, <1>12, <1>14 DEF Idle
  <2>2. SessionTrue(p, Idle)'
    <3>1. \A e \in local'[r] : e \in Nat /\ e > 0
      <4>1. local' \in [Replica -> SUBSET Event]
        BY <1>9 DEF LogsTyped
      <4>2. QED
        BY <1>2, <4>1, EventsFinite
    <3>2. QED
      BY <3>1 DEF SessionTrue, CheckpointTrue, PushedTo, Idle, NoCheckpoint
  <2>3. SessionTrue(p, s)'
    BY <2>1, <2>2
  <2>4. QED
    BY <1>9, <1>10, <1>12, <1>13, <2>1, <2>3, IdleTyped, SavedSession
<1>15. CASE t.more
  <2>1. PICK place : place = IF t.forward THEN hi ELSE lo
    OBVIOUS
  <2>2. u = [t EXCEPT !.stage = "fetch", !.page = {}, !.cursor = place]
    BY <1>2, <1>11, <1>15, <2>1 DEF Session
  <2>3. u \in Session /\ u.stage = "fetch"
    BY <1>2, <1>7, <2>1, <2>2 DEF Session
  <2>4. /\ s \in Session /\ s.stage = "fetch" /\ s.cursor = place /\ s.saved = c
        /\ s.forward = t.forward /\ s.latest = t.latest
    BY <1>2, <1>10, <1>12, <2>2, <2>3 DEF Session
  <2>5. FetchTrue(r, s)'
    <3>1. CASE t.forward
      <4>1. PulledTo(r, hi)'
        BY <1>3, <1>4, <1>8, <3>1 DEF PageTrue, PulledTo
      <4>2. QED
        BY <1>5, <1>8, <2>1, <2>4, <3>1, <4>1 DEF FetchTrue
    <3>2. CASE ~ t.forward
      <4>1. t.latest # 0 /\ PulledFrom(r, lo, t.latest)'
        BY <1>3, <1>4, <1>8, <3>2 DEF PageTrue, PulledFrom
      <4>2. QED
        BY <1>5, <2>1, <2>4, <3>2, <4>1 DEF FetchTrue
    <3>3. QED
      BY <3>1, <3>2
  <2>6. CheckpointTrue(r, s.saved)'
    BY <1>10, <2>4 DEF CheckpointTrue, PushedTo, PulledTo, PulledFrom
  <2>7. SessionTrue(p, s)'
    BY <1>3, <1>8, <1>10, <1>15, <2>4, <2>5, <2>6 DEF SessionTrue
  <2>8. QED
    BY <1>9, <1>10, <1>12, <1>13, <2>3, <2>4, <2>7, SavedSession
<1>16. QED
  BY <1>14, <1>15

(***************************************************************************)
(* The invariant, and what it implies.                                     *)
(***************************************************************************)
LEMMA SyncStep == SyncInv /\ [Next]_vars => SyncInv'
<1>1. SUFFICES ASSUME SyncInv, [Next]_vars PROVE SyncInv'
  OBVIOUS
<1>2. CASE \E r \in Replica : Record(r)
  BY <1>1, <1>2, RecordStep
<1>3. ASSUME NEW p \in Process, BeginPush(p, TRUE) \/ BeginPush(p, FALSE)
      PROVE  SyncInv'
  BY <1>1, <1>3, BeginPushStep
<1>4. ASSUME NEW p \in Process, BeginPull(p) \/ Retry(p) \/ Fail(p)
      PROVE  SyncInv'
  BY <1>1, <1>4, BeginPullStep, RetryStep, FailStep
<1>5. ASSUME NEW p \in Process, Step(p)
      PROVE  SyncInv'
  <2>1. CASE LoadPush(p) \/ AppendEvent(p) \/ SavePush(p) \/ EndPush(p)
    BY <1>1, <2>1, LoadPushStep, AppendEventStep, SavePushStep, EndPushStep
  <2>2. CASE Fetch(p) \/ Import(p) \/ SavePage(p)
    BY <1>1, <2>2, FetchStep, ImportStep, SavePageStep
  <2>3. QED
    BY <1>5, <2>1, <2>2 DEF Step
<1>6. CASE UNCHANGED vars
  <2>1. UNCHANGED logs /\ TypeOK'
    BY <1>1, <1>6 DEF vars, logs, SyncInv, TypeOK
  <2>2. checkpoint' = checkpoint /\ session' = session
    BY <1>6 DEF vars
  <2>3. \A r \in Replica : CheckpointTrue(r, checkpoint[r])'
    BY <1>1, <2>1, <2>2 DEF SyncInv, logs, CheckpointTrue, PushedTo, PulledTo, PulledFrom
  <2>4. \A p \in Process : SessionTrue(p, session[p])'
    BY <1>1, <2>1, <2>2 DEF SyncInv, logs, SessionTrue, CheckpointTrue, PushedTo, PulledTo,
                            PulledFrom, QueueTrue, FetchTrue, PageTrue
  <2>5. NothingHidden'
    BY <1>1, <2>1 DEF SyncInv, NothingHidden, logs
  <2>6. QED
    BY <2>1, <2>3, <2>4, <2>5 DEF SyncInv
<1>7. QED
  BY <1>1, <1>2, <1>3, <1>4, <1>5, <1>6 DEF Next

\* Every checkpoint, on disk or in memory, is true of the logs.
THEOREM CheckpointsTrue == Spec => []SyncInv
<1>1. QED
  BY SyncInit, SyncStep, PTL DEF Spec

\* The logs, checkpoints and sessions keep their types.
THEOREM Typing == Spec => []TypeOK
<1>1. SyncInv => TypeOK
  BY DEF SyncInv
<1>2. QED
  BY <1>1, CheckpointsTrue, PTL

\* push: "upload local events".  Whatever runs at once in a repository and
\* however it ends, nothing local is behind the saved cursor and missing on
\* the gateway, except what was recorded behind an event already there.
THEOREM PushesReachGateway == Spec => []PushedUpToCursor
<1>1. SyncInv => PushedUpToCursor
  BY DEF SyncInv, CheckpointTrue, PushedTo, PushedUpToCursor
<1>2. QED
  BY <1>1, CheckpointsTrue, PTL

\* pull, backfill: what lies between the two cursors of an unfinished backfill
\* is stored, but for events that arrived late, so that the next pull may
\* start at the older cursor.
THEOREM BackfillsKeepUp == Spec => []BackfillHasNoGap
<1>1. SyncInv => BackfillHasNoGap
  BY DEF SyncInv, CheckpointTrue, PulledFrom, BackfillHasNoGap
<1>2. QED
  BY <1>1, CheckpointsTrue, PTL

\* pull: whatever the page and the gateway's limit, nothing that arrived in
\* cursor order is missing up to the saved cursor, but for what was beyond a
\* page that the gateway called the last one of a backfill.
THEOREM PullsReachCursor == Spec => []PulledUnlessHidden
<1>1. SyncInv => PulledUnlessHidden
  BY DEF SyncInv, CheckpointTrue, PulledTo, PulledUnlessHidden
<1>2. QED
  BY <1>1, CheckpointsTrue, PTL

\* And nothing is, if listEvents may read one row more than a page, as the
\* handler asks it to: the limit of the repository is all that has to change.
LEMMA PullsReachCursorIfTold ==
    ASSUME Page < Cap PROVE Spec => []InOrderPulledUpToCursor
<1>1. SyncInv => InOrderPulledUpToCursor
  BY DEF SyncInv, NothingHidden, CheckpointTrue, PulledTo, InOrderPulledUpToCursor
<1>2. QED
  BY <1>1, CheckpointsTrue, PTL
=============================================================================
