---------------------------- MODULE Board_proofs ----------------------------
(***************************************************************************)
(* What the logs of a board hold, for any number of repositories, agents   *)
(* and events, and what a projection of them can do from one insert to the *)
(* next.                                                                   *)
(***************************************************************************)
EXTENDS Board, FiniteSetTheorems, WellFoundedInduction, TLAPS

(***************************************************************************)
(* The invariant.                                                          *)
(***************************************************************************)
\* A task or handoff is named after the event that opens it.
OpensItself(e) == e.action \in {"created", "requested"} => e.ref = e.id

StoreSound(r) ==
    /\ \A e \in store[r] : OpensItself(e) /\ (r \in Settled => e.ws = r)
    /\ \A e, f \in store[r] : e.id = f.id => e = f

\* An event is inserted under the workspace of the repository it goes to, if that
\* had one from the start.
InsertionSound(i) ==
    /\ i.repo \in Settled => i.event.ws = i.repo
    /\ i.event.id <= clock
    /\ OpensItself(i.event)

BoardInv ==
    /\ TypeOK
    /\ \A r \in Repo : StoreSound(r)
    /\ \A p \in Proc : \A i \in DOMAIN queue[p] : InsertionSound(queue[p][i])

(***************************************************************************)
(* Listings.                                                               *)
(***************************************************************************)
LEMMA LatestOf ==
    ASSUME NEW S \in SUBSET Event, S # {}
    PROVE  Latest(S) \in S /\ \A f \in S : f.id <= Latest(S).id
<1> DEFINE T == {MaxClock - e.id : e \in S}
<1>1. MaxClock \in Nat /\ \A e \in S : e.id \in 1..MaxClock
  BY BoardAssumption DEF Event
<1>2. T \in SUBSET Nat /\ T # {}
  BY <1>1
<1>3. PICK n \in T : \A m \in T : n <= m
  <2> DEFINE Less == OpToRel(<, Nat)
  <2> HIDE DEF T
  <2>1. \A m, n \in Nat : m < n => <<m, n>> \in Less
    BY DEF OpToRel
  <2>2. IsWellFoundedOn(Less, Nat)
    BY NatLessThanWellFounded, Zenon
  <2> HIDE DEF Less
  <2>3. PICK n \in T : \A m \in T : ~ (<<m, n>> \in Less)
    BY <1>2, <2>2, WFMin
  <2>4. \A m \in T : ~ (m < n)
    BY <1>2, <2>1, <2>3
  <2>5. QED
    BY <1>2, <2>4
<1>4. PICK e \in S : n = MaxClock - e.id
  BY <1>3
<1>5. \A f \in S : f.id <= e.id
  <2>1. TAKE f \in S
  <2>2. MaxClock - f.id >= MaxClock - e.id
    BY <1>3, <1>4
  <2>3. QED
    BY <1>1, <2>2
<1>6. \E d \in S : \A f \in S : f.id <= d.id
  BY <1>5
<1>7. QED
  BY <1>6 DEF Latest

\* A listing holds what is listed, and nothing else.
LEMMA NewestFirstOf ==
    ASSUME NEW S \in SUBSET Event, \A e, f \in S : e.id = f.id => e = f
    PROVE  NewestFirst(S) \in Seq(S)
<1> DEFINE Newer(e) == {f \in S : f.id > e.id}
           n == Cardinality(S)
           rank == [e \in S |-> Cardinality(Newer(e))]
<1>1. MaxClock \in Nat /\ \A e \in S : e.id \in 1..MaxClock
  BY BoardAssumption DEF Event
<1>2. IsFiniteSet(S)
  <2> DEFINE id == [e \in S |-> e.id]
  <2>1. id \in Injection(S, 1..MaxClock)
    BY <1>1 DEF Injection, IsInjective
  <2>2. IsFiniteSet(1..MaxClock)
    BY <1>1, FS_Interval
  <2>3. QED
    BY <2>1, <2>2, FS_Injection
<1>3. n \in Nat
  BY <1>2, FS_CardinalityType
<1>4. ASSUME NEW e \in S
      PROVE  /\ Newer(e) \in SUBSET S /\ IsFiniteSet(Newer(e))
             /\ Cardinality(Newer(e)) \in 0..(n - 1)
  <2>1. Newer(e) \in SUBSET S /\ e \notin Newer(e)
    BY <1>1
  <2>2. /\ IsFiniteSet(Newer(e)) /\ Cardinality(Newer(e)) <= n
        /\ n = Cardinality(Newer(e)) => S = Newer(e)
    BY <1>2, <2>1, FS_Subset
  <2>3. Cardinality(Newer(e)) \in Nat
    BY <2>2, FS_CardinalityType
  <2>4. QED
    BY <1>3, <2>1, <2>2, <2>3
<1>5. ASSUME NEW d \in S, NEW e \in S, d.id < e.id
      PROVE  Cardinality(Newer(e)) # Cardinality(Newer(d))
  <2>1. Newer(e) \in SUBSET Newer(d) /\ e \in Newer(d) /\ e \notin Newer(e)
    BY <1>1, <1>5
  <2>2. QED
    BY <1>4, <2>1, FS_Subset
<1>6. rank \in Injection(S, 0..(n - 1))
  <2>1. rank \in [S -> 0..(n - 1)]
    BY <1>4
  <2>2. ASSUME NEW d \in S, NEW e \in S, rank[d] = rank[e]
        PROVE  d = e
    <3>1. ~ (d.id < e.id) /\ ~ (e.id < d.id)
      BY <1>5, <2>2
    <3>2. QED
      BY <1>1, <3>1
  <2>3. QED
    BY <2>1, <2>2 DEF Injection, IsInjective
<1>7. rank \in Surjection(S, 0..(n - 1))
  <2>1. IsFiniteSet(0..(n - 1)) /\ Cardinality(0..(n - 1)) = n
    BY <1>3, FS_Interval, SMTT(20)
  <2>2. QED
    BY <1>6, <2>1, FS_Injection
<1> DEFINE nth(i) == CHOOSE e \in S : Cardinality({f \in S : f.id > e.id}) = i - 1
<1>8. ASSUME NEW i \in 1..n
      PROVE  nth(i) \in S
  <2>1. i - 1 \in 0..(n - 1)
    BY <1>3
  <2>2. \E e \in S : rank[e] = i - 1
    BY <1>7, <2>1 DEF Surjection
  <2>3. \E e \in S : Cardinality({f \in S : f.id > e.id}) = i - 1
    BY <2>2
  <2>4. QED
    BY <2>3
<1>9. NewestFirst(S) = [i \in 1..n |-> nth(i)]
  BY Zenon DEF NewestFirst
<1> HIDE DEF nth
<1>10. NewestFirst(S) \in [1..n -> S]
  BY <1>8, <1>9
<1>11. QED
  BY <1>3, <1>10

(***************************************************************************)
(* New events, and the inserts of a command.                               *)
(***************************************************************************)
Fresh(p, e) == e.ws = Home[p] /\ OpensItself(e)

\* An event that a command makes is an event of its own workspace, and what it opens bears its id.
LEMMA NewEvent ==
    ASSUME TypeOK, NEW p \in Proc, NEW n \in Nat \ {0}, clock + n <= MaxClock,
           NEW type \in {"task", "handoff", "message"},
           NEW action \in {"created", "claimed", "updated", "completed",
                           "requested", "accepted", "sent"},
           NEW ref \in 1..MaxClock, NEW to \in Proc \cup {None},
           action \in {"created", "requested"} => ref = clock + n
    PROVE  /\ New(p, n, type, action, ref, to) \in Event
           /\ Fresh(p, New(p, n, type, action, ref, to))
           /\ New(p, n, type, action, ref, to).id = clock + n
<1>1. clock + n \in 1..MaxClock /\ Home[p] \in Repo
  BY BoardAssumption DEF TypeOK
<1>2. PICK e : e = New(p, n, type, action, ref, to)
  OBVIOUS
<1>3. e = [id |-> clock + n, ws |-> Home[p], type |-> type, action |-> action,
           agent |-> p, ref |-> ref, to |-> to]
  BY <1>2 DEF New
<1>4. e \in Event /\ e.ws = Home[p] /\ e.id = clock + n /\ e.action = action /\ e.ref = ref
  BY <1>1, <1>3 DEF Event
<1>5. OpensItself(e)
  BY <1>4 DEF OpensItself
<1>6. QED
  BY <1>2, <1>4, <1>5 DEF Fresh

\* A step that changes nothing but a queue, the clock and the count of kills.
LEMMA OneQueue ==
    ASSUME BoardInv, NEW p \in Proc, NEW q \in Seq(Insertion),
           queue' = [queue EXCEPT ![p] = q],
           \A i \in DOMAIN q : InsertionSound(q[i])',
           clock <= clock', clock' \in 0..MaxClock, fails' \in 0..MaxFails,
           workspace' = workspace, store' = store, shown' = shown
    PROVE  BoardInv'
<1>1. clock \in Nat /\ clock' \in Nat /\ MaxClock \in Nat
  BY BoardAssumption DEF BoardInv, TypeOK
<1>2. TypeOK'
  <2>1. queue' \in [Proc -> Seq(Insertion)] /\ store' \in [Repo -> SUBSET Event]
    BY DEF BoardInv, TypeOK
  <2>2. \A r \in Repo : \A e \in store'[r] : e.id <= clock'
    <3>1. ASSUME NEW r \in Repo, NEW e \in store[r]
          PROVE  e.id <= clock'
      <4>1. e \in Event /\ e.id <= clock
        BY DEF BoardInv, TypeOK
      <4>2. e.id \in Nat
        BY <1>1, <4>1 DEF Event
      <4>3. QED
        BY <1>1, <4>1, <4>2
    <3>2. QED
      BY <3>1
  <2>3. shown' \in [Proc -> SUBSET (1..clock')]
    <3>1. \A n \in 1..clock : n \in 1..clock'
      BY <1>1
    <3>2. shown \in [Proc -> SUBSET (1..clock)]
      BY DEF BoardInv, TypeOK
    <3>3. QED
      BY <3>1, <3>2
  <2>4. workspace' \in [Repo -> {"early", "none", "late"}]
    BY DEF BoardInv, TypeOK
  <2>5. QED
    BY <2>1, <2>2, <2>3, <2>4 DEF TypeOK
<1>3. \A r \in Repo : StoreSound(r)'
  BY DEF BoardInv, StoreSound, Settled
<1>4. ASSUME NEW a \in Proc, NEW i \in DOMAIN queue'[a]
      PROVE  InsertionSound(queue[a][i])'
  <2>1. queue \in [Proc -> Seq(Insertion)]
    BY DEF BoardInv, TypeOK
  <2>2. CASE a = p
    BY <1>4, <2>1, <2>2
  <2>3. CASE a # p
    <3>1. queue'[a] = queue[a]
      BY <2>1, <2>3
    <3>2. PICK x : x = queue[a][i]
      OBVIOUS
    <3>3. x \in Insertion /\ InsertionSound(x)
      BY <1>4, <2>1, <3>1, <3>2 DEF BoardInv
    <3>4. x.event.id \in Nat
      BY <1>1, <3>3 DEF Insertion, Event
    <3>5. QED
      BY <1>1, <3>1, <3>2, <3>3, <3>4 DEF InsertionSound, Settled
  <2>4. QED
    BY <2>2, <2>3
<1>5. QED
  BY <1>2, <1>3, <1>4 DEF BoardInv

\* Queueing the insertions of several new events keeps the invariant.
LEMMA AppendStep ==
    ASSUME BoardInv, NEW p \in Proc, NEW events \in Seq(Event), AppendEvents(p, events),
           \A i \in DOMAIN events : Fresh(p, events[i]) /\ events[i].id <= clock + Len(events)
    PROVE  BoardInv'
<1>1. PICK q : q = [i \in DOMAIN events |-> [repo |-> Home[p], event |-> events[i]]]
  OBVIOUS
<1>2. Home[p] \in Repo /\ Len(events) \in Nat /\ DOMAIN events = 1..Len(events)
  BY BoardAssumption
<1>3. q \in [1..Len(events) -> Insertion]
  BY <1>1, <1>2 DEF Insertion
<1>4. q \in Seq(Insertion) /\ DOMAIN q = DOMAIN events
  BY <1>2, <1>3
<1>5. /\ queue' = [queue EXCEPT ![p] = q] /\ clock' = clock + Len(events)
      /\ clock' <= MaxClock /\ UNCHANGED <<workspace, store, shown, fails>>
  BY <1>1 DEF AppendEvents
<1>6. clock \in Nat /\ clock' \in Nat /\ clock' \in 0..MaxClock /\ clock <= clock'
      /\ fails' \in 0..MaxFails
  BY <1>2, <1>5, BoardAssumption DEF BoardInv, TypeOK
<1>7. \A i \in DOMAIN q : InsertionSound(q[i])'
  <2>1. TAKE i \in DOMAIN q
  <2>2. q[i] = [repo |-> Home[p], event |-> events[i]]
    BY <1>1, <1>4
  <2>3. q[i].repo = Home[p] /\ q[i].event = events[i]
    BY <2>2
  <2>4. QED
    BY <1>4, <1>5, <2>3 DEF InsertionSound, Fresh, Settled
<1>8. QED
  BY <1>4, <1>5, <1>6, <1>7, OneQueue

\* So does queueing one, the common case.
LEMMA AppendOne ==
    ASSUME BoardInv, NEW p \in Proc, NEW e, AppendEvents(p, <<e>>),
           clock + 1 <= MaxClock => e \in Event /\ Fresh(p, e) /\ e.id = clock + 1
    PROVE  BoardInv'
<1>1. clock \in Nat /\ Len(<<e>>) = 1
  BY BoardAssumption DEF BoardInv, TypeOK
<1>2. clock + 1 <= MaxClock
  BY <1>1 DEF AppendEvents
<1>3. e \in Event /\ Fresh(p, e) /\ e.id = clock + 1
  BY <1>2
<1>4. PICK events : events = <<e>>
  OBVIOUS
<1>5. events \in Seq(Event) /\ DOMAIN events = {1} /\ events[1] = e /\ Len(events) = 1
  BY <1>3, <1>4
<1>6. AppendEvents(p, events)
  BY <1>4
<1>7. \A i \in DOMAIN events : Fresh(p, events[i]) /\ events[i].id <= clock + Len(events)
  BY <1>1, <1>3, <1>5
<1>8. QED
  BY <1>5, <1>6, <1>7, AppendStep

\* task new, claim, update and done.
LEMMA TaskStep ==
    ASSUME BoardInv, NEW p \in Proc, TaskCommand(p)
    PROVE  BoardInv'
<1>1. TypeOK /\ clock \in Nat /\ (clock + 1 <= MaxClock => clock + 1 \in 1..MaxClock)
  BY BoardAssumption DEF BoardInv, TypeOK
<1>2. CASE CreateTask(p)
  <2>1. PICK e : e = NewTask(p, 1)
    OBVIOUS
  <2>2. clock + 1 <= MaxClock => e \in Event /\ Fresh(p, e) /\ e.id = clock + 1
    BY <1>1, <2>1, NewEvent DEF NewTask
  <2>3. AppendEvents(p, <<e>>)
    BY <1>2, <2>1 DEF CreateTask
  <2>4. QED
    BY <2>2, <2>3, AppendOne
<1>3. ASSUME NEW t \in 1..MaxClock, ClaimTask(p, t) \/ UpdateTask(p, t) \/ CompleteTask(p, t)
      PROVE  BoardInv'
  <2>1. PICK e \in {NewClaim(p, t), NewTaskUpdate(p, 1, t), NewTaskDone(p, t)} :
              AppendEvents(p, <<e>>)
    BY <1>3 DEF ClaimTask, UpdateTask, CompleteTask
  <2>2. clock + 1 <= MaxClock => e \in Event /\ Fresh(p, e) /\ e.id = clock + 1
    BY <1>1, <2>1, NewEvent DEF NewClaim, NewTaskUpdate, NewTaskDone
  <2>3. QED
    BY <2>1, <2>2, AppendOne
<1>4. QED
  BY <1>2, <1>3 DEF TaskCommand

\* handoff request, accept and complete.
LEMMA HandoffStep ==
    ASSUME BoardInv, NEW p \in Proc, HandoffCommand(p)
    PROVE  BoardInv'
<1>1. TypeOK /\ clock \in Nat /\ (clock + 1 <= MaxClock => clock + 1 \in 1..MaxClock)
  BY BoardAssumption DEF BoardInv, TypeOK
<1>2. ASSUME NEW to \in Proc \ {p}, RequestHandoff(p, to)
      PROVE  BoardInv'
  <2>1. PICK e : e = NewHandoff(p, 1, to)
    OBVIOUS
  <2>2. clock + 1 <= MaxClock => e \in Event /\ Fresh(p, e) /\ e.id = clock + 1
    BY <1>1, <2>1, NewEvent DEF NewHandoff
  <2>3. AppendEvents(p, <<e>>)
    BY <1>2, <2>1 DEF RequestHandoff
  <2>4. QED
    BY <2>2, <2>3, AppendOne
<1>3. ASSUME NEW h \in 1..MaxClock, AcceptHandoff(p, h) \/ CompleteHandoff(p, h)
      PROVE  BoardInv'
  <2>1. PICK e \in {NewHandoffAccept(p, h), NewHandoffDone(p, h)} : AppendEvents(p, <<e>>)
    BY <1>3 DEF AcceptHandoff, CompleteHandoff
  <2>2. clock + 1 <= MaxClock => e \in Event /\ Fresh(p, e) /\ e.id = clock + 1
    BY <1>1, <2>1, NewEvent DEF NewHandoffAccept, NewHandoffDone
  <2>3. QED
    BY <2>1, <2>2, AppendOne
<1>4. QED
  BY <1>2, <1>3 DEF HandoffCommand

\* The enumeration of a finite set is a function of 1..Cardinality.
LEMMA SeqOfSet ==
    ASSUME NEW S, IsFiniteSet(S)
    PROVE  SetToSeq(S) \in [1..Cardinality(S) -> S] /\ Cardinality(S) \in Nat
<1>1. Cardinality(S) \in Nat /\ ExistsBijection(1..Cardinality(S), S)
  BY FS_CardinalityType
<1>2. \E f \in [1..Cardinality(S) -> S] : IsInjective(f)
  BY <1>1 DEF ExistsBijection, Bijection, Injection, IsInjective
<1>3. QED
  BY <1>1, <1>2 DEF SetToSeq

\* collab start: a task, then a handoff for each agent.
LEMMA StartStep ==
    ASSUME BoardInv, NEW p \in Proc, NEW agents \in SUBSET Proc, StartCollab(p, agents)
    PROVE  BoardInv'
<1>1. TypeOK /\ clock \in Nat /\ MaxClock \in Nat
  BY BoardAssumption DEF BoardInv, TypeOK
<1>2. PICK others, k : others = SetToSeq(agents \ {p}) /\ k = Cardinality(agents \ {p})
  OBVIOUS
<1>3. others \in [1..k -> Proc] /\ k \in Nat
  <2>1. IsFiniteSet(agents \ {p}) /\ agents \ {p} \subseteq Proc
    BY BoardAssumption, FS_Subset
  <2>2. QED
    BY <1>2, <2>1, SeqOfSet
<1>4. PICK first, rest : /\ first = NewTask(p, 1)
                        /\ rest = [i \in 1..k |-> NewMessage(p, i + 1, others[i])]
  OBVIOUS
<1>5. DOMAIN others = 1..k
  BY <1>3
<1>6. PICK events : events = <<first>> \o rest
  OBVIOUS
<1>7. AppendEvents(p, events)
  <2>1. events = StartEvents(p, agents)
    BY <1>2, <1>4, <1>5, <1>6 DEF StartEvents
  <2>2. QED
    BY <2>1 DEF StartCollab
<1>8. /\ Len(rest) = k /\ Len(events) = k + 1 /\ DOMAIN events = 1..(k + 1)
      /\ events[1] = first /\ \A i \in 1..k : events[i + 1] = rest[i]
  BY <1>3, <1>4, <1>6
<1>9. clock + (k + 1) <= MaxClock
  BY <1>7, <1>8 DEF AppendEvents
<1>10. first \in Event /\ Fresh(p, first) /\ first.id = clock + 1
  <2>1. clock + 1 <= MaxClock /\ clock + 1 \in 1..MaxClock
    BY <1>1, <1>3, <1>9
  <2>2. QED
    BY <1>1, <1>4, <2>1, NewEvent DEF NewTask
<1>11. ASSUME NEW i \in 1..k
       PROVE  rest[i] \in Event /\ Fresh(p, rest[i]) /\ rest[i].id = clock + (i + 1)
  <2>1. /\ i + 1 \in Nat \ {0} /\ clock + (i + 1) <= MaxClock /\ clock + (i + 1) \in 1..MaxClock
        /\ others[i] \in Proc
    BY <1>1, <1>3, <1>9
  <2>2. rest[i] = NewMessage(p, i + 1, others[i])
    BY <1>4
  <2>3. QED
    BY <1>1, <2>1, <2>2, NewEvent DEF NewMessage
<1>12. ASSUME NEW i \in DOMAIN events
       PROVE  events[i] \in Event /\ Fresh(p, events[i]) /\ events[i].id <= clock + Len(events)
  <2>1. CASE i = 1
    BY <1>1, <1>3, <1>8, <1>10, <2>1
  <2>2. CASE i # 1
    <3>1. PICK j \in 1..k : i = j + 1
      <4>1. i - 1 \in 1..k /\ i = (i - 1) + 1
        BY <1>3, <1>8, <1>12, <2>2
      <4>2. QED
        BY <4>1
    <3>2. events[i] = rest[j]
      BY <1>8, <3>1
    <3>3. QED
      BY <1>1, <1>3, <1>8, <1>11, <3>1, <3>2
  <2>3. QED
    BY <2>1, <2>2
<1>13. events \in Seq(Event)
  <2>1. rest \in [1..k -> Event]
    BY <1>4, <1>11
  <2>2. rest \in Seq(Event) /\ <<first>> \in Seq(Event)
    BY <1>3, <1>10, <2>1
  <2>3. QED
    BY <1>6, <2>2
<1>14. QED
  BY <1>7, <1>12, <1>13, AppendStep

\* The other commands of collab.
LEMMA CollabStep ==
    ASSUME BoardInv, NEW p \in Proc, CollabCommand(p)
    PROVE  BoardInv'
<1>1. /\ TypeOK /\ clock \in Nat /\ MaxClock \in Nat
      /\ clock + 1 <= MaxClock => clock + 1 \in 1..MaxClock
  BY BoardAssumption DEF BoardInv, TypeOK
<1>2. CASE \E agents \in SUBSET Proc \ {{}} : StartCollab(p, agents)
  BY <1>2, StartStep
<1>3. ASSUME NEW to \in Proc \ {p}, SendMessage(p, to)
      PROVE  BoardInv'
  <2>1. PICK e : e = NewMessage(p, 1, to)
    OBVIOUS
  <2>2. clock + 1 <= MaxClock => e \in Event /\ Fresh(p, e) /\ e.id = clock + 1
    BY <1>1, <2>1, NewEvent DEF NewMessage
  <2>3. AppendEvents(p, <<e>>)
    BY <1>3, <2>1 DEF SendMessage
  <2>4. QED
    BY <2>2, <2>3, AppendOne
<1>4. ASSUME NEW t \in 1..MaxClock, NEW to \in Proc \ {p}, PassTask(p, t, to)
      PROVE  BoardInv'
  <2>1. PICK d, e : d = NewTaskUpdate(p, 2, t) /\ e = NewHandoff(p, 1, to)
    OBVIOUS
  <2>2. AppendEvents(p, <<d, e>>) /\ Len(<<d, e>>) = 2
    BY <1>4, <2>1 DEF PassTask, PassEvents
  <2>3. clock + 2 <= MaxClock /\ clock + 1 <= MaxClock /\ clock + 1 \in 1..MaxClock
    BY <1>1, <2>2 DEF AppendEvents
  <2>4. d \in Event /\ Fresh(p, d) /\ d.id = clock + 2
    <3>1. d = New(p, 2, "task", "updated", t, None) /\ 2 \in Nat \ {0}
      BY <2>1 DEF NewTaskUpdate
    <3>2. "task" \in {"task", "handoff", "message"} /\ None \in Proc \cup {None}
          /\ "updated" \notin {"created", "requested"}
      OBVIOUS
    <3>3. QED
      BY <1>1, <2>3, <3>1, <3>2, NewEvent
  <2>5. e \in Event /\ Fresh(p, e) /\ e.id = clock + 1
    <3>1. e = New(p, 1, "handoff", "requested", clock + 1, to) /\ 1 \in Nat \ {0}
      BY <2>1 DEF NewHandoff
    <3>2. "handoff" \in {"task", "handoff", "message"} /\ to \in Proc \cup {None}
      BY <1>4
    <3>3. QED
      BY <1>1, <2>3, <3>1, <3>2, NewEvent
  <2>6. PICK events : events = <<d, e>>
    OBVIOUS
  <2>7. /\ events \in Seq(Event) /\ DOMAIN events = {1, 2} /\ Len(events) = 2
        /\ events[1] = d /\ events[2] = e
    BY <2>4, <2>5, <2>6
  <2>8. \A i \in DOMAIN events : Fresh(p, events[i]) /\ events[i].id <= clock + Len(events)
    BY <1>1, <2>4, <2>5, <2>7
  <2>9. QED
    BY <2>2, <2>6, <2>7, <2>8, AppendStep
<1>5. QED
  BY <1>2, <1>3, <1>4 DEF CollabCommand

(***************************************************************************)
(* Mesh.                                                                   *)
(***************************************************************************)
LEMMA ImportsOf ==
    ASSUME TypeOK, NEW r \in Repo, NEW new \in Seq(Event),
           \A i \in DOMAIN new : OpensItself(new[i]) /\ new[i].id <= clock
    PROVE  /\ Imports(new, r) \in Seq(Insertion)
           /\ \A i \in DOMAIN Imports(new, r) : InsertionSound(Imports(new, r)[i])
<1>1. PICK q : q = Imports(new, r)
  OBVIOUS
<1>2. q = [i \in DOMAIN new |->
            [repo |-> r, event |-> IF r \in named THEN ForWorkspace(new[i], r) ELSE new[i]]]
  BY <1>1 DEF Imports
<1>3. ASSUME NEW i \in DOMAIN new
      PROVE  q[i] \in Insertion /\ InsertionSound(q[i])
  <2>1. PICK d, e : d = new[i] /\ e = IF r \in named THEN ForWorkspace(new[i], r) ELSE new[i]
    OBVIOUS
  <2>2. d \in Event /\ OpensItself(d) /\ d.id <= clock
    BY <2>1
  <2>3. (r \in named => e = [d EXCEPT !.ws = r]) /\ (r \notin named => e = d)
    BY <2>1 DEF ForWorkspace
  <2>4. /\ e \in Event /\ (r \in named => e.ws = r)
        /\ e.id = d.id /\ e.action = d.action /\ e.ref = d.ref
    BY <2>2, <2>3 DEF Event
  <2>5. q[i] = [repo |-> r, event |-> e]
    BY <1>2, <2>1
  <2>6. q[i] \in Insertion /\ q[i].repo = r /\ q[i].event = e
    BY <2>4, <2>5 DEF Insertion
  <2>7. QED
    BY <2>2, <2>4, <2>6 DEF InsertionSound, OpensItself, Settled, named
<1>4. DOMAIN new = 1..Len(new) /\ Len(new) \in Nat /\ DOMAIN q = DOMAIN new
  BY <1>2
<1>5. q \in [1..Len(new) -> Insertion]
  BY <1>2, <1>3, <1>4
<1>6. q \in Seq(Insertion)
  BY <1>4, <1>5
<1>7. QED
  BY <1>1, <1>3, <1>4, <1>6

\* What a peer has and a store lacks is sound: each event opens what it says it opens.
LEMMA MissingOf ==
    ASSUME BoardInv, NEW r \in Repo, NEW peer \in Repo
    PROVE  LET new == Missing(AllEvents(peer), r)
           IN  /\ new \in Seq(Event)
               /\ \A i \in DOMAIN new : OpensItself(new[i]) /\ new[i].id <= clock
<1>1. PICK S : S = {e \in store[peer] : e.id \notin Ids(store[r])}
  OBVIOUS
<1>2. S \in SUBSET Event /\ S \subseteq store[peer]
  BY <1>1 DEF BoardInv, TypeOK
<1>3. /\ \A e, f \in S : e.id = f.id => e = f
      /\ \A e \in S : OpensItself(e) /\ e.id <= clock
  BY <1>2 DEF BoardInv, StoreSound, TypeOK
<1>4. NewestFirst(S) \in Seq(S)
  BY <1>2, <1>3, NewestFirstOf
<1>5. Missing(AllEvents(peer), r) = NewestFirst(S)
  BY <1>1 DEF Missing, AllEvents
<1>6. PICK new : new = NewestFirst(S)
  OBVIOUS
<1>7. \A i \in DOMAIN new : new[i] \in S
  BY <1>4, <1>6
<1>8. new \in Seq(Event)
  <2>1. new \in [1..Len(new) -> Event] /\ Len(new) \in Nat
    BY <1>2, <1>4, <1>6
  <2>2. QED
    BY <2>1
<1>9. QED
  BY <1>3, <1>5, <1>6, <1>7, <1>8

\* mesh sync and archive import queue what is missing.
LEMMA MeshStep ==
    ASSUME BoardInv, NEW p \in Proc, NEW peer \in Repo,
           SyncMesh(p, peer) \/ ImportArchive(p, peer)
    PROVE  BoardInv'
<1>1. TypeOK /\ Home[p] \in Repo
  BY BoardAssumption DEF BoardInv
<1>2. PICK here, there : /\ here = Missing(AllEvents(peer), Home[p])
                        /\ there = Missing(AllEvents(Home[p]), peer)
  OBVIOUS
<1>3. /\ here \in Seq(Event) /\ there \in Seq(Event)
      /\ \A i \in DOMAIN here : OpensItself(here[i]) /\ here[i].id <= clock
      /\ \A i \in DOMAIN there : OpensItself(there[i]) /\ there[i].id <= clock
  BY <1>1, <1>2, MissingOf
<1>4. PICK q \in Seq(Insertion) : /\ queue' = [queue EXCEPT ![p] = q]
                                  /\ \A i \in DOMAIN q : InsertionSound(q[i])
  <2>1. CASE SyncMesh(p, peer)
    <3>1. PICK a, b : a = Imports(here, Home[p]) /\ b = Imports(there, peer)
      OBVIOUS
    <3>2. /\ a \in Seq(Insertion) /\ b \in Seq(Insertion)
          /\ \A i \in DOMAIN a : InsertionSound(a[i])
          /\ \A i \in DOMAIN b : InsertionSound(b[i])
      BY <1>1, <1>3, <3>1, ImportsOf
    <3>3. a \o b \in Seq(Insertion)
      BY <3>2
    <3>4. ASSUME NEW i \in DOMAIN (a \o b)
          PROVE  InsertionSound((a \o b)[i])
      <4>1. /\ Len(a) \in Nat /\ Len(b) \in Nat /\ DOMAIN a = 1..Len(a) /\ DOMAIN b = 1..Len(b)
            /\ i \in 1..(Len(a) + Len(b))
        BY <3>2
      <4>2. CASE i <= Len(a)
        <5>1. i \in DOMAIN a /\ (a \o b)[i] = a[i]
          BY <3>2, <4>1, <4>2
        <5>2. QED
          BY <3>2, <5>1
      <4>3. CASE i > Len(a)
        <5>1. i - Len(a) \in DOMAIN b /\ (a \o b)[i] = b[i - Len(a)]
          BY <3>2, <4>1, <4>3
        <5>2. QED
          BY <3>2, <5>1
      <4>4. QED
        BY <4>1, <4>2, <4>3
    <3>5. queue' = [queue EXCEPT ![p] = a \o b]
      BY <1>2, <2>1, <3>1 DEF SyncMesh
    <3>6. QED
      BY <3>3, <3>4, <3>5
  <2>2. CASE ImportArchive(p, peer)
    <3>1. PICK back : back = Reverse(here)
      OBVIOUS
    <3>2. /\ Len(here) \in Nat /\ DOMAIN here = 1..Len(here)
          /\ back = [i \in 1..Len(here) |-> here[(Len(here) - i) + 1]]
      BY <1>3, <3>1 DEF Reverse
    <3>3. \A i \in 1..Len(here) : (Len(here) - i) + 1 \in DOMAIN here
      BY <3>2
    <3>4. back \in [1..Len(here) -> Event]
      BY <1>3, <3>2, <3>3
    <3>5. back \in Seq(Event)
      <4>1. PICK n \in Nat : n = Len(here)
        BY <3>2
      <4>2. back \in [1..n -> Event]
        BY <3>4, <4>1
      <4>3. QED
        BY <4>2, SMTT(20)
    <3>6. \A i \in DOMAIN back : OpensItself(back[i]) /\ back[i].id <= clock
      <4>1. ASSUME NEW i \in DOMAIN back
            PROVE  OpensItself(back[i]) /\ back[i].id <= clock
        <5>1. PICK j \in DOMAIN here : back[i] = here[j]
          BY <3>2, <3>3, <3>5
        <5>2. QED
          BY <1>3, <5>1
      <4>2. QED
        BY <4>1
    <3>7. queue' = [queue EXCEPT ![p] = Imports(back, Home[p])]
      BY <1>2, <2>2, <3>1 DEF ImportArchive
    <3>8. QED
      BY <1>1, <3>5, <3>6, <3>7, ImportsOf
  <2>3. QED
    BY <2>1, <2>2
<1>5. UNCHANGED <<clock, workspace, store, shown, fails>>
  BY DEF SyncMesh, ImportArchive
<1>6. /\ clock <= clock' /\ clock' \in 0..MaxClock /\ fails' \in 0..MaxFails
      /\ \A i \in DOMAIN q : InsertionSound(q[i])'
  BY <1>1, <1>4, <1>5, BoardAssumption DEF TypeOK, InsertionSound, Settled
<1>7. QED
  BY <1>4, <1>5, <1>6, OneQueue

(***************************************************************************)
(* Inserts, the end of a process, the watched inbox.                       *)
(***************************************************************************)
\* One insert adds a new event, or none.
LEMMA InsertAdds ==
    ASSUME BoardInv, NEW p \in Proc, Insert(p)
    PROVE  \E r \in Repo, e \in Event :
              /\ OpensItself(e) /\ (r \in Settled => e.ws = r) /\ e.id <= clock
              /\ \A s \in Repo \ {r} : store'[s] = store[s]
              /\ \/ store'[r] = store[r]
                 \/ e.id \notin Ids(store[r]) /\ store'[r] = store[r] \cup {e}
              /\ store' \in [Repo -> SUBSET Event]
<1>1. queue[p] \in Seq(Insertion) /\ queue[p] # <<>> /\ store \in [Repo -> SUBSET Event]
  BY DEF BoardInv, TypeOK, Insert
<1>2. PICK first : first = Head(queue[p])
  OBVIOUS
<1>3. 1 \in DOMAIN queue[p] /\ first = queue[p][1] /\ first \in Insertion
  BY <1>1, <1>2
<1>4. InsertionSound(first)
  BY <1>3 DEF BoardInv
<1>5. PICK r, e : r = first.repo /\ e = first.event
  OBVIOUS
<1>6. /\ r \in Repo /\ e \in Event /\ OpensItself(e) /\ e.id <= clock
      /\ r \in Settled => e.ws = r
  BY <1>3, <1>4, <1>5 DEF Insertion, InsertionSound
<1>7. store' = [store EXCEPT ![r] = InsertEvent(store[r], e)]
  BY <1>1, <1>2, <1>5, <1>6 DEF Insert
<1>8. store'[r] = InsertEvent(store[r], e) /\ \A s \in Repo \ {r} : store'[s] = store[s]
  BY <1>1, <1>6, <1>7
<1>9. \/ store'[r] = store[r]
      \/ e.id \notin Ids(store[r]) /\ store'[r] = store[r] \cup {e}
  BY <1>8 DEF InsertEvent
<1>10. InsertEvent(store[r], e) \in SUBSET Event
  BY <1>1, <1>6 DEF InsertEvent
<1>11. store' \in [Repo -> SUBSET Event]
  BY <1>1, <1>7, <1>10
<1>12. QED
  BY <1>6, <1>8, <1>9, <1>11

\* One insertion of a queue, stored or ignored.
LEMMA InsertStep ==
    ASSUME BoardInv, NEW p \in Proc, Insert(p)
    PROVE  BoardInv'
<1>1. PICK r \in Repo, e \in Event :
              /\ OpensItself(e) /\ (r \in Settled => e.ws = r) /\ e.id <= clock
              /\ \A s \in Repo \ {r} : store'[s] = store[s]
              /\ \/ store'[r] = store[r]
                 \/ e.id \notin Ids(store[r]) /\ store'[r] = store[r] \cup {e}
              /\ store' \in [Repo -> SUBSET Event]
  BY InsertAdds
<1>2. PICK q : q = Tail(queue[p])
  OBVIOUS
<1>3. /\ queue[p] \in Seq(Insertion) /\ queue[p] # <<>> /\ queue \in [Proc -> Seq(Insertion)]
      /\ queue' = [queue EXCEPT ![p] = q]
      /\ UNCHANGED <<clock, workspace, shown, fails>>
  BY <1>2 DEF BoardInv, TypeOK, Insert
<1>4. q \in Seq(Insertion) /\ \A i \in DOMAIN q : i + 1 \in DOMAIN queue[p] /\ q[i] = queue[p][i + 1]
  BY <1>2, <1>3
<1>5. TypeOK'
  <2>1. queue' \in [Proc -> Seq(Insertion)]
    BY <1>3, <1>4
  <2>2. \A s \in Repo : \A d \in store'[s] : d.id <= clock'
    BY <1>1, <1>3 DEF BoardInv, TypeOK
  <2>3. QED
    BY <1>1, <1>3, <2>1, <2>2 DEF BoardInv, TypeOK
<1>6. \A s \in Repo : StoreSound(s)'
  <2>1. TAKE s \in Repo
  <2>2. StoreSound(s)
    BY DEF BoardInv
  <2>3. CASE store'[s] = store[s]
    BY <1>3, <2>2, <2>3 DEF StoreSound, Settled
  <2>4. CASE s = r /\ e.id \notin Ids(store[r]) /\ store'[r] = store[r] \cup {e}
    <3>1. \A d \in store[r] : d.id # e.id
      BY <2>4 DEF Ids
    <3>2. QED
      BY <1>1, <1>3, <2>2, <2>4, <3>1 DEF StoreSound, Settled
  <2>5. QED
    BY <1>1, <2>3, <2>4
<1>7. ASSUME NEW a \in Proc, NEW i \in DOMAIN queue'[a]
      PROVE  InsertionSound(queue[a][i])'
  <2>1. PICK x : x = queue'[a][i]
    OBVIOUS
  <2>2. InsertionSound(x)
    <3>1. CASE a = p
      BY <1>3, <1>4, <1>7, <2>1, <3>1 DEF BoardInv
    <3>2. CASE a # p
      BY <1>3, <1>7, <2>1, <3>2 DEF BoardInv
    <3>3. QED
      BY <3>1, <3>2
  <2>3. QED
    BY <1>3, <2>1, <2>2 DEF InsertionSound, Settled
<1>8. QED
  BY <1>3, <1>5, <1>6, <1>7 DEF BoardInv

\* A command that dies drops its queue.
LEMMA KillStep ==
    ASSUME BoardInv, NEW p \in Proc, Kill(p)
    PROVE  BoardInv'
<1>1. PICK q : q = <<>>
  OBVIOUS
<1>2. q \in Seq(Insertion) /\ DOMAIN q = {}
  BY <1>1
<1>3. /\ queue' = [queue EXCEPT ![p] = q] /\ UNCHANGED <<clock, workspace, store, shown>>
      /\ fails' = fails + 1 /\ fails < MaxFails
  BY <1>1 DEF Kill
<1>4. clock <= clock' /\ clock' \in 0..MaxClock /\ fails' \in 0..MaxFails
  BY <1>3, BoardAssumption DEF BoardInv, TypeOK
<1>5. QED
  BY <1>2, <1>3, <1>4, OneQueue

\* Polling the inbox only reads.
LEMMA PollStep ==
    ASSUME BoardInv, NEW p \in Proc, PollInbox(p)
    PROVE  BoardInv'
<1>1. UNCHANGED <<clock, workspace, store, queue, fails>>
  BY DEF PollInbox
<1>2. Ids(Inbox(Home[p], p)) \subseteq 1..clock
  <2>1. Home[p] \in Repo
    BY BoardAssumption
  <2>2. Inbox(Home[p], p) \subseteq store[Home[p]]
    BY DEF Inbox, Newest, Addressed
  <2>3. \A e \in store[Home[p]] : e \in Event /\ e.id <= clock
    BY <2>1 DEF BoardInv, TypeOK
  <2>4. \A e \in store[Home[p]] : e.id \in 1..clock
    BY <2>3, BoardAssumption DEF Event, BoardInv, TypeOK
  <2>5. QED
    BY <2>2, <2>4 DEF Ids
<1>3. shown' \in [Proc -> SUBSET (1..clock')]
  BY <1>1, <1>2 DEF PollInbox, BoardInv, TypeOK
<1>4. TypeOK'
  BY <1>1, <1>3 DEF BoardInv, TypeOK
<1>5. QED
  BY <1>1, <1>4 DEF BoardInv, StoreSound, InsertionSound, Settled

(***************************************************************************)
(* The invariant, and what it implies.                                     *)
(***************************************************************************)
LEMMA BoardInit == Init => BoardInv
<1>1. SUFFICES ASSUME Init PROVE BoardInv
  OBVIOUS
<1>2. 0 \in 0..MaxClock /\ 0 \in 0..MaxFails
  BY BoardAssumption
<1>3. <<>> \in Seq(Insertion)
  OBVIOUS
<1>4. TypeOK
  BY <1>1, <1>2, <1>3, BoardAssumption DEF Init, TypeOK
<1>5. \A r \in Repo : StoreSound(r)
  BY <1>1 DEF Init, StoreSound
<1>6. \A p \in Proc : \A i \in DOMAIN queue[p] : InsertionSound(queue[p][i])
  <2>1. \A p \in Proc : queue[p] = <<>>
    BY <1>1 DEF Init
  <2>2. \A p \in Proc : DOMAIN queue[p] = {}
    BY <2>1
  <2>3. QED
    BY <2>2
<1>7. QED
  BY <1>4, <1>5, <1>6 DEF BoardInv

\* A workspace.json changes nothing that is stored.
LEMMA CreateStep ==
    ASSUME BoardInv, NEW r \in Repo, CreateWorkspace(r)
    PROVE  BoardInv'
<1>1. /\ workspace' = [workspace EXCEPT ![r] = "late"] /\ workspace[r] = "none"
      /\ UNCHANGED <<clock, store, queue, shown, fails>>
  BY DEF CreateWorkspace, named
<1>2. TypeOK' /\ Settled' = Settled
  BY <1>1 DEF BoardInv, TypeOK, Settled
<1>3. QED
  BY <1>1, <1>2 DEF BoardInv, StoreSound, InsertionSound

\* The command line, the tools and the app reach the store in the same ways.
LEMMA CommandStep ==
    ASSUME BoardInv, NEW p \in Proc, Command(p) \/ ToolCall(p) \/ AppRequest(p)
    PROVE  BoardInv'
<1>1. TaskCommand(p) \/ HandoffCommand(p) \/ CollabCommand(p)
  BY DEF Command, ToolCall, AppRequest, TaskTool, HandoffTool, CollabTool, TaskCommand
<1>2. QED
  BY <1>1, TaskStep, HandoffStep, CollabStep

\* Every step keeps the invariant.
LEMMA BoardStep == BoardInv /\ [Next]_vars => BoardInv'
<1>1. SUFFICES ASSUME BoardInv, [Next]_vars PROVE BoardInv'
  OBVIOUS
<1>2. ASSUME NEW p \in Proc, Command(p) \/ ToolCall(p) \/ AppRequest(p)
      PROVE  BoardInv'
  BY <1>1, <1>2, CommandStep
<1>3. ASSUME NEW p \in Proc, MeshCommand(p)
      PROVE  BoardInv'
  BY <1>1, <1>3, MeshStep DEF MeshCommand
<1>4. ASSUME NEW p \in Proc, Insert(p) \/ Kill(p) \/ PollInbox(p)
      PROVE  BoardInv'
  BY <1>1, <1>4, InsertStep, KillStep, PollStep
<1>5. ASSUME NEW r \in Repo, CreateWorkspace(r)
      PROVE  BoardInv'
  BY <1>1, <1>5, CreateStep
<1>6. CASE UNCHANGED vars
  BY <1>1, <1>6 DEF vars, BoardInv, TypeOK, StoreSound, InsertionSound, Settled
<1>7. QED
  BY <1>1, <1>2, <1>3, <1>4, <1>5, <1>6 DEF Next

\* Every reachable state of the board satisfies the inductive invariant: store.rs
\* keys events by workspace and never stores one id twice.
THEOREM BoardSound == Spec => []BoardInv
<1>1. QED
  BY BoardInit, BoardStep, PTL DEF Spec

\* The logs, the inserts under way and the watched inboxes keep their types.
THEOREM Typing == Spec => []TypeOK
<1>1. BoardInv => TypeOK
  BY DEF BoardInv
<1>2. QED
  BY <1>1, BoardSound, PTL

\* README.md:357: "Imported events appear in memory, message, task, and handoff
\* projections at the destination": whatever a repository with a workspace.json has
\* stored, by a command or by an import cut off anywhere, is listed in its
\* workspace, also beside repositories that get theirs later.
THEOREM ImportsListed == Spec => []ImportedIsListed
<1>1. BoardInv => ImportedIsListed
  BY BoardAssumption DEF BoardInv, StoreSound, Settled, ImportedIsListed, Listed
<1>2. QED
  BY <1>1, BoardSound, PTL

(***************************************************************************)
(* What an insert can do to a projection.                                  *)
(***************************************************************************)
Status(r, type, x, actions) == Latest(Moves(Listed(r, type), x, actions)).action

\* project_tasks gives a task the status of its latest event.
LEMMA TaskStatus ==
    ASSUME NEW r \in Repo, NEW x \in DOMAIN Tasks(r)
    PROVE  /\ x \in Opened(r, "task", "created")
           /\ Tasks(r)[x].status = Status(r, "task", x, {"created", "claimed", "completed"})
BY DEF Tasks, TaskSummary, Status

\* project_handoffs does the same for a handoff.
LEMMA HandoffStatus ==
    ASSUME NEW r \in Repo, NEW x \in DOMAIN Handoffs(r)
    PROVE  /\ x \in Opened(r, "handoff", "requested")
           /\ Handoffs(r)[x].status = Status(r, "handoff", x, {"requested", "accepted", "completed"})
BY DEF Handoffs, HandoffSummary, Status

\* If one stored event turns a completed item back, it is a later claim or acceptance.
LEMMA ReopeningMoves ==
    ASSUME BoardInv, BoardInv', NEW r \in Repo, NEW e \in Event,
           e.id \notin Ids(store[r]), store'[r] = store[r] \cup {e},
           NEW type, NEW open \in {"created", "requested"}, NEW move \in {"claimed", "accepted"},
           NEW x \in Opened(r, type, open),
           Status(r, type, x, {open, move, "completed"}) = "completed",
           Status(r, type, x, {open, move, "completed"})' # "completed"
    PROVE  MovedAfter(r, type, x)
<1> DEFINE actions == {open, move, "completed"}
<1>1. PICK M, N : /\ M = Moves(Listed(r, type), x, actions)
                  /\ N = Moves(Listed(r, type), x, actions)'
  OBVIOUS
<1>2. /\ store[r] \subseteq Event /\ store'[r] \subseteq Event
      /\ \A d, f \in store[r] : d.id = f.id => d = f
      /\ \A d \in store'[r] : OpensItself(d)
      /\ \A d \in store[r] : d.id # e.id
  BY DEF BoardInv, StoreSound, TypeOK, Ids
<1>3. /\ \A d : d \in M <=> /\ d \in store[r] /\ d.ws = r /\ d.type = type
                            /\ d.ref = x /\ d.id >= x /\ d.action \in actions
      /\ \A d : d \in N <=> /\ d \in store'[r] /\ d.ws = r /\ d.type = type
                            /\ d.ref = x /\ d.id >= x /\ d.action \in actions
  BY <1>1 DEF Moves, Listed
<1>4. M \in SUBSET Event /\ N \in SUBSET Event /\ M \subseteq N /\ N \subseteq M \cup {e}
  BY <1>2, <1>3
<1>5. \A d \in Event : d.id \in Nat
  BY BoardAssumption DEF Event
<1>6. PICK d \in M : d.id = x
  <2>1. PICK d \in Listed(r, type) : d.action = open /\ d.id = x
    BY DEF Opened
  <2>2. d \in store[r] /\ d.ws = r /\ d.type = type /\ d.ref = d.id
    BY <1>2, <2>1 DEF Listed, OpensItself
  <2>3. d.id >= x
    BY <1>2, <1>5, <2>1, <2>2
  <2>4. QED
    BY <1>3, <2>1, <2>2, <2>3
<1>7. PICK m, l : m = Latest(M) /\ l = Latest(N)
  OBVIOUS
<1>8. /\ m \in M /\ l \in N /\ \A f \in N : f.id <= l.id
      /\ \A f \in M : f.id <= m.id
  BY <1>4, <1>6, <1>7, LatestOf
<1>9. m.action = "completed" /\ l.action # "completed"
  <2>1. Status(r, type, x, actions) = m.action
    BY <1>1, <1>7 DEF Status
  <2>2. Status(r, type, x, actions)' = l.action
    BY <1>1, <1>7 DEF Status, Latest
  <2>3. QED
    BY <2>1, <2>2
<1>10. l = e
  <2>1. SUFFICES ASSUME l # e PROVE FALSE
    OBVIOUS
  <2>2. l \in M /\ m \in N
    BY <1>4, <1>8, <2>1
  <2>3. l.id <= m.id /\ m.id <= l.id /\ l.id \in Nat /\ m.id \in Nat
    BY <1>4, <1>5, <1>8, <2>2
  <2>4. l.id = m.id
    BY <2>3
  <2>5. l = m
    BY <1>2, <1>3, <1>8, <2>2, <2>4
  <2>6. QED
    BY <1>9, <2>5
<1>11. e \in N /\ e.ref = x /\ e.action = move
  <2>1. e \in N /\ e \in store'[r] /\ e.ref = x /\ e.action \in {open, move}
    BY <1>3, <1>8, <1>9, <1>10
  <2>2. e.action # open
    <3>1. e.action = open => e.id = x
      BY <1>2, <2>1 DEF OpensItself
    <3>2. d \in store[r]
      BY <1>3, <1>6
    <3>3. QED
      BY <1>2, <1>6, <3>1, <3>2
  <2>3. QED
    BY <2>1, <2>2
<1>12. \A f \in Moves(Listed(r, type), x, {"completed"}) : f.id < e.id
  <2>1. TAKE f \in Moves(Listed(r, type), x, {"completed"})
  <2>2. f \in M /\ f \in store[r]
    BY <1>3 DEF Moves, Listed
  <2>3. f.id <= e.id /\ f.id # e.id /\ f.id \in Nat /\ e.id \in Nat
    BY <1>2, <1>4, <1>5, <1>8, <1>10, <2>2
  <2>4. QED
    BY <2>3
<1>13. e \in Listed(r, type)'
  BY <1>3, <1>11 DEF Listed
<1>14. QED
  BY <1>11, <1>12, <1>13 DEF MovedAfter

\* Every reopening that a step can cause has that reason.
LEMMA ReopenedByMove ==
    ASSUME BoardInv, BoardInv', NEW p \in Proc, Insert(p), NEW r \in Repo
    PROVE  /\ \A t \in Reopened(Tasks(r)) : MovedAfter(r, "task", t)
           /\ \A h \in Reopened(Handoffs(r)) : MovedAfter(r, "handoff", h)
<1>1. PICK s \in Repo, e \in Event :
              /\ \A q \in Repo \ {s} : store'[q] = store[q]
              /\ \/ store'[s] = store[s]
                 \/ e.id \notin Ids(store[s]) /\ store'[s] = store[s] \cup {e}
  BY InsertAdds
<1>2. CASE store'[r] = store[r]
  <2>1. Tasks(r)' = Tasks(r)
    BY <1>2 DEF Tasks, TaskSummary, Listed, Opened, Moves, Latest
  <2>2. Handoffs(r)' = Handoffs(r)
    BY <1>2 DEF Handoffs, HandoffSummary, Listed, Opened, Moves, Latest
  <2>3. QED
    BY <2>1, <2>2 DEF Reopened
<1>3. CASE e.id \notin Ids(store[r]) /\ store'[r] = store[r] \cup {e}
  <2>1. ASSUME NEW type, NEW open, NEW x \in Opened(r, type, open)
        PROVE  x \in Opened(r, type, open)'
    BY <1>3, <2>1 DEF Opened, Listed
  <2>2. ASSUME NEW t \in Reopened(Tasks(r))
        PROVE  MovedAfter(r, "task", t)
    <3>1. t \in DOMAIN Tasks(r) /\ Tasks(r)[t].status = "completed" /\ Tasks(r)'[t].status # "completed"
      BY <2>2 DEF Reopened
    <3>2. t \in Opened(r, "task", "created")
      BY <3>1, TaskStatus
    <3>3. t \in Opened(r, "task", "created")'
      BY <2>1, <3>2
    <3>4. Status(r, "task", t, {"created", "claimed", "completed"}) = "completed"
      BY <3>1, TaskStatus
    <3>5. Status(r, "task", t, {"created", "claimed", "completed"})' # "completed"
      BY <3>1, <3>3 DEF Tasks, TaskSummary, Status
    <3>6. QED
      BY <1>3, <3>2, <3>4, <3>5, ReopeningMoves
  <2>3. ASSUME NEW h \in Reopened(Handoffs(r))
        PROVE  MovedAfter(r, "handoff", h)
    <3>1. h \in DOMAIN Handoffs(r) /\ Handoffs(r)[h].status = "completed"
          /\ Handoffs(r)'[h].status # "completed"
      BY <2>3 DEF Reopened
    <3>2. h \in Opened(r, "handoff", "requested")
      BY <3>1, HandoffStatus
    <3>3. h \in Opened(r, "handoff", "requested")'
      BY <2>1, <3>2
    <3>4. Status(r, "handoff", h, {"requested", "accepted", "completed"}) = "completed"
      BY <3>1, HandoffStatus
    <3>5. Status(r, "handoff", h, {"requested", "accepted", "completed"})' # "completed"
      BY <3>1, <3>3 DEF Handoffs, HandoffSummary, Status
    <3>6. QED
      BY <1>3, <3>2, <3>4, <3>5, ReopeningMoves
  <2>4. QED
    BY <2>2, <2>3
<1>4. QED
  BY <1>1, <1>2, <1>3

\* A completed task is claimed again, and a completed handoff accepted again,
\* only by a move made after its completion, whatever older events an import
\* brings, in whatever order and wherever it is cut off.
THEOREM CompletionsLast == Spec => CompletedUntilLaterMove
<1>1. ASSUME BoardInv, BoardInv', [Next]_vars
      PROVE  [\A r \in Repo :
                /\ \A t \in Reopened(Tasks(r)) : MovedAfter(r, "task", t)
                /\ \A h \in Reopened(Handoffs(r)) : MovedAfter(r, "handoff", h)]_store
  <2>1. ASSUME NEW p \in Proc, Insert(p)
        PROVE  \A r \in Repo :
                /\ \A t \in Reopened(Tasks(r)) : MovedAfter(r, "task", t)
                /\ \A h \in Reopened(Handoffs(r)) : MovedAfter(r, "handoff", h)
    BY <1>1, <2>1, ReopenedByMove
  <2>2. ASSUME NEW p \in Proc, Command(p) \/ ToolCall(p) \/ AppRequest(p)
        PROVE  store' = store
    BY <2>2 DEF Command, ToolCall, AppRequest, TaskTool, HandoffTool, CollabTool,
                TaskCommand, HandoffCommand, CollabCommand, AppendEvents,
                CreateTask, ClaimTask, UpdateTask, CompleteTask, RequestHandoff,
                AcceptHandoff, CompleteHandoff, SendMessage, StartCollab, PassTask
  <2>3. ASSUME NEW p \in Proc, MeshCommand(p) \/ Kill(p) \/ PollInbox(p)
        PROVE  store' = store
    BY <2>3 DEF MeshCommand, SyncMesh, ImportArchive, Kill, PollInbox
  <2>4. CASE UNCHANGED vars \/ \E r \in Repo : CreateWorkspace(r)
    BY <2>4 DEF vars, CreateWorkspace
  <2>5. QED
    BY <1>1, <2>1, <2>2, <2>3, <2>4 DEF Next
<1>2. QED
  BY <1>1, BoardSound, PTL DEF Spec, CompletedUntilLaterMove
=============================================================================
