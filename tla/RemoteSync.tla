----------------------------- MODULE RemoteSync -----------------------------
(***************************************************************************)
(* stl sync, stl sync push and stl sync pull (src/src/remote.rs): several  *)
(* repositories with event logs of their own exchange them through one     *)
(* project of the gateway.  A push sends the local events after the cursor *)
(* push_after, oldest first, and saves the cursor after each; a pull first *)
(* pages backwards through the whole project (backfill) and from then on   *)
(* forwards from the newest event it saw (incremental), saving its place   *)
(* after each page.  The checkpoint file is all that survives a failed or  *)
(* killed sync besides the two logs.  A push and a pull load it once and   *)
(* save it whole, whatever another sync of the repository saved since.     *)
(*                                                                         *)
(* An event is the number its cursor (created_at, id) has in the order of  *)
(* all cursors; 0 is no cursor.  Not modelled: payloads, the rewriting of  *)
(* workspace_id, and the temporary file that two saves of one checkpoint   *)
(* at the same moment share.                                               *)
(***************************************************************************)
EXTENDS Naturals, FiniteSets, FiniteSetsExt

CONSTANTS
    NumReplicas,
    Process,     \* stl processes that sync
    Home,        \* the replica each of them works in
    Skew,        \* how far the clock of each replica is ahead
    Page,        \* PULL_PAGE_LIMIT
    Cap,         \* the most rows listEvents of the gateway reads
    MaxClock,    \* bound: events recorded
    MaxFails     \* bound: failed or killed syncs

Replica == 1..NumReplicas

ASSUME SyncAssumption ==
    /\ NumReplicas \in Nat \ {0}
    /\ Home \in [Process -> Replica]
    /\ Skew \in [Replica -> Nat]
    /\ Page \in Nat \ {0}
    /\ Cap \in Nat \ {0}
    /\ MaxClock \in Nat
    /\ MaxFails \in Nat

VARIABLES
    clock,       \* moments at which something was recorded
    local,       \* the events in each replica's store
    remote,      \* the events of the gateway's project
    checkpoint,  \* SyncCheckpoint of each replica, on disk
    session,     \* the sync a process is running, in memory
    fails,       \* syncs that failed so far
    late,        \* events that reached the gateway behind a newer one (history)
    behind,      \* events recorded behind a newer one of their replica (history)
    hidden       \* per replica: what was on the gateway, beyond the page that
                 \* was said to be the last and ended a backfill (history)

logs == <<local, remote, late, behind, hidden>>
vars == <<clock, logs, checkpoint, session, fails>>

Stamp(r, t) == (t + Skew[r]) * NumReplicas + r
Event == {Stamp(r, t) : r \in Replica, t \in 1..MaxClock}
Cursor == Event \cup {0}

Checkpoint == [push : Cursor, phase : {"backfill", "incremental"},
               before : Cursor, after : Cursor]

NoCheckpoint == [push |-> 0, phase |-> "backfill", before |-> 0, after |-> 0]

\* "saved" is the checkpoint as the process knows it.
Idle == [stage |-> "idle", thenPull |-> FALSE, queue |-> {}, forward |-> FALSE,
         cursor |-> 0, latest |-> 0, page |-> {}, more |-> FALSE, saved |-> NoCheckpoint]

TypeOK ==
    /\ clock \in 0..MaxClock
    /\ local \in [Replica -> SUBSET Event]
    /\ remote \subseteq Event
    /\ late \subseteq remote
    /\ behind \subseteq Event
    /\ hidden \in [Replica -> SUBSET Event]
    /\ checkpoint \in [Replica -> Checkpoint]
    /\ session \in [Process ->
          [stage    : {"idle", "load", "append", "savePush", "fetch", "import", "savePage"},
           thenPull : BOOLEAN, queue : SUBSET Event, forward : BOOLEAN,
           cursor   : Cursor, latest : Cursor, page : SUBSET Event, more : BOOLEAN,
           saved    : Checkpoint]]
    /\ fails \in 0..MaxFails

Init ==
    /\ clock = 0
    /\ local = [r \in Replica |-> {}]
    /\ remote = {}
    /\ checkpoint = [r \in Replica |-> NoCheckpoint]
    /\ session = [p \in Process |-> Idle]
    /\ fails = 0
    /\ late = {}
    /\ behind = {}
    /\ hidden = [r \in Replica |-> {}]

\* Another stl command records an event, at any time.
Record(r) ==
    /\ clock < MaxClock
    /\ clock' = clock + 1
    /\ LET e == Stamp(r, clock + 1)
       IN  /\ local' = [local EXCEPT ![r] = @ \cup {e}]
           /\ behind' = IF \E f \in local[r] : f > e THEN behind \cup {e} ELSE behind
    /\ UNCHANGED <<remote, late, hidden, checkpoint, session, fails>>

Go(p, s) == session' = [session EXCEPT ![p] = s]

\* The checkpoint as changed, in memory and on disk.
Save(p, s, c) ==
    /\ checkpoint' = [checkpoint EXCEPT ![Home[p]] = c]
    /\ Go(p, [s EXCEPT !.saved = IF s.stage = "idle" THEN NoCheckpoint ELSE c])

(***************************************************************************)
(* push_impl                                                               *)
(***************************************************************************)
\* The local log is listed; stl sync goes on to pull.
BeginPush(p, thenPull) ==
    /\ session[p].stage = "idle"
    /\ Go(p, [Idle EXCEPT !.stage = "load", !.thenPull = thenPull,
                          !.queue = local[Home[p]]])
    /\ UNCHANGED <<clock, logs, checkpoint, fails>>

\* Then the checkpoint is read: what is after its cursor will be uploaded.
LoadPush(p) ==
    LET c == checkpoint[Home[p]]
    IN  /\ session[p].stage = "load"
        /\ Go(p, [session[p] EXCEPT !.stage = "append", !.saved = c,
                                    !.queue = {e \in @ : e > c.push}])
        /\ UNCHANGED <<clock, logs, checkpoint, fails>>

\* append_event; the gateway stores an id it already has no second time.
Upload(e) ==
    /\ remote' = remote \cup {e}
    /\ late' = IF e \notin remote /\ \E f \in remote : f > e
               THEN late \cup {e} ELSE late

AppendEvent(p) ==
    /\ session[p].stage = "append"
    /\ session[p].queue # {}
    /\ Upload(Min(session[p].queue))
    /\ Go(p, [session[p] EXCEPT !.stage = "savePush"])
    /\ UNCHANGED <<clock, local, behind, hidden, checkpoint, fails>>

\* The answer is lost on the way, and the request sent again.
Retry(p) ==
    /\ session[p].stage = "savePush"
    /\ fails < MaxFails
    /\ fails' = fails + 1
    /\ Go(p, [session[p] EXCEPT !.stage = "append"])
    /\ UNCHANGED <<clock, logs, checkpoint>>

\* Mutant: the cursor of the whole queue is saved after its first event.
SavePush_WholeQueue(p) ==
    /\ session[p].stage = "savePush"
    /\ Save(p, [session[p] EXCEPT !.stage = "append", !.queue = @ \ {Min(@)}],
            [session[p].saved EXCEPT !.push = Max(session[p].queue)])
    /\ UNCHANGED <<clock, logs, fails>>

\* push_after is saved after each event.
SavePush(p) ==
    LET e == Min(session[p].queue)
    IN  /\ session[p].stage = "savePush"
        /\ Save(p, [session[p] EXCEPT !.stage = "append", !.queue = @ \ {e}],
                [session[p].saved EXCEPT !.push = e])
        /\ UNCHANGED <<clock, logs, fails>>

(***************************************************************************)
(* pull_impl and pull_incremental                                          *)
(***************************************************************************)
\* Mutant: an incremental pull starts at the push cursor.
StartOfPull_PushCursor(p) ==
    LET c == checkpoint[Home[p]]
        forward == c.phase = "incremental" /\ c.after # 0
    IN  [Idle EXCEPT !.stage = "fetch", !.forward = forward, !.saved = c,
                     !.cursor = IF forward THEN c.push ELSE c.before,
                     !.latest = c.after]

\* Where a pull starts, from the checkpoint on disk.
StartOfPull(p) ==
    LET c == checkpoint[Home[p]]
        forward == c.phase = "incremental" /\ c.after # 0
    IN  [Idle EXCEPT !.stage = "fetch", !.forward = forward, !.saved = c,
                     !.cursor = IF forward THEN c.after ELSE c.before,
                     !.latest = c.after]

EndPush(p) ==
    /\ session[p].stage = "append"
    /\ session[p].queue = {}
    /\ Go(p, IF session[p].thenPull THEN StartOfPull(p) ELSE Idle)
    /\ UNCHANGED <<clock, logs, checkpoint, fails>>

BeginPull(p) ==
    /\ session[p].stage = "idle"
    /\ Go(p, StartOfPull(p))
    /\ UNCHANGED <<clock, logs, checkpoint, fails>>

Newest(S, n) == {e \in S : Cardinality({f \in S : f > e}) < n}
Oldest(S, n) == {e \in S : Cardinality({f \in S : f < e}) < n}

\* listEvents: the rows after or before a cursor, ascending after, descending
\* otherwise, at most n.
Rows(forward, cursor, n) ==
    IF forward THEN Oldest({e \in remote : e > cursor}, n)
    ELSE Newest({e \in remote : cursor = 0 \/ e < cursor}, n)

\* The handler asks for one row more than the page to learn whether there are
\* more, and the repository clamps what it is asked for.
ListedPage(forward, cursor) ==
    LET rows == Rows(forward, cursor, Min({Page + 1, Cap}))
    IN  [events |-> IF forward THEN Oldest(rows, Page) ELSE Newest(rows, Page),
         more   |-> Cardinality(rows) > Page]

\* list_events and list_events_after; a lost answer is asked for again.
Fetch(p) ==
    LET s   == session[p]
        got == ListedPage(s.forward, s.cursor)
    IN  /\ s.stage = "fetch"
        /\ Go(p, IF got.events = {} THEN Idle
                 ELSE [s EXCEPT !.stage = "import",
                                !.page = got.events,
                                !.more = got.more,
                                !.latest = IF @ = 0 THEN Max(got.events) ELSE @])
        /\ UNCHANGED <<clock, logs, checkpoint, fails>>

\* Mutant: a page that cannot be stored is passed over.
Import_Skip(p) ==
    /\ session[p].stage = "import"
    /\ Go(p, [session[p] EXCEPT !.stage = "savePage"])
    /\ UNCHANGED <<clock, logs, checkpoint, fails>>

\* append_if_absent for every event of the page.
Import(p) ==
    /\ session[p].stage = "import"
    /\ local' = [local EXCEPT ![Home[p]] = @ \cup session[p].page]
    /\ Go(p, [session[p] EXCEPT !.stage = "savePage"])
    /\ UNCHANGED <<clock, remote, late, behind, hidden, checkpoint, fails>>

\* Mutant: the cursor saved is one past the page.
PageSaved_PastPage(c, s) ==
    IF s.forward THEN [c EXCEPT !.after = Max(s.page) + 1]
    ELSE IF s.more THEN [c EXCEPT !.before = Min(s.page) - 1, !.after = s.latest]
    ELSE [c EXCEPT !.phase = "incremental", !.before = 0, !.after = s.latest]

\* Mutant: the first page ends the backfill.
PageSaved_OnePage(c, s) ==
    IF s.forward THEN [c EXCEPT !.after = Max(s.page)]
    ELSE [c EXCEPT !.phase = "incremental", !.before = 0, !.after = s.latest]

\* What is saved after a page.
PageSaved(c, s) ==
    IF s.forward THEN [c EXCEPT !.after = Max(s.page)]
    ELSE IF s.more THEN [c EXCEPT !.before = Min(s.page), !.after = s.latest]
    ELSE [c EXCEPT !.phase = "incremental", !.before = 0, !.after = s.latest]

\* The checkpoint is saved once per page, and the last page ends the pull.
SavePage(p) ==
    LET s == session[p]
    IN  /\ s.stage = "savePage"
        /\ Save(p, IF s.more
                   THEN [s EXCEPT !.stage = "fetch", !.page = {},
                                  !.cursor = IF s.forward THEN Max(s.page) ELSE Min(s.page)]
                   ELSE Idle,
                PageSaved(s.saved, s))
        /\ hidden' = IF s.forward \/ s.more THEN hidden
                     ELSE [hidden EXCEPT ![Home[p]] =
                             @ \cup {e \in remote \ late : e < Min(s.page)}]
        /\ UNCHANGED <<clock, local, remote, late, behind, fails>>

\* A request fails as often as it is tried, a save fails, or the process is killed: the command
\* ends.  In the middle of an import some of the page is already stored.
Fail(p) ==
    LET s == session[p]
    IN  /\ s.stage # "idle"
        /\ fails < MaxFails
        /\ fails' = fails + 1
        /\ Go(p, Idle)
        /\ IF s.stage = "import"
           THEN \E n \in 0..(Cardinality(s.page) - 1) :
                   local' = [local EXCEPT ![Home[p]] = @ \cup
                       (IF s.forward THEN Oldest(s.page, n) ELSE Newest(s.page, n))]
           ELSE UNCHANGED local
        /\ UNCHANGED <<clock, remote, late, behind, hidden, checkpoint>>

Step(p) ==
    \/ LoadPush(p) \/ AppendEvent(p) \/ SavePush(p) \/ EndPush(p)
    \/ Fetch(p) \/ Import(p) \/ SavePage(p)

Next ==
    (\E r \in Replica : Record(r)) \/ \E p \in Process :
        \/ BeginPush(p, TRUE)
        \/ BeginPush(p, FALSE)
        \/ BeginPull(p)
        \/ Step(p)
        \/ Retry(p)
        \/ Fail(p)

\* A command that runs gets on with it, and stl sync is run again and again
\* in every repository (by its user or a timer), besides any pushes and pulls.
Fairness ==
    \A p \in Process : /\ WF_vars(Step(p))
                       /\ SF_vars(BeginPush(p, TRUE))

Spec == Init /\ [][Next]_vars /\ Fairness

(***************************************************************************)
(* Properties                                                              *)
(***************************************************************************)
\* push: "upload local events".  Behind the saved cursor nothing local is
\* missing on the gateway, wherever earlier pushes and pulls were cut off,
\* except what was recorded by a clock behind an event that was there already:
\* pulled from a machine whose clock is ahead, pushed back, and passed by the
\* cursor.
PushedUpToCursor ==
    \A r \in Replica : \A e \in local[r] \ behind :
        e <= checkpoint[r].push => e \in remote

\* stl sync push: "upload local events" (docs/deploy-cloudflare.md:201), with no
\* exception for clocks: nothing local is behind the saved cursor and missing.
EveryLocalPushed ==
    \A r \in Replica : \A e \in local[r] : e <= checkpoint[r].push => e \in remote

\* pull: "every gateway event ... until the last page".  Once the backfill is
\* over, nothing that reached the gateway in cursor order is missing up to the
\* saved cursor: page boundaries, failures and events arriving during a pull
\* lose none of them.  (One that arrives behind the cursor is never pulled.)
InOrderPulledUpToCursor ==
    \A r \in Replica :
        checkpoint[r].phase = "incremental" =>
            \A e \in remote \ late : e <= checkpoint[r].after => e \in local[r]

\* The same for every page size and limit, the deployed ones included: apart
\* from what was beyond a page that the gateway wrongly called the last one,
\* nothing in order is missing up to the saved cursor.  One page cut short
\* costs what lies before it, never anything after it.
PulledUnlessHidden ==
    \A r \in Replica :
        checkpoint[r].phase = "incremental" =>
            \A e \in remote \ late :
                e <= checkpoint[r].after => e \in local[r] \cup hidden[r]

\* An unfinished backfill has everything between its two cursors, so that the
\* next pull may start at the older one.
BackfillHasNoGap ==
    \A r \in Replica : LET c == checkpoint[r] IN
        c.phase = "backfill" /\ c.before # 0 =>
            \A e \in remote \ late : c.before <= e /\ e <= c.after => e \in local[r]

\* Once nothing more is recorded (the bound sees to that), every event that
\* reached the gateway in cursor order is everywhere, whatever failed.
EventuallyEverywhere ==
    <>[](\A r \in Replica : remote \ late \subseteq local[r])
=============================================================================
