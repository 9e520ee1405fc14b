----------------------------- MODULE AtomicClaim -----------------------------
(***************************************************************************)
(* One row of task_claims or workflow_step_claims and the event log, under *)
(* concurrent claim requests (appendAtomicClaim in                         *)
(* src/workers/shuttle-gateway/src/repository.ts) and concurrent pushes of *)
(* historical claim events (appendEvent).                                  *)
(*                                                                         *)
(* A claim runs one D1 batch, which is a transaction, and then reads the   *)
(* row back outside it to choose its answer.  A push looks the event id    *)
(* up, inserts the event in a batch and then writes the claim row in a     *)
(* statement of its own.  Other requests run between any two of these, a   *)
(* worker invocation may end between them, and a client may send a request *)
(* or an event again under the same event id.                              *)
(*                                                                         *)
(* An event is its id, and a claim request is named by the event id it     *)
(* carries.  AgentOf is the authenticated agent of a request, the agent or *)
(* claimed_by of a pushed event.  A missing row and one whose claimed_by   *)
(* is NULL behave alike: the batch starts with INSERT OR IGNORE.           *)
(***************************************************************************)
CONSTANTS
    Agents, Nobody, NoEvent,
    Requests,     \* claim requests, by event id
    Takeovers,    \* those with takeover = true (and a reason)
    Imports,      \* claim events of pushed history, by event id
    AgentOf,      \* the agent of each of them
    Pushes,       \* deliveries of the pushes; retry_request repeats one
    EventOf       \* the event each delivery carries

Events == Requests \cup Imports

ASSUME ClaimAssumption ==
    /\ Nobody \notin Agents
    /\ NoEvent \notin Events
    /\ Takeovers \subseteq Requests
    /\ Requests \cap Imports = {}
    /\ AgentOf \in [Events -> Agents]
    /\ EventOf \in [Pushes -> Imports]

VARIABLES
    row,      \* claimed_by and claim_event_id of the row
    events,   \* ids of the stored events
    claim,    \* claim requests: "ready" to run, "batched" or "answered"
    reply,    \* the last answer each claim request got
    push      \* deliveries: "ready", "absent", "stored" or "ended"

vars == <<row, events, claim, reply, push>>

FreeRow == [by |-> Nobody, event |-> NoEvent]

\* Mutant: the positional parameters of the UPDATE are bound in the wrong order.
RowOf_Swapped(e) == [by |-> e, event |-> AgentOf[e]]

\* What the UPDATE and the upsert write for the event e.
RowOf(e) == [by |-> AgentOf[e], event |-> e]

\* "claimed" is deduplicated: false, "kept" is deduplicated: true, "conflict"
\* is the 409 and "no_audit" the error "claim succeeded without an audit
\* event".
Replies == {"none", "claimed", "kept", "conflict", "no_audit"}
Granted == {"claimed", "kept"}

TypeOK ==
    /\ row \in [by : Agents \cup {Nobody}, event : Events \cup {NoEvent}]
    /\ events \subseteq Events
    /\ claim \in [Requests -> {"ready", "batched", "answered"}]
    /\ reply \in [Requests -> Replies]
    /\ push \in [Pushes -> {"ready", "absent", "stored", "ended"}]

\* Migration 0002 seeds the row from a claim event already in the log.
Init ==
    /\ events \in SUBSET Imports
    /\ row \in IF events = {} THEN {FreeRow} ELSE {RowOf(i) : i \in events}
    /\ claim = [r \in Requests |-> "ready"]
    /\ reply = [r \in Requests |-> "none"]
    /\ push = [d \in Pushes |-> "ready"]

(***************************************************************************)
(* appendAtomicClaim                                                       *)
(***************************************************************************)
\* Mutant: the UPDATE does not ask whether the row is claimed.
Wins_Unconditional(r) == TRUE

\* The WHERE of the UPDATE.
Wins(r) ==
    \/ row.by = Nobody
    \/ r \in Takeovers /\ row.by # AgentOf[r]

\* Mutant: the event is inserted whoever has the row.
Batch_AlwaysAudits(r) ==
    /\ claim[r] = "ready"
    /\ row' = IF Wins(r) THEN RowOf(r) ELSE row
    /\ events' = events \cup {r}
    /\ claim' = [claim EXCEPT ![r] = "batched"]
    /\ UNCHANGED <<reply, push>>

\* Mutant: the batch ends before its conditional insert of the event.
Batch_NoAudit(r) ==
    /\ claim[r] = "ready"
    /\ row' = IF Wins(r) THEN RowOf(r) ELSE row
    /\ claim' = [claim EXCEPT ![r] = "batched"]
    /\ UNCHANGED <<events, reply, push>>

\* db.batch(statements): the row is taken if it may be, and the event is
\* inserted if the row now names this very event and agent.
Batch(r) ==
    /\ claim[r] = "ready"
    /\ row' = IF Wins(r) THEN RowOf(r) ELSE row
    /\ events' = IF row' = RowOf(r) THEN events \cup {r} ELSE events
    /\ claim' = [claim EXCEPT ![r] = "batched"]
    /\ UNCHANGED <<reply, push>>

\* Mutant: the answer looks for the request's event, not for its row.
Answer_ByEvent(r) ==
    IF r \in events THEN "claimed"
    ELSE IF row.by = AgentOf[r] THEN "kept" ELSE "conflict"

\* The SELECT of the row after the batch, and the answer it leads to.
Answer(r) ==
    IF row.event = r
    THEN IF r \in events THEN "claimed" ELSE "no_audit"
    ELSE IF row.by = AgentOf[r] /\ row.event \in events THEN "kept" ELSE "conflict"

Readback(r) ==
    /\ claim[r] = "batched"
    /\ reply' = [reply EXCEPT ![r] = Answer(r)]
    /\ claim' = [claim EXCEPT ![r] = "answered"]
    /\ UNCHANGED <<row, events, push>>

\* The invocation ends before its answer is out, or the answer is lost; or a
\* client sends an answered request once more.  The event id stays.
SendAgain(r) ==
    /\ claim[r] \in {"batched", "answered"}
    /\ claim' = [claim EXCEPT ![r] = "ready"]
    /\ UNCHANGED <<row, events, reply, push>>

(***************************************************************************)
(* appendEvent, for an event with a claim action                           *)
(***************************************************************************)
\* Dedupe by event id.
LookUp(d) ==
    /\ push[d] = "ready"
    /\ push' = [push EXCEPT ![d] = IF EventOf[d] \in events THEN "ended" ELSE "absent"]
    /\ UNCHANGED <<row, events, claim, reply>>

\* Mutant: the projection is written before the event is.
Store_RowFirst(d) ==
    /\ push[d] = "absent"
    /\ row' = RowOf(EventOf[d])
    /\ push' = [push EXCEPT ![d] = "stored"]
    /\ UNCHANGED <<events, claim, reply>>

\* The batch: INSERT OR IGNORE of the event and its tags.
Store(d) ==
    /\ push[d] = "absent"
    /\ events' = events \cup {EventOf[d]}
    /\ push' = [push EXCEPT ![d] = "stored"]
    /\ UNCHANGED <<row, claim, reply>>

\* The upsert of the claim row, a statement of its own.
Project(d) ==
    /\ push[d] = "stored"
    /\ row' = RowOf(EventOf[d])
    /\ push' = [push EXCEPT ![d] = "ended"]
    /\ UNCHANGED <<events, claim, reply>>

\* The invocation ends between two of its statements.
Die(d) ==
    /\ push[d] \in {"absent", "stored"}
    /\ push' = [push EXCEPT ![d] = "ended"]
    /\ UNCHANGED <<row, events, claim, reply>>

Next ==
    \/ \E r \in Requests : Batch(r) \/ Readback(r) \/ SendAgain(r)
    \/ \E d \in Pushes : LookUp(d) \/ Store(d) \/ Project(d) \/ Die(d)

Spec == Init /\ [][Next]_vars

(***************************************************************************)
(* Properties                                                              *)
(***************************************************************************)
\* The claim row never names an owner whose claim is not in the audit log,
\* and the event it names is that owner's: no interleaving of batches,
\* upserts and deaths shows a claim "without an audit event".
RowIsAudited ==
    row # FreeRow => row.event \in events /\ row = RowOf(row.event)

\* Of all requests without takeover at most one ever gets its event into the
\* log: "a competing request can never append an audit event merely because
\* another request already owns the row", however often requests are resent.
OneFirstClaim ==
    \A r, s \in events \cap (Requests \ Takeovers) : r = s

\* Two different agents were both told they own the claim only if one of them
\* took it over or has it from pushed history, and the log shows that event.
TwoOwnersNeedTakeover ==
    \A r, s \in Requests :
        /\ reply[r] \in Granted
        /\ reply[s] \in Granted
        /\ AgentOf[r] # AgentOf[s]
        => \E e \in events \cap (Takeovers \cup Imports) :
              AgentOf[e] \in {AgentOf[r], AgentOf[s]}

\* A granted request leaves a trace: "claimed" means its own event is in the
\* log, and either grant that some claim event of its agent is, whatever was
\* claimed, taken over or imported between the batch and the read.
GrantIsAudited ==
    \A r \in Requests :
        /\ reply[r] # "no_audit"
        /\ reply[r] = "claimed" => r \in events
        /\ reply[r] \in Granted => \E e \in events : AgentOf[e] = AgentOf[r]

\* The endpoint keeps the promise of ClaimLock: the owner is the row's, and
\* each answer agrees with it at the instant it is read.
told == [r \in Requests |->
           CASE reply[r] = "none"        -> "none"
             [] reply[r] \in Granted     -> "yours"
             [] OTHER                    -> "taken"]

Lock == INSTANCE ClaimLock WITH owner <- row.by, told <- told

LockSpec == Lock!Spec
=============================================================================
