------------------------------- MODULE Access -------------------------------
(***************************************************************************)
(* The OAuth server of the HTTP app and of the gateway (src/src/oauth.rs,  *)
(* the routes of src/src/app.rs and src/src/gateway.rs): clients,          *)
(* authorization codes, access tokens, rate limits and their purging, in a *)
(* database that several servers may share and that older versions wrote.  *)
(*                                                                         *)
(* A server holds one connection behind a mutex, so it works on one        *)
(* request at a time; two servers interleave between its statements.  Each *)
(* statement that writes is a step and commits on its own, except that the *)
(* reading, the use and the exchange of a code are one deferred            *)
(* transaction.  A request begins with one step that purges codes, purges  *)
(* tokens and reads a rate limit: what is purged no statement would use    *)
(* any more, and a purge alone (CleanupExpired) may come before at any     *)
(* time, so a step of another server between the three shows nothing new.  *)
(*                                                                         *)
(* Time is a small counter.  A code carries the client that was approved;  *)
(* its redirect URI, scope and PKCE challenge are data a token request     *)
(* matches or does not.  The admin token of the owner is checked before    *)
(* Authorize.                                                              *)
(***************************************************************************)
EXTENDS Migration, FiniteSets

CONSTANTS
    Client, Code, Token,
    Legacy,        \* tokens of the time when tokens were stored unhashed
    Dynamic,       \* whether dynamic registration is enabled
    Known,         \* clients registered before
    MaxRequests,   \* the rate limit of a key
    Window, CodeLife, TokenLife,
    MaxTime,       \* bound: the clock
    MaxFails       \* bound: ended processes

\* The third migration of the OAuth store begins with the read of the tokens.
ASSUME AccessAssumption ==
    /\ "oauth" \in Schema
    /\ Latest["oauth"] >= 3 /\ 3 \in ReadsFirst["oauth"]
    /\ Legacy \subseteq Token
    /\ Known \subseteq Client
    /\ Dynamic \in BOOLEAN
    /\ {MaxRequests, Window, CodeLife, TokenLife} \subseteq Nat \ {0}
    /\ {MaxTime, MaxFails} \subseteq Nat

VARIABLES
    now,
    clients,
    codes,      \* the rows of oauth_codes
    tokens,     \* the rows of oauth_tokens
    limits,     \* the rows of oauth_rate_limits
    request,    \* the request a server works on
    answer,     \* what a server last answered to a bearer token
    issued,     \* history: when each token runs out, and the code it came from
    revoked,    \* history: tokens revoked
    fails

accessVars == <<now, clients, codes, tokens, limits, request, answer, issued, revoked, fails>>
vars == <<migrationVars, accessVars>>

Key == {<<"registration">>} \cup ({"authorize", "token"} \X Client)

\* A token's row holds the token itself, its digest, or the digest of that.
Form == {"raw", "digest", "digest of digest"}

Time == 0..(MaxTime + CodeLife + TokenLife)
Rate == [started : Time, count : 0..MaxRequests]
CodeRow == [code : Code, client : Client, expires : Time, used : BOOLEAN]
TokenRow == [token : Token, form : Form, expires : Time, revoked : BOOLEAN]

Idle == [op |-> "idle"]

\* What follows once a request is counted.
Purpose ==
    [op : {"register"}, client : Client] \cup
    [op : {"authorize"}, client : Client, code : Code, expires : Time] \cup
    [op : {"select"}, client : Client, code : Code]

Request ==
    {Idle} \cup Purpose \cup
    [op : {"count"}, key : Key, rate : Rate, next : Purpose] \cup
    [op : {"use"}, client : Client, code : Code] \cup
    [op : {"check"}, token : Token]

TypeOK ==
    /\ MigrationTypeOK
    /\ now \in 0..MaxTime
    /\ clients \subseteq Client
    /\ codes \subseteq CodeRow
    /\ tokens \subseteq TokenRow
    /\ DOMAIN limits \subseteq Key /\ \A k \in DOMAIN limits : limits[k] \in Rate
    /\ request \in [Proc -> Request]
    /\ answer \in [Proc -> {"none", "accepted", "refused"}]
    /\ DOMAIN issued \subseteq Token
    /\ \A t \in DOMAIN issued : issued[t] \in [expires : Time, code : Code \cup {"none"}]
    /\ revoked \subseteq Token
    /\ fails \in 0..MaxFails

\* Old rows exist only in an old file; a file of version 3 has them hashed.
Init ==
    /\ MigrationInit
    /\ LET old == IF 1 \in applied["oauth"] THEN Legacy ELSE {}
           form == IF 3 \in applied["oauth"] THEN "digest" ELSE "raw"
       IN  /\ tokens = [token : old, form : {form}, expires : {TokenLife}, revoked : {FALSE}]
           /\ issued = [t \in old |-> [expires |-> TokenLife, code |-> "none"]]
           /\ clients = IF 1 \in applied["oauth"] THEN Known ELSE {}
    /\ now = 0
    /\ codes = {}
    /\ limits = <<>>
    /\ request = [p \in Proc |-> Idle]
    /\ answer = [p \in Proc |-> "none"]
    /\ revoked = {}
    /\ fails = 0

Working(p, op) == IsOpen(p) /\ request[p].op = op

(***************************************************************************)
(* Opening                                                                 *)
(***************************************************************************)
\* The third migration of the OAuth store, which a slow process may repeat.
\* Mutant: every row is hashed.
HashTokens_All ==
    {[row EXCEPT !.form = IF @ = "raw" THEN "digest" ELSE "digest of digest"] : row \in tokens}

HashTokens ==
    {[row EXCEPT !.form = IF @ = "raw" THEN "digest" ELSE @] : row \in tokens}

Hashes(p) ==
    /\ opening[p].step = "snapshot" /\ p \in fresh
    /\ Order[opening[p].at] = "oauth" /\ opening[p].target = 3

OpenStep(p) ==
    \/ (Open(p) \/ ReadVersion(p)) /\ UNCHANGED accessVars
    \/ /\ Migrating(p)
       /\ tokens' = IF Hashes(p) THEN HashTokens ELSE tokens
       /\ UNCHANGED <<now, clients, codes, limits, request, answer, issued, revoked, fails>>

(***************************************************************************)
(* Purging and rate limits                                                 *)
(***************************************************************************)
Purged == {row \in codes : row.expires < now} \cup
          {row \in tokens : row.expires < now \/ row.revoked}

PurgeExpired(p) ==
    /\ codes' = codes \ Purged
    /\ tokens' = tokens \ Purged
    /\ IF Purged # {} THEN Outdate ELSE UNCHANGED fresh
    /\ UNCHANGED <<version, applied, opening>>

RateOf(key) ==
    IF key \in DOMAIN limits /\ limits[key].started + Window > now
    THEN limits[key]
    ELSE [started |-> now, count |-> 0]

\* Mutant: one more than the limit.
Admitted_OneMore(rate) == rate.count <= MaxRequests
Admitted(rate) == rate.count < MaxRequests

\* A request purges and reads its rate limit; what it read is written by the
\* next statement.
Enter(p, key, purpose) ==
    /\ Working(p, "idle")
    /\ PurgeExpired(p)
    /\ Admitted(RateOf(key))
    /\ request' = [request EXCEPT ![p] =
           [op |-> "count", key |-> key, rate |-> RateOf(key), next |-> purpose]]
    /\ UNCHANGED <<now, clients, limits, answer, issued, revoked, fails>>

\* A refused request, one that fails its checks, and a readiness probe only purge.
CleanupExpired(p) ==
    /\ Working(p, "idle")
    /\ PurgeExpired(p)
    /\ UNCHANGED <<now, clients, limits, request, answer, issued, revoked, fails>>

CountRequest(p) ==
    /\ Working(p, "count")
    /\ LET r == request[p]
           row == [started |-> r.rate.started, count |-> r.rate.count + 1]
       IN  limits' = [k \in DOMAIN limits \cup {r.key} |-> IF k = r.key THEN row ELSE limits[k]]
    /\ request' = [request EXCEPT ![p] = @.next]
    /\ Outdate
    /\ UNCHANGED <<version, applied, opening, now, clients, codes, tokens, answer, issued, revoked, fails>>

(***************************************************************************)
(* Registration and approval                                               *)
(***************************************************************************)
Register(p, client) ==
    /\ Dynamic /\ client \notin clients
    /\ Enter(p, <<"registration">>, [op |-> "register", client |-> client])

RegisterClient(p) ==
    /\ Working(p, "register")
    /\ clients' = clients \cup {request[p].client}
    /\ request' = [request EXCEPT ![p] = Idle]
    /\ Outdate
    /\ UNCHANGED <<version, applied, opening, now, codes, tokens, limits, answer, issued, revoked, fails>>

Purposed(p) == IF request[p].op = "count" THEN request[p].next ELSE request[p]

NewCode(code) ==
    /\ code \notin {row.code : row \in codes} \cup {issued[t].code : t \in DOMAIN issued}
    /\ \A q \in Proc : Purposed(q).op = "authorize" => Purposed(q).code # code

\* A code runs out that long after it was asked for, not after it was stored.
Authorize(p, client, code) ==
    /\ client \in clients /\ NewCode(code)
    /\ Enter(p, <<"authorize", client>>, [op |-> "authorize", client |-> client, code |-> code,
                                         expires |-> now + CodeLife])

CreateCode(p) ==
    /\ Working(p, "authorize")
    /\ codes' = codes \cup {[code |-> request[p].code, client |-> request[p].client,
                             expires |-> request[p].expires, used |-> FALSE]}
    /\ request' = [request EXCEPT ![p] = Idle]
    /\ Outdate
    /\ UNCHANGED <<version, applied, opening, now, clients, tokens, limits, answer, issued, revoked, fails>>

(***************************************************************************)
(* A code for a token                                                      *)
(***************************************************************************)
Exchange(p, client, code) ==
    Enter(p, <<"token", client>>, [op |-> "select", client |-> client, code |-> code])

\* The transaction begins with the read of an unused code.  A request with
\* another redirect URI or verifier ends here too.
SelectCode(p) ==
    /\ Working(p, "select")
    /\ \/ /\ \E row \in codes : /\ row.code = request[p].code /\ ~row.used
                                /\ row.client = request[p].client
                                /\ row.expires >= now
          /\ request' = [request EXCEPT ![p].op = "use"]
          /\ fresh' = fresh \cup {p}
       \/ /\ request' = [request EXCEPT ![p] = Idle]
          /\ UNCHANGED fresh
    /\ UNCHANGED <<version, applied, opening, now, clients, codes, tokens, limits, answer,
                   issued, revoked, fails>>

CreateToken(p, t) ==
    /\ tokens' = tokens \cup {[token |-> t, form |-> "digest", expires |-> now + TokenLife,
                               revoked |-> FALSE]}
    /\ issued' = [u \in DOMAIN issued \cup {t} |->
           IF u = t THEN [expires |-> now + TokenLife, code |-> request[p].code] ELSE issued[u]]

\* Mutant: the code was read before the transaction.
UseCode_AnySnapshot(p, t) ==
    /\ Working(p, "use")
    /\ t \in Token \ DOMAIN issued
    /\ codes' = {IF row.code = request[p].code THEN [row EXCEPT !.used = TRUE] ELSE row :
                    row \in codes}
    /\ CreateToken(p, t)
    /\ request' = [request EXCEPT ![p] = Idle]
    /\ Outdate
    /\ UNCHANGED <<version, applied, opening, now, clients, limits, answer, revoked, fails>>

UseCode(p, t) ==
    /\ Working(p, "use")
    /\ p \in fresh
    /\ t \in Token \ DOMAIN issued
    /\ codes' = {IF row.code = request[p].code THEN [row EXCEPT !.used = TRUE] ELSE row :
                    row \in codes}
    /\ CreateToken(p, t)
    /\ request' = [request EXCEPT ![p] = Idle]
    /\ Outdate
    /\ UNCHANGED <<version, applied, opening, now, clients, limits, answer, revoked, fails>>

ExchangeConflict(p) ==
    /\ Working(p, "use")
    /\ p \notin fresh
    /\ request' = [request EXCEPT ![p] = Idle]
    /\ UNCHANGED <<migrationVars, now, clients, codes, tokens, limits, answer, issued, revoked, fails>>

(***************************************************************************)
(* Bearer tokens                                                           *)
(***************************************************************************)
Bearer(p, t) ==
    /\ Working(p, "idle")
    /\ PurgeExpired(p)
    /\ request' = [request EXCEPT ![p] = [op |-> "check", token |-> t]]
    /\ answer' = [answer EXCEPT ![p] = "none"]
    /\ UNCHANGED <<now, clients, limits, issued, revoked, fails>>

ValidateAccessToken(p) ==
    /\ Working(p, "check")
    /\ LET rows == {row \in tokens : row.token = request[p].token /\ row.form = "digest"}
       IN  answer' = [answer EXCEPT ![p] =
               IF \E row \in rows : ~row.revoked /\ row.expires > now
               THEN "accepted" ELSE "refused"]
    /\ request' = [request EXCEPT ![p] = Idle]
    /\ UNCHANGED <<migrationVars, now, clients, codes, tokens, limits, issued, revoked, fails>>

Revoke(p, t) ==
    /\ Working(p, "idle")
    /\ tokens' = {IF row.token = t /\ row.form = "digest" THEN [row EXCEPT !.revoked = TRUE]
                  ELSE row : row \in tokens}
    /\ revoked' = revoked \cup ({t} \cap DOMAIN issued)
    /\ IF tokens' # tokens THEN Outdate ELSE UNCHANGED fresh
    /\ UNCHANGED <<version, applied, opening, now, clients, codes, limits, request, answer,
                   issued, fails>>

(***************************************************************************)
(* The rest of the world                                                   *)
(***************************************************************************)
\* A command or server appends an event to the same file.
AppendEvent ==
    /\ Outdate
    /\ UNCHANGED <<version, applied, opening, accessVars>>

Tick ==
    /\ now < MaxTime
    /\ now' = now + 1
    /\ UNCHANGED <<migrationVars, clients, codes, tokens, limits, request, answer, issued,
                   revoked, fails>>

End(p) ==
    /\ fails < MaxFails
    /\ Abandon(p)
    /\ fails' = fails + 1
    /\ request' = [request EXCEPT ![p] = Idle]
    /\ UNCHANGED <<now, clients, codes, tokens, limits, answer, issued, revoked>>

\* The routes of the app, and those of the gateway, which call the same
\* operations of the store.
AppRoute(p) ==
    \/ \E client \in Client : Register(p, client)
    \/ \E client \in Client, code \in Code :
        Authorize(p, client, code) \/ Exchange(p, client, code)
    \/ CountRequest(p) \/ RegisterClient(p) \/ CreateCode(p)
    \/ SelectCode(p) \/ ExchangeConflict(p)
    \/ \E t \in Token : UseCode(p, t) \/ Bearer(p, t) \/ Revoke(p, t)
    \/ ValidateAccessToken(p) \/ CleanupExpired(p)

GatewayRoute(p) == AppRoute(p)

Next ==
    \/ \E p \in Proc : OpenStep(p) \/ AppRoute(p) \/ GatewayRoute(p) \/ End(p)
    \/ AppendEvent
    \/ Tick

Spec == Init /\ [][Next]_vars

(***************************************************************************)
(* Properties                                                              *)
(***************************************************************************)
\* An approval of the owner is worth one token: however two servers interleave
\* the exchanges of one code, and whatever is purged, no second token comes of
\* it (docs and test: "code already used").
CodeRedeemedOnce ==
    \A t, u \in DOMAIN issued :
        issued[t].code = issued[u].code /\ issued[t].code # "none" => t = u

Live(t) == t \in DOMAIN issued \ revoked /\ issued[t].expires > now

\* A bearer token is accepted exactly when it was issued, has not run out and
\* has not been revoked: tokens of an older version survive every order of
\* migrations, also one that is repeated, and a token revoked by another server
\* between the purge and the lookup is refused.
AnswerIsRight ==
    [][\A p \in Proc :
        Working(p, "check") /\ answer'[p] # "none" =>
            (answer'[p] = "accepted" <=> Live(request[p].token))]_vars
=============================================================================
