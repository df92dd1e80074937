------------------------------ MODULE Gateway ------------------------------
(***************************************************************************)
(* The way of a request through the HTTP gateway: authentication by its    *)
(* header, its body, authorisation and quota, the change it makes, the     *)
(* audit record, the synchronisation of the index, the answer.             *)
(*                                                                         *)
(* A handler runs without interruption between two waits: for the body, a  *)
(* model, the index.  Every event it emits may fail to be written: the     *)
(* sink appends to a file, the exception ends the handler where it stands, *)
(* and createServer turns it into an answer.                               *)
(*                                                                         *)
(* The services behind the routes are modelled on their own; here a        *)
(* handler changes something or is refused by its service.                 *)
(***************************************************************************)
EXTENDS RateLimit, RequestBody

CONSTANTS
  Routes,       \* the kinds of routes, DOMAIN ActionOf and "login"
  Credentials,  \* what a client may send
  AccessKey,    \* the local key
  TeamTokens,   \* credential |-> TeamTokenRecord
  Scopes,       \* [team, user, agent]
  Addresses,
  All,          \* the boundary "*"
  SinkMayFail,  \* may an event fail to be written?
  MaxTime       \* bound on the clock

\* What stands for the scope of a request that gives none.
NoScope == [team |-> "none", user |-> "none", agent |-> "none"]

\* RateLimitRules names these four domains.
ASSUME GatewayAssumption ==
  /\ {"login", "loginFailure", "read", "write"} \subseteq DOMAIN Limits
  /\ NoScope \notin Scopes

Requests == Readers

VARIABLES
  req    \* the requests

gateVars == <<rateVars, body, req>>

-----------------------------------------------------------------------------
\* Authentication and authorisation.

ActionOf ==
  [read    |-> "read",     \* queries, recalls, feedback
   write   |-> "write",    \* capture, create, update, synchronise; deletion of evidence
   change  |-> "review",   \* status, rollback, renewal, sweeps; lists for reviewers
   propose |-> "write"]    \* proposals by a model

\* ROLE_ACTIONS
RoleActions ==
  [admin |-> {"read", "review", "write"}, reviewer |-> {"read", "review"}, reader |-> {"read"}]

\* AuthService.authenticate
Authentic(credential) ==
  \/ credential = AccessKey
  \/ credential \in DOMAIN TeamTokens /\ ~TeamTokens[credential].revoked

LocalAdmin ==
  [user |-> "local-admin", roles |-> {"admin"}, teams |-> All, users |-> All, agents |-> All]

\* toPrincipal
Principal(credential) ==
  IF credential = AccessKey
    THEN LocalAdmin
    ELSE LET record == TeamTokens[credential]
         IN [user  |-> record.user, roles |-> record.roles,
             teams |-> {record.team}, users |-> record.users, agents |-> record.agents]

Within(values, value) == values # All => value \in values

CanPerform(credential, action) ==
  \E role \in Principal(credential).roles : action \in RoleActions[role]

ScopeAllowed(credential, s) ==
  /\ Within(Principal(credential).teams, s.team)
  /\ Within(Principal(credential).users, s.user)
  /\ Within(Principal(credential).agents, s.agent)

\* A scope that is missing, or no object, is not checked here: the handlers have
\* to refuse it.  (An object that is no whole scope is outside the boundary of
\* every token, and a scope without assets for the local key.)
Permitted(credential, route, s) ==
  /\ CanPerform(credential, ActionOf[route])
  /\ s # NoScope => ScopeAllowed(credential, s)

\* authorize takes read requests from one quota, all others from another.
QuotaOf(credential, route) ==
  <<IF ActionOf[route] = "read" THEN "read" ELSE "write", Principal(credential).user>>

-----------------------------------------------------------------------------
Codes  == {0, 200, 400, 401, 403, 409, 429}
Record == {"loginFailed", "denied", "stateChanged", "runOk", "runFailed"}
Use    == [key : Domains \X (Addresses \cup {Principal(c).user : c \in {d \in Credentials : Authentic(d)}}),
           at : 0..MaxTime, allowed : BOOLEAN]

NoRequest == [stage |-> "none", route |-> "none", credential |-> "none", scope |-> NoScope,
              changed |-> FALSE, served |-> FALSE, audit |-> {}, uses |-> {}, code |-> 0]

GatewayTypeOK ==
  /\ RateTypeOK /\ now \in 0..MaxTime
  /\ BodyTypeOK
  /\ req \in [Requests ->
       [stage      : {"none", "reading", "asking", "syncing", "answered"},
        route      : Routes \cup {"none"},
        credential : Credentials \cup {"none"},
        scope      : Scopes \cup {NoScope},
        changed    : BOOLEAN,          \* an asset was changed, and committed
        served     : BOOLEAN,          \* the answer holds what was found in the scope
        audit      : SUBSET Record,    \* the records that were written
        uses       : SUBSET Use,       \* history: what was taken from quotas
        code       : Codes]]           \* the answer

GatewayInit == RateInit /\ BodyInit /\ req = [r \in Requests |-> NoRequest]

At(r, stage) == req[r].stage = stage

\* Events whose writing may fail.
Written == IF SinkMayFail THEN BOOLEAN ELSE {TRUE}

\* The state q of a request, answered with a code; or after an exception.
Answered(q, code) == [q EXCEPT !.stage = "answered", !.code = code]
Failed(q)         == Answered(q, 400)

\* q after it emits a record: the exception of the sink ends the handler,
\* otherwise it goes on to "then".
Recorded(q, record) == [q EXCEPT !.audit = q.audit \cup {record}]
Denied(q, record, code, written) ==
  IF written THEN Answered(Recorded(q, record), code) ELSE Failed(q)

Used(q, k, allowed) ==
  [q EXCEPT !.uses = q.uses \cup {[key |-> k, at |-> now, allowed |-> allowed]}]

-----------------------------------------------------------------------------
\* The head of a request arrives.  Without a valid credential the answer is
\* given before the body is read; a login is not authenticated.
Arrive(r, route, credential) ==
  LET q == [NoRequest EXCEPT !.route = route, !.credential = credential] IN
  /\ At(r, "none")
  /\ \/ /\ route = "login" \/ Authentic(credential)
        /\ req' = [req EXCEPT ![r] = [q EXCEPT !.stage = "reading"]]
        /\ StartReading(r)
     \/ /\ route # "login" /\ ~Authentic(credential)
        /\ \E written \in Written :
             req' = [req EXCEPT ![r] = Denied(q, "denied", 401, written)]
        /\ UNCHANGED body
  /\ UNCHANGED rateVars

\* The request fails before it is authorised: its body is broken off, too large,
\* no JSON or null (an empty one is {}), its scope is null, or it asks for a
\* recall that is not in the log.
Unreadable(r) ==
  /\ At(r, "reading")
  /\ body[r].settled # "none"
  /\ req' = [req EXCEPT ![r] = Failed(req[r])]
  /\ Forget(r)
  /\ UNCHANGED rateVars

\* POST /v1/auth/login.  The key in the body may have blanks around it: the
\* quota of failures takes it without, and is not touched, but the login
\* compares it as it is.  What is no text at all has no trim, which throws.
Login(r, address, key) ==
  LET q        == req[r]
      attempt  == <<"login", address>>
      failure  == <<"loginFailure", address>>
      tried    == Allowed(counters, attempt)
      counted  == Consumed(counters, attempt)
      failing  == tried /\ key # "noText" /\ ~Authentic(q.credential)
      tolerated == Allowed(counted, failure)
      q1       == Used(q, attempt, tried)
  IN
  /\ At(r, "reading") /\ q.route = "login" /\ body[r].settled = "ok"
  /\ counters' = IF failing THEN Consumed(counted, failure) ELSE counted
  /\ \E written \in Written :
       req' = [req EXCEPT ![r] =
         IF ~tried THEN Denied(q1, "loginFailed", 429, written)
         ELSE IF failing THEN Denied(Used(q1, failure, tolerated), "loginFailed",
                                     IF tolerated THEN 401 ELSE 429, written)
         ELSE IF key = "padded" THEN Denied(q1, "loginFailed", 401, written)
         ELSE Answered(q1, IF key = "noText" THEN 400 ELSE 200)]
  /\ Forget(r)
  /\ UNCHANGED now

\* A use of a quota: the verdict, what the limiter holds then, the history.
Quota(q) ==
  LET k == QuotaOf(q.credential, q.route) IN
  [verdict |-> IF Allowed(counters, k) THEN "granted" ELSE "limited",
   left    |-> Consumed(counters, k),
   after   |-> Used(q, k, Allowed(counters, k))]

\* authorize: the action and the scope first, then the quota.
Authorize(q) ==
  IF Permitted(q.credential, q.route, q.scope) THEN Quota(q)
  ELSE [verdict |-> "denied", left |-> counters, after |-> q]

-----------------------------------------------------------------------------
\* What the handlers do once they are authorised: the request is then q.
Becomes(r, q)  == req' = [req EXCEPT ![r] = q]
Refused(r, q)  == Becomes(r, Answered(q, 409))          \* by the service
Done(r, q)     == Becomes(r, Answered(q, 200))
Changed(q)     == [q EXCEPT !.changed = TRUE]
Served(q)      == [q EXCEPT !.served = TRUE]

\* A status is committed before its record is written; the index is
\* synchronised after that.
Govern(r, q) ==
  \E written \in Written :
    Becomes(r, IF written
                 THEN [Recorded(Changed(q), "stateChanged") EXCEPT !.stage = "syncing"]
                 ELSE Failed(Changed(q)))

\* The catch of the proposal route: the failure is recorded, and thrown on.
Caught(r, q) ==
  \E written \in Written :
    Becomes(r, Failed(IF written THEN Recorded(q, "runFailed") ELSE q))

\* draftVisible refuses without a record.
ReadDrafts(r, q) == ~CanPerform(q.credential, "review") /\ Becomes(r, Answered(q, 403))

\* Queries; feedback, a read, may withdraw an asset that rules published.
Read(r, q) == Done(r, Served(q)) \/ ReadDrafts(r, q) \/ Refused(r, q) \/ Govern(r, q)

\* A synchronisation of the index, after a sweep that changed nothing, or asked
\* for by itself.
Synchronise(r, q) == Becomes(r, [q EXCEPT !.stage = "syncing"])

\* Contents are written without a record of the gateway, and evidence is
\* deleted with one.
Write(r, q) == Refused(r, q) \/ Done(r, Changed(q)) \/ Govern(r, q) \/ Synchronise(r, q)

Change(r, q) == Refused(r, q) \/ Done(r, Served(q)) \/ Govern(r, q) \/ Synchronise(r, q)

\* Refused without a provider.
Propose(r, q) == Refused(r, q) \/ Becomes(r, [q EXCEPT !.stage = "asking"])

\* Mutant of Unscoped: a list without a scope is a list of everything.
UnscopedAll(r, q) == Becomes(r, Failed(q)) \/ Done(r, Served(q))

\* Without a scope nothing is found, changed or asked of a model: a read is
\* refused, if it is not answered with nothing (evidence/get); the evidence of a
\* proposal is refused inside its try; everything else throws or has a check of
\* its own.
Unscoped(r, q) ==
  IF q.route = "propose" THEN Refused(r, q) \/ Caught(r, q)
  ELSE \/ Becomes(r, Failed(q))
       \/ q.route = "read" /\ (Done(r, q) \/ ReadDrafts(r, q))

Scoped(r, q) ==
  \/ q.route = "read"    /\ Read(r, q)
  \/ q.route = "write"   /\ Write(r, q)
  \/ q.route = "change"  /\ Change(r, q)
  \/ q.route = "propose" /\ Propose(r, q)

\* The part of the handlers that follows the body.
Handle(r, s) ==
  LET outcome == Authorize([req[r] EXCEPT !.scope = s])
      q       == outcome.after
  IN
  /\ At(r, "reading") /\ req[r].route # "login" /\ body[r].settled = "ok"
  /\ counters' = outcome.left
  /\ \/ /\ outcome.verdict = "denied"
        /\ \E written \in Written : Becomes(r, Denied(q, "denied", 403, written))
     \/ outcome.verdict = "limited" /\ Becomes(r, Answered(q, 429))
     \/ /\ outcome.verdict = "granted"
        /\ IF s = NoScope THEN Unscoped(r, q) ELSE Scoped(r, q)
  /\ Forget(r)
  /\ UNCHANGED now

-----------------------------------------------------------------------------
\* Mutant of FinishProposal: only failures are recorded.
FinishProposalSilent(r) ==
  /\ At(r, "asking")
  /\ \E drafts \in BOOLEAN :
       LET q == [req[r] EXCEPT !.changed = drafts] IN Caught(r, q) \/ Done(r, q)
  /\ UNCHANGED <<rateVars, body>>

\* applyAutoVerifyResults: drafts that pass the rules are committed as verified
\* before the first event of it is written.
AutoVerify(r, q) ==
  /\ CanPerform(q.credential, "review")
  /\ \/ Becomes(r, [Recorded(q, "stateChanged") EXCEPT !.stage = "syncing"])
     \/ SinkMayFail /\ Caught(r, q)

\* The model has answered or failed.  Whatever throws afterwards, the sink
\* included, is recorded as a failed run, even if the drafts are there.
FinishProposal(r) ==
  /\ At(r, "asking")
  /\ \E drafts \in BOOLEAN :
       LET q    == [req[r] EXCEPT !.changed = drafts]
           done == Recorded(q, "runOk")
       IN Caught(r, q) \/ Done(r, done) \/ (drafts /\ AutoVerify(r, done))
  /\ UNCHANGED <<rateVars, body>>

\* syncVectorsAfterTransition: a failing synchronisation leaves the answer as
\* it is.  Its event is emitted inside the try, and again in the catch: if
\* neither can be written the request fails, though its change is committed.
\* A synchronisation that was asked for by itself fails as it is.
FinishSync(r) ==
  /\ At(r, "syncing")
  /\ \/ Done(r, req[r])
     \/ /\ SinkMayFail \/ (req[r].route = "write" /\ ~req[r].changed)
        /\ IF req[r].route = "propose" THEN Caught(r, req[r]) ELSE Becomes(r, Failed(req[r]))
  /\ UNCHANGED <<rateVars, body>>

Tick ==
  /\ now < MaxTime
  /\ now' = now + 1
  /\ UNCHANGED <<counters, body, req>>

Stream(r) == BodyStep(r) /\ UNCHANGED <<rateVars, req>>

Respond(r) ==
  \/ Unreadable(r)
  \/ \E a \in Addresses, key \in {"plain", "padded", "noText"} : Login(r, a, key)
  \/ \E s \in Scopes \cup {NoScope} : Handle(r, s)
  \/ FinishProposal(r)
  \/ FinishSync(r)

GateNext ==
  \/ Tick
  \/ \E r \in Requests :
       \/ \E route \in Routes, c \in Credentials : Arrive(r, route, c)
       \/ Stream(r)
       \/ Respond(r)

GateSpec == GatewayInit /\ [][GateNext]_gateVars

-----------------------------------------------------------------------------
\* What the limiter counts, from the history of the requests.
UsesOf(k) == UNION {{<<r, u>> : u \in {v \in req[r].uses : v.key = k}} : r \in Requests}
UsedKeys  == {u.key : u \in UNION {req[r].uses : r \in Requests}}

\* The windows of these uses open at the times W: with every use that falls
\* into no window opened before.  Exactly one set of times is that.
Times(uses) == {u[2].at : u \in uses}
Opened(uses, W) ==
  \A t \in Times(uses) : t \in W <=> \A e \in W : e < t => t - e >= WindowMs

Taken(uses, t)   == {u \in uses : u[2].at \in t..(t + WindowMs - 1)}
Granted(uses, t) == {u \in Taken(uses, t) : u[2].allowed}

\* Up to the limit everything is granted, beyond it nothing more.
GrantedExactly(uses, t, limit) ==
  LET taken == Cardinality(Taken(uses, t)) IN
  Cardinality(Granted(uses, t)) = IF taken < limit THEN taken ELSE limit

\* In every window of every key as many uses are granted as the limit allows,
\* whatever else the limiter tracks, and the others refused.
QuotaExact ==
  \A k \in UsedKeys :
    \E W \in SUBSET Times(UsesOf(k)) :
      /\ Opened(UsesOf(k), W)
      /\ \A t \in W : GrantedExactly(UsesOf(k), t, Limits[k[1]])

\* Nobody but a caller with the right and the scope gets anything done or is
\* given anything, however the steps of other requests fall between the waits of
\* this one; and a refused request takes nothing from the quota of its user
\* either (docs/threat-model.md).  A request without a scope passes the boundary
\* unchecked: it takes from the quota and may be answered, but what it is given
\* is empty, and nothing is changed, asked of a model or synchronised for it.
OnlyPermitted ==
  \A r \in Requests :
    LET q     == req[r]
        gains == q.changed \/ q.served \/ q.stage \in {"asking", "syncing"}
    IN q.route # "login" =>
         /\ gains \/ q.uses # {} \/ q.code = 200
              => Authentic(q.credential) /\ Permitted(q.credential, q.route, q.scope)
         /\ gains => q.scope # NoScope

\* An answer that reports success stands for a change that is committed and
\* recorded; a recorded change is committed; and refusals of rights are on
\* record, except that of drafts, which comes after the quota is taken.  The
\* converse does not hold: with a failing sink a committed change may be
\* answered by an error.
AnswersAudited ==
  \A r \in Requests :
    LET q == req[r] IN
    /\ q.code = 200 /\ q.changed /\ q.route \in {"read", "change"}
         => "stateChanged" \in q.audit
    /\ q.code = 200 /\ q.route = "propose" => "runOk" \in q.audit
    /\ "stateChanged" \in q.audit          => q.changed
    /\ q.code = 401                        => q.audit \cap {"denied", "loginFailed"} # {}
    /\ q.code = 403 /\ q.uses = {}          => "denied" \in q.audit

=============================================================================
