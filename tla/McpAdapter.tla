----------------------------- MODULE McpAdapter -----------------------------
(***************************************************************************)
(* The remote MCP server: a process of its own in front of the main        *)
(* service.  It authenticates a request with the tokens of the main        *)
(* service, derives the scope from the caller, keeps one handler for each  *)
(* caller, and runs the four read-only tools by calling the main service   *)
(* with a credential of its own.                                           *)
(*                                                                         *)
(* The handler waits for the body and for the main service; assets change  *)
(* meanwhile.  SIGTERM stops it: what is under way is finished first.      *)
(***************************************************************************)
EXTENDS ServedAssets

CONSTANTS
  Requests,
  Tokens,        \* what callers may send
  PrincipalOf,   \* the valid tokens |-> [user, team, reads]
  SinkMayFail    \* may an audit event fail to be written?

VARIABLES
  request,    \* request[r]: a request and what is known of it
  handlers,   \* the handlers: key |-> the scope its tools use
  server      \* is the HTTP server listening?

mcpVars == <<status, request, handlers, server>>

-----------------------------------------------------------------------------
\* authenticateMcpRequest
Authentic(token) == token \in DOMAIN PrincipalOf

\* canPerform(principal, "read")
MayRead(token) == PrincipalOf[token].reads

\* scopeFromPrincipal: agent and session come from the environment and are
\* the same for everybody.
ScopeFromPrincipal(p) == [user |-> p.user, team |-> p.team]

\* Mutant of Key: the team is left out.
KeyOfUser(p) == p.user

\* The key of a handler, `${userId}@${teamId}`.  It tells principals apart
\* as long as no id contains an @ sign.
Key(p) == <<p.user, p.team>>

\* handlerFor: the scope of a handler is derived once, when it is created.
ScopeOfHandler(p) ==
  IF Key(p) \in DOMAIN handlers THEN handlers[Key(p)] ELSE ScopeFromPrincipal(p)

UseHandler(p) ==
  handlers' = [k \in DOMAIN handlers \cup {Key(p)} |->
                 IF k = Key(p) THEN ScopeOfHandler(p) ELSE handlers[k]]

Scopes == {ScopeFromPrincipal(PrincipalOf[t]) : t \in DOMAIN PrincipalOf}

-----------------------------------------------------------------------------
Tools == {"recall", "getSkill"}
Codes == {"none", "ok", "toolError", "unauthorized", "forbidden", "limited",
          "notAllowed", "unreadable", "rejected", "internal", "gone"}

NoRequest ==
  [stage |-> "none", token |-> "none", scope |-> {}, found |-> {}, verified |-> {},
   delivered |-> {}, code |-> "none"]

\* scope is empty or holds the scope of the handler that runs the tool;
\* verified is history: what was recallable for the caller since it came.
McpTypeOK ==
  /\ StatusesOK
  /\ server \in {"up", "closing", "down"}
  /\ \A k \in DOMAIN handlers : handlers[k] \in Scopes
  /\ request \in [Requests ->
       [stage     : {"none", "reading", "calling", "answering", "answered"},
        token     : Tokens \cup {"none"},
        scope     : SUBSET Scopes,
        found     : SUBSET Assets,
        verified  : SUBSET Assets,
        delivered : SUBSET Assets,
        code      : Codes]]

McpInit ==
  /\ status \in [Assets -> Statuses]
  /\ request = [r \in Requests |-> NoRequest]
  /\ handlers = << >>
  /\ server = "up"

At(r, stage) == request[r].stage = stage

Becomes(r, q) == request' = [request EXCEPT ![r] = q]

Answered(q, code) ==
  [q EXCEPT !.stage = "answered", !.code = code, !.scope = {}, !.found = {}]

\* A refusal is written down before it is answered; if it cannot be written,
\* the exception is answered instead.
Denied(r, q, code) ==
  \E answer \in {code} \cup {c \in {"internal"} : SinkMayFail} : Becomes(r, Answered(q, answer))

\* What the caller may be given right now.
Entitled(token) ==
  IF Authentic(token) THEN Recallable(ScopeFromPrincipal(PrincipalOf[token])) ELSE {}

Entitlement == [t \in Tokens |-> Entitled(t)]

Quiet == UNCHANGED <<status, server>>

-----------------------------------------------------------------------------
\* The head of a request to /mcp: identity, right, quota and method, in this
\* order and before a byte of the body is read.
Receive(r, token) ==
  LET q == [NoRequest EXCEPT !.token = token, !.verified = Entitled(token)] IN
  /\ server = "up" /\ request[r].stage \in {"none", "answered"}
  /\ \/ ~Authentic(token) /\ Denied(r, q, "unauthorized")
     \/ Authentic(token) /\ ~MayRead(token) /\ Denied(r, q, "forbidden")
     \/ /\ Authentic(token) /\ MayRead(token)
        /\ \/ Denied(r, q, "limited")
           \/ Becomes(r, Answered(q, "notAllowed"))
           \/ Becomes(r, [q EXCEPT !.stage = "reading"])
  /\ UNCHANGED handlers /\ Quiet

\* toWebRequest has read the body, or none is sent (GET, DELETE).  After the
\* check of Host and Origin, whose refusal is not written down, the handler
\* of the caller takes over: it answers the protocol itself and starts tools.
Dispatch(r) ==
  LET q == request[r]
      p == PrincipalOf[q.token]
  IN
  /\ At(r, "reading")
  /\ \/ /\ \E code \in {"unreadable", "rejected"} : Becomes(r, Answered(q, code))
        /\ UNCHANGED handlers
     \/ /\ UseHandler(p)
        /\ \/ \E code \in {"ok", "notAllowed"} : Becomes(r, Answered(q, code))
           \/ Becomes(r, [q EXCEPT !.stage = "calling", !.scope = {ScopeOfHandler(p)}])
  /\ Quiet

\* What a tool gives to the agent: recalls and searches are never asked for
\* drafts, and a skill that is fetched must be verified.
Visible(tool, s) ==
  IF tool = "recall" THEN Recallable(s)
  ELSE {a \in Assets : ScopeOf[a] = s /\ Exists(a) /\ status[a] = "verified"}

\* The main service reads its tables.
MainReads(r) ==
  /\ At(r, "calling")
  /\ \E tool \in Tools, s \in request[r].scope :
       \E found \in SUBSET Visible(tool, s) :
         Becomes(r, [request[r] EXCEPT !.stage = "answering", !.found = found])
  /\ UNCHANGED handlers /\ Quiet

\* Its answer is handed on.
Deliver(r) ==
  /\ At(r, "answering")
  /\ Becomes(r, Answered([request[r] EXCEPT !.delivered = request[r].found], "ok"))
  /\ UNCHANGED handlers /\ Quiet

\* The main service refuses the adapter's credential or the scope, fails, or
\* is not there: fetch settles, the tool reports an error.
ToolFails(r) ==
  /\ At(r, "calling") \/ At(r, "answering")
  /\ Becomes(r, Answered(request[r], "toolError"))
  /\ UNCHANGED handlers /\ Quiet

\* The caller hangs up, or its stream breaks.
HangUp(r) ==
  /\ request[r].stage \in {"reading", "calling", "answering"}
  /\ Becomes(r, Answered(request[r], "gone"))
  /\ UNCHANGED handlers /\ Quiet

Serve(r) == Dispatch(r) \/ MainReads(r) \/ Deliver(r) \/ ToolFails(r) \/ HangUp(r)

\* An asset changes; the history of open requests takes note.
Change(a) ==
  /\ Elsewhere(a)
  /\ request' = [r \in Requests |->
       IF request[r].stage \in {"reading", "calling", "answering"}
         THEN [request[r] EXCEPT !.verified = @ \cup Entitlement'[request[r].token]]
         ELSE request[r]]
  /\ UNCHANGED <<handlers, server>>

-----------------------------------------------------------------------------
\* SIGINT or SIGTERM: no new connection is taken.
Shutdown ==
  /\ server = "up"
  /\ server' = "closing"
  /\ UNCHANGED <<status, request, handlers>>

\* Mutant of Close: it waits for handlers that nobody closes.
CloseLast ==
  /\ server = "closing"
  /\ \A r \in Requests : request[r].stage \in {"none", "answered"}
  /\ handlers = << >>
  /\ server' = "down"
  /\ UNCHANGED <<status, request, handlers>>

\* The last connection has ended: the handlers are closed, the process exits.
Close ==
  /\ server = "closing"
  /\ \A r \in Requests : request[r].stage \in {"none", "answered"}
  /\ server' = "down"
  /\ handlers' = << >>
  /\ UNCHANGED <<status, request>>

McpNext ==
  \/ \E r \in Requests, token \in Tokens : Receive(r, token)
  \/ \E r \in Requests : Serve(r)
  \/ \E a \in Assets : Change(a)
  \/ Shutdown
  \/ Close

McpSpec == McpInit /\ [][McpNext]_mcpVars

\* A body ends, breaks off, or is cut by the request timeout of the HTTP
\* server; a fetch settles or meets the timeouts of its library.
McpFairSpec ==
  /\ McpSpec
  /\ \A r \in Requests :
       /\ WF_mcpVars(Dispatch(r) \/ (At(r, "reading") /\ HangUp(r)))
       /\ WF_mcpVars(MainReads(r) \/ ToolFails(r))
       /\ WF_mcpVars(Deliver(r) \/ ToolFails(r))
  /\ WF_mcpVars(Close)

-----------------------------------------------------------------------------
\* What an agent is given was verified, in the scope of the caller itself, at
\* some moment of the request - whatever changed while the main service was
\* at work, and whoever the handlers were made for.
DeliveredWasVerified ==
  \A r \in Requests : request[r].delivered \cup request[r].found \subseteq request[r].verified

\* A shutdown comes to its end, and what was under way is answered before.
ShutdownEnds ==
  server = "closing" ~>
    (server = "down" /\ \A r \in Requests : request[r].stage \in {"none", "answered"})

=============================================================================
