---------------------------- MODULE Gateway_proof ----------------------------
(***************************************************************************)
(* What Gateway promises of bodies, permissions, records and quotas, for   *)
(* any number of requests, tokens, scopes, limits and sizes.               *)
(*                                                                         *)
(* GateInv takes care of bodies and requests, whatever the limiter says;   *)
(* LimitInv relates what the limiter holds to the uses it has judged.      *)
(***************************************************************************)
EXTENDS Gateway, FiniteSetTheorems, TLAPS

-----------------------------------------------------------------------------
\* Bodies.  A reader that is still open has not settled, and has not seen
\* more than the drain limit; what it keeps is all it received, or nothing.
ReaderSound(b) ==
  /\ b \in [stream   : {"idle", "open", "ended", "destroyed", "closed"},
            received : Nat, buffered : Nat, over : BOOLEAN, settled : Outcomes]
  /\ b.over <=> b.received > MaxBytes
  /\ b.buffered = (IF b.over THEN 0 ELSE b.received)
  /\ b.settled = "ok" => ~b.over
  /\ b.settled = "tooLarge" => b.over
  /\ b.settled = "interrupted" => ~b.over
  /\ b.stream \in {"idle", "open"} => b.settled = "none"
  /\ b.stream \in {"ended", "closed"} => b.settled # "none"

ReadersSound ==
  /\ body = [r \in Readers |-> body[r]]
  /\ \A r \in Readers : ReaderSound(body[r])

\* A request that has not arrived has nothing to read.
NotYetRead == \A r \in Requests : At(r, "none") => body[r] = Unread

LEMMA UnreadSound == ReaderSound(Unread)
  BY BodyAssumption DEF ReaderSound, Unread, Outcomes

\* A stream that is opened.
LEMMA OpenSound ==
  ASSUME NEW b, ReaderSound(b), b.stream = "idle"
  PROVE  ReaderSound([b EXCEPT !.stream = "open"])
<1> DEFINE c == [b EXCEPT !.stream = "open"]
<1>1. b \in [stream   : {"idle", "open", "ended", "destroyed", "closed"},
             received : Nat, buffered : Nat, over : BOOLEAN, settled : Outcomes]
  BY DEF ReaderSound
<1>2. c \in [stream   : {"idle", "open", "ended", "destroyed", "closed"},
             received : Nat, buffered : Nat, over : BOOLEAN, settled : Outcomes]
  BY <1>1
<1>3. /\ c.received = b.received /\ c.buffered = b.buffered /\ c.over = b.over
      /\ c.settled = b.settled /\ c.stream = "open"
  BY <1>1
<1> HIDE DEF c
<1>4. ReaderSound(c)
  BY <1>2, <1>3 DEF ReaderSound
<1> QED BY <1>4 DEF c

\* Past the limit: only counted.
LEMMA DrainSound ==
  ASSUME NEW b, ReaderSound(b), b.stream = "open", b.over,
         NEW c, c = [b EXCEPT !.received = b.received + 1,
                         !.stream = IF b.received + 1 > MaxBytes + DrainLimit
                                      THEN "destroyed" ELSE "open"]
  PROVE  ReaderSound(c)
<1> USE BodyAssumption
<1>1. b.received \in Nat /\ b.buffered \in Nat
  BY DEF ReaderSound
<1>2. c \in [stream   : {"idle", "open", "ended", "destroyed", "closed"},
             received : Nat, buffered : Nat, over : BOOLEAN, settled : Outcomes]
  <2>1. b \in [stream   : {"idle", "open", "ended", "destroyed", "closed"},
               received : Nat, buffered : Nat, over : BOOLEAN, settled : Outcomes]
    BY DEF ReaderSound
  <2>2. b.received + 1 \in Nat /\ b.buffered + 1 \in Nat
    BY <1>1
  <2> QED BY <2>1, <2>2
<1>3. /\ c.received = b.received + 1 /\ c.buffered = b.buffered
     /\ c.over = b.over /\ c.settled = b.settled /\ c.stream \in {"open", "destroyed"}
  BY DEF ReaderSound
<1>4. b.settled = "none" /\ (b.over <=> b.received > MaxBytes)
  BY DEF ReaderSound
<1>5. c.over <=> c.received > MaxBytes
  BY <1>1, <1>3, <1>4
<1>6. c.buffered = (IF c.over THEN 0 ELSE c.received)
  BY <1>1, <1>3, <1>4 DEF ReaderSound
<1> QED BY <1>2, <1>3, <1>4, <1>5, <1>6 DEF ReaderSound

\* The chunk that exceeds the limit.
LEMMA OverflowSound ==
  ASSUME NEW b, ReaderSound(b), b.stream = "open", ~b.over, b.received + 1 > MaxBytes,
         NEW c, c = [b EXCEPT !.received = b.received + 1, !.buffered = 0, !.over = TRUE]
  PROVE  ReaderSound(c)
<1> USE BodyAssumption
<1>1. b.received \in Nat /\ b.buffered \in Nat
  BY DEF ReaderSound
<1>2. c \in [stream   : {"idle", "open", "ended", "destroyed", "closed"},
             received : Nat, buffered : Nat, over : BOOLEAN, settled : Outcomes]
  <2>1. b \in [stream   : {"idle", "open", "ended", "destroyed", "closed"},
               received : Nat, buffered : Nat, over : BOOLEAN, settled : Outcomes]
    BY DEF ReaderSound
  <2>2. b.received + 1 \in Nat /\ b.buffered + 1 \in Nat
    BY <1>1
  <2> QED BY <2>1, <2>2
<1>3. /\ c.received = b.received + 1 /\ c.buffered = 0
     /\ c.over = TRUE /\ c.settled = b.settled /\ c.stream = b.stream
  BY DEF ReaderSound
<1>4. b.settled = "none" /\ (b.over <=> b.received > MaxBytes)
  BY DEF ReaderSound
<1>5. c.over <=> c.received > MaxBytes
  BY <1>1, <1>3, <1>4
<1>6. c.buffered = (IF c.over THEN 0 ELSE c.received)
  BY <1>1, <1>3, <1>4 DEF ReaderSound
<1> QED BY <1>2, <1>3, <1>4, <1>5, <1>6 DEF ReaderSound

\* A chunk within the limit.
LEMMA KeepSound ==
  ASSUME NEW b, ReaderSound(b), b.stream = "open", ~b.over, ~(b.received + 1 > MaxBytes),
         NEW c, c = [b EXCEPT !.received = b.received + 1, !.buffered = b.buffered + 1]
  PROVE  ReaderSound(c)
<1> USE BodyAssumption
<1>1. b.received \in Nat /\ b.buffered \in Nat
  BY DEF ReaderSound
<1>2. c \in [stream   : {"idle", "open", "ended", "destroyed", "closed"},
             received : Nat, buffered : Nat, over : BOOLEAN, settled : Outcomes]
  <2>1. b \in [stream   : {"idle", "open", "ended", "destroyed", "closed"},
               received : Nat, buffered : Nat, over : BOOLEAN, settled : Outcomes]
    BY DEF ReaderSound
  <2>2. b.received + 1 \in Nat /\ b.buffered + 1 \in Nat
    BY <1>1
  <2> QED BY <2>1, <2>2
<1>3. /\ c.received = b.received + 1 /\ c.buffered = b.buffered + 1
     /\ c.over = b.over /\ c.settled = b.settled /\ c.stream = b.stream
  BY DEF ReaderSound
<1>4. b.settled = "none" /\ (b.over <=> b.received > MaxBytes)
  BY DEF ReaderSound
<1>5. c.over <=> c.received > MaxBytes
  BY <1>1, <1>3, <1>4
<1>6. c.buffered = (IF c.over THEN 0 ELSE c.received)
  BY <1>1, <1>3, <1>4 DEF ReaderSound
<1> QED BY <1>2, <1>3, <1>4, <1>5, <1>6 DEF ReaderSound

\* A stream that comes to an end of some kind.
LEMMA StopSound ==
  ASSUME NEW b, ReaderSound(b), NEW end \in {"ended", "destroyed", "closed"},
         NEW outcome \in {"ok", "tooLarge", "error", "interrupted"},
         outcome = "tooLarge" => b.over, outcome \in {"ok", "interrupted"} => ~b.over
  PROVE  ReaderSound(Settle([b EXCEPT !.stream = end], outcome))
<1> DEFINE settled == IF b.settled = "none" THEN outcome ELSE b.settled
           c       == Settle([b EXCEPT !.stream = end], outcome)
<1>1. b \in [stream   : {"idle", "open", "ended", "destroyed", "closed"},
             received : Nat, buffered : Nat, over : BOOLEAN, settled : Outcomes]
  BY DEF ReaderSound
<1>2. settled \in Outcomes /\ settled # "none"
  BY <1>1 DEF Outcomes
<1>3. /\ c \in [stream   : {"idle", "open", "ended", "destroyed", "closed"},
                received : Nat, buffered : Nat, over : BOOLEAN, settled : Outcomes]
      /\ c.received = b.received /\ c.buffered = b.buffered /\ c.over = b.over
      /\ c.settled = settled /\ c.stream = end
  BY <1>1, <1>2 DEF Settle
<1>4. settled = "ok" => ~b.over
  BY DEF ReaderSound
<1>5. settled = "tooLarge" => b.over
  BY DEF ReaderSound
<1>6. settled = "interrupted" => ~b.over
  BY DEF ReaderSound
<1> HIDE DEF c, settled
<1>7. ReaderSound(c)
  BY <1>2, <1>3, <1>4, <1>5, <1>6 DEF ReaderSound
<1> QED BY <1>7 DEF c

\* A step of a stream.
LEMMA StreamSound ==
  ASSUME ReadersSound, NEW r \in Readers, BodyStep(r)
  PROVE  ReadersSound' /\ body' = [body EXCEPT ![r] = body'[r]]
<1> DEFINE b == body[r]
<1>1. ReaderSound(b)
  BY DEF ReadersSound
<1>3. SUFFICES body' = [body EXCEPT ![r] = body'[r]] /\ ReaderSound(body'[r])
  BY DEF ReadersSound
<1>4. CASE OnData(r)
  <2>1. body' = [body EXCEPT ![r] = body'[r]] /\ b.stream = "open"
    BY <1>4 DEF ReadersSound, OnData
  <2>2. CASE b.over
    <3>1. body'[r] = [b EXCEPT !.received = b.received + 1,
                               !.stream = IF b.received + 1 > MaxBytes + DrainLimit
                                            THEN "destroyed" ELSE "open"]
      BY <1>4, <2>2 DEF OnData, ReadersSound
    <3> QED BY <1>1, <2>1, <2>2, <3>1, DrainSound
  <2>3. CASE ~b.over /\ b.received + 1 > MaxBytes
    <3>1. body'[r] = [b EXCEPT !.received = b.received + 1, !.buffered = 0, !.over = TRUE]
      BY <1>4, <2>3 DEF OnData, ReadersSound
    <3> QED BY <1>1, <2>1, <2>3, <3>1, OverflowSound
  <2>4. CASE ~b.over /\ ~(b.received + 1 > MaxBytes)
    <3>1. body'[r] = [b EXCEPT !.received = b.received + 1, !.buffered = b.buffered + 1]
      BY <1>4, <2>4 DEF OnData, ReadersSound
    <3> QED BY <1>1, <2>1, <2>4, <3>1, KeepSound
  <2> QED BY <2>2, <2>3, <2>4
<1>5. ASSUME NEW end, NEW outcome, Stopped(r, end, outcome),
             ReaderSound(Settle([b EXCEPT !.stream = end], outcome))
      PROVE  body' = [body EXCEPT ![r] = body'[r]] /\ ReaderSound(body'[r])
  BY <1>5 DEF Stopped, ReadersSound
<1>6. CASE OnEnd(r)
  <2>1. b.stream = "open" /\ Stopped(r, "ended", IF b.over THEN "tooLarge" ELSE "ok")
    BY <1>6 DEF OnEnd
  <2>2. ReaderSound(Settle([b EXCEPT !.stream = "ended"], IF b.over THEN "tooLarge" ELSE "ok"))
    BY <1>1, <2>1, StopSound
  <2> QED BY <1>5, <2>1, <2>2
<1>7. CASE OnError(r)
  <2>1. b.stream = "open" /\ Stopped(r, "destroyed", "error")
    BY <1>7 DEF OnError
  <2>2. ReaderSound(Settle([b EXCEPT !.stream = "destroyed"], "error"))
    BY <1>1, <2>1, StopSound
  <2> QED BY <1>5, <2>1, <2>2
<1>8. CASE OnClose(r)
  <2>1. /\ b.stream \in {"open", "destroyed"}
        /\ Stopped(r, "closed", IF b.over THEN "tooLarge" ELSE "interrupted")
    BY <1>8 DEF OnClose
  <2>2. ReaderSound(Settle([b EXCEPT !.stream = "closed"],
                           IF b.over THEN "tooLarge" ELSE "interrupted"))
    BY <1>1, <2>1, StopSound
  <2> QED BY <1>5, <2>1, <2>2
<1> QED BY <1>4, <1>6, <1>7, <1>8 DEF BodyStep

-----------------------------------------------------------------------------
\* Requests.  A record with the fields of a request:
Shaped(q) ==
  q \in [stage : {q.stage}, route : {q.route}, credential : {q.credential},
         scope : {q.scope}, changed : {q.changed}, served : {q.served},
         audit : {q.audit}, uses : {q.uses}, code : {q.code}]

Allowable(q) == Authentic(q.credential) /\ Permitted(q.credential, q.route, q.scope)

\* With a scope that is given, and inside the boundary.
Entitled(q) == Allowable(q) /\ q.scope # NoScope

\* What a request does and is given it is entitled to; a use of a quota and an
\* answer need no scope.
PermissionSound(q) ==
  q.route # "login" =>
    /\ q.uses # {} \/ q.code = 200 => Allowable(q)
    /\ q.changed \/ q.served \/ q.stage \in {"asking", "syncing"} => Entitled(q)

\* What its answer says is on record.
AuditSound(q) ==
  /\ q.code = 200 /\ q.changed /\ q.route \in {"read", "change"}
       => "stateChanged" \in q.audit
  /\ q.code = 200 /\ q.route = "propose" => "runOk" \in q.audit
  /\ "stateChanged" \in q.audit          => q.changed
  /\ q.code = 401                        => q.audit \cap {"denied", "loginFailed"} # {}
  /\ q.code = 403 /\ q.uses = {}          => "denied" \in q.audit

\* How far it has come: nothing is done before the body is read, nothing
\* changed while a model is asked, and what is being synchronised is recorded.
StageSound(q) ==
  /\ q.stage \in {"none", "reading", "asking", "syncing", "answered"}
  /\ q.stage = "none" => q = NoRequest
  /\ q.stage # "answered" => q.code = 0
  /\ q.stage = "reading" =>
       /\ q.changed = FALSE /\ q.served = FALSE /\ q.uses = {} /\ q.audit = {}
       /\ q.route # "login" => Authentic(q.credential)
  /\ q.stage = "asking" => q.route = "propose" /\ q.audit = {}
  /\ q.stage = "syncing" =>
       /\ q.route # "login"
       /\ q.changed => "stateChanged" \in q.audit
       /\ q.route = "propose" => "runOk" \in q.audit

RequestSound(q) == Shaped(q) /\ PermissionSound(q) /\ AuditSound(q) /\ StageSound(q)

RequestsSound ==
  /\ req = [r \in Requests |-> req[r]]
  /\ \A r \in Requests : RequestSound(req[r])

GateInv == ReadersSound /\ NotYetRead /\ RequestsSound

\* One request moves on.
LEMMA RequestMoves ==
  ASSUME RequestsSound, NEW r \in Requests, NEW q, RequestSound(q),
         req' = [req EXCEPT ![r] = q]
  PROVE  RequestsSound' /\ req'[r] = q
  BY DEF RequestsSound

LEMMA EmptyRequest == RequestSound(NoRequest)
  BY DEF RequestSound, Shaped, PermissionSound, AuditSound, StageSound, NoRequest

\* The fields of a request after the operators that move it on.
LEMMA AnsweredFields ==
  ASSUME NEW q, Shaped(q), NEW code
  PROVE  /\ Shaped(Answered(q, code))
         /\ Answered(q, code).stage = "answered"
         /\ Answered(q, code).code = code
         /\ Answered(q, code).route = q.route
         /\ Answered(q, code).credential = q.credential
         /\ Answered(q, code).scope = q.scope
         /\ Answered(q, code).changed = q.changed
         /\ Answered(q, code).served = q.served
         /\ Answered(q, code).audit = q.audit
         /\ Answered(q, code).uses = q.uses
  BY DEF Shaped, Answered

LEMMA RecordedFields ==
  ASSUME NEW q, Shaped(q), NEW record
  PROVE  /\ Shaped(Recorded(q, record))
         /\ Recorded(q, record).stage = q.stage
         /\ Recorded(q, record).code = q.code
         /\ Recorded(q, record).route = q.route
         /\ Recorded(q, record).credential = q.credential
         /\ Recorded(q, record).scope = q.scope
         /\ Recorded(q, record).changed = q.changed
         /\ Recorded(q, record).served = q.served
         /\ Recorded(q, record).audit = q.audit \cup {record}
         /\ Recorded(q, record).uses = q.uses
  BY DEF Shaped, Recorded

LEMMA UsedFields ==
  ASSUME NEW q, Shaped(q), NEW k, NEW allowed
  PROVE  /\ Shaped(Used(q, k, allowed))
         /\ Used(q, k, allowed).stage = q.stage
         /\ Used(q, k, allowed).code = q.code
         /\ Used(q, k, allowed).route = q.route
         /\ Used(q, k, allowed).credential = q.credential
         /\ Used(q, k, allowed).scope = q.scope
         /\ Used(q, k, allowed).changed = q.changed
         /\ Used(q, k, allowed).served = q.served
         /\ Used(q, k, allowed).audit = q.audit
         /\ Used(q, k, allowed).uses # {}
  BY DEF Shaped, Used

LEMMA ChangedFields ==
  ASSUME NEW q, Shaped(q)
  PROVE  /\ Shaped(Changed(q))
         /\ Changed(q).stage = q.stage
         /\ Changed(q).code = q.code
         /\ Changed(q).route = q.route
         /\ Changed(q).credential = q.credential
         /\ Changed(q).scope = q.scope
         /\ Changed(q).changed = TRUE
         /\ Changed(q).served = q.served
         /\ Changed(q).audit = q.audit
         /\ Changed(q).uses = q.uses
  BY DEF Shaped, Changed

LEMMA ServedFields ==
  ASSUME NEW q, Shaped(q)
  PROVE  /\ Shaped(Served(q))
         /\ Served(q).stage = q.stage
         /\ Served(q).code = q.code
         /\ Served(q).route = q.route
         /\ Served(q).credential = q.credential
         /\ Served(q).scope = q.scope
         /\ Served(q).changed = q.changed
         /\ Served(q).served = TRUE
         /\ Served(q).audit = q.audit
         /\ Served(q).uses = q.uses
  BY DEF Shaped, Served

LEMMA WaitingFields ==
  ASSUME NEW q, Shaped(q), NEW stage
  PROVE  LET w == [q EXCEPT !.stage = stage] IN
         /\ Shaped(w) /\ w.stage = stage /\ w.code = q.code /\ w.route = q.route
         /\ w.credential = q.credential /\ w.scope = q.scope /\ w.changed = q.changed
         /\ w.served = q.served /\ w.audit = q.audit /\ w.uses = q.uses
  BY DEF Shaped

-----------------------------------------------------------------------------
\* A request in the hands of its handler, whatever its stage: what it has done
\* it was entitled to do, and what is recorded as changed is.
Lawful(q) ==
  /\ Shaped(q)
  /\ q.route # "login" /\ q.uses # {} => Allowable(q)
  /\ q.route # "login" /\ (q.changed \/ q.served) => Entitled(q)
  /\ "stateChanged" \in q.audit => q.changed

LEMMA SoundIsLawful == ASSUME NEW q, RequestSound(q) PROVE Lawful(q)
  BY DEF RequestSound, PermissionSound, AuditSound, Lawful

LEMMA RecordedLawful ==
  ASSUME NEW q, Lawful(q), NEW record, record = "stateChanged" => q.changed
  PROVE  Lawful(Recorded(q, record))
  BY RecordedFields DEF Lawful, Allowable, Entitled

LEMMA ChangedLawful ==
  ASSUME NEW q, Lawful(q), Entitled(q)
  PROVE  Lawful(Changed(q)) /\ Entitled(Changed(q))
  BY ChangedFields DEF Lawful, Allowable, Entitled

LEMMA ServedLawful ==
  ASSUME NEW q, Lawful(q), Entitled(q)
  PROVE  Lawful(Served(q)) /\ Entitled(Served(q))
  BY ServedFields DEF Lawful, Allowable, Entitled

LEMMA UsedLawful ==
  ASSUME NEW q, Lawful(q), q.route = "login" \/ Allowable(q), NEW k, NEW allowed
  PROVE  Lawful(Used(q, k, allowed))
  BY UsedFields DEF Lawful, Allowable, Entitled

\* An answer that refuses without claiming a record.
LEMMA RefusalSound ==
  ASSUME NEW q, Lawful(q), NEW code \in {400, 403, 409, 429}, code = 403 => q.uses # {}
  PROVE  RequestSound(Answered(q, code))
<1> DEFINE a == Answered(q, code)
<1>1. Lawful(a) /\ a.stage = "answered" /\ a.code = code /\ a.uses = q.uses
  BY AnsweredFields DEF Lawful, Allowable, Entitled
<1> HIDE DEF a
<1>2. Shaped(a) /\ PermissionSound(a)
  BY <1>1 DEF Lawful, PermissionSound
<1>3. AuditSound(a)
  BY <1>1 DEF Lawful, AuditSound
<1>4. StageSound(a)
  BY <1>1 DEF StageSound
<1>5. RequestSound(a)
  BY <1>2, <1>3, <1>4 DEF RequestSound
<1> QED BY <1>5 DEF a

LEMMA FailureSound ==
  ASSUME NEW q, Lawful(q)
  PROVE  RequestSound(Failed(q)) /\ Failed(q).stage = "answered"
  BY RefusalSound, AnsweredFields DEF Failed, Lawful

\* A refusal that is to be recorded.
LEMMA DenialSound ==
  ASSUME NEW q, Lawful(q), NEW record \in {"denied", "loginFailed"},
         NEW code \in {401, 403, 429}, code = 403 => record = "denied",
         NEW written \in BOOLEAN
  PROVE  /\ RequestSound(Denied(q, record, code, written))
         /\ Denied(q, record, code, written).stage = "answered"
<1>1. CASE ~written
  BY <1>1, FailureSound DEF Denied
<1>2. CASE written
  <2> DEFINE d == Recorded(q, record)
             a == Answered(d, code)
  <2>1. Lawful(d) /\ record \in d.audit
    BY RecordedLawful, RecordedFields DEF Lawful
  <2>2. /\ Lawful(a) /\ a.stage = "answered" /\ a.code = code /\ record \in a.audit
    BY <2>1, AnsweredFields DEF Lawful, Allowable, Entitled
  <2>3. Denied(q, record, code, written) = a
    BY <1>2 DEF Denied
  <2> HIDE DEF a
  <2>4. Shaped(a) /\ PermissionSound(a)
    BY <2>2 DEF Lawful, PermissionSound
  <2>5. AuditSound(a)
    BY <2>2 DEF Lawful, AuditSound
  <2>6. StageSound(a)
    BY <2>2 DEF StageSound
  <2> QED BY <2>2, <2>3, <2>4, <2>5, <2>6 DEF RequestSound
<1> QED BY <1>1, <1>2

\* An answer that reports success.
LEMMA SuccessSound ==
  ASSUME NEW q, Lawful(q), q.route = "login" \/ Allowable(q),
         q.changed /\ q.route \in {"read", "change"} => "stateChanged" \in q.audit,
         q.route = "propose" => "runOk" \in q.audit
  PROVE  RequestSound(Answered(q, 200)) /\ Answered(q, 200).stage = "answered"
<1> DEFINE a == Answered(q, 200)
<1>1. /\ Lawful(a) /\ a.stage = "answered" /\ a.code = 200
      /\ a.route = "login" \/ Allowable(a)
      /\ a.changed /\ a.route \in {"read", "change"} => "stateChanged" \in a.audit
      /\ a.route = "propose" => "runOk" \in a.audit
  BY AnsweredFields DEF Lawful, Allowable, Entitled
<1> HIDE DEF a
<1>2. Shaped(a) /\ PermissionSound(a)
  BY <1>1 DEF Lawful, PermissionSound
<1>3. AuditSound(a)
  BY <1>1 DEF Lawful, AuditSound
<1>4. StageSound(a)
  BY <1>1 DEF StageSound
<1>5. RequestSound(a) /\ a.stage = "answered"
  BY <1>1, <1>2, <1>3, <1>4 DEF RequestSound
<1> QED BY <1>5 DEF a

\* A request that waits for the index.
LEMMA SyncingSound ==
  ASSUME NEW q, Lawful(q), q.route # "login", Entitled(q), q.code = 0,
         q.changed => "stateChanged" \in q.audit,
         q.route = "propose" => "runOk" \in q.audit
  PROVE  LET w == [q EXCEPT !.stage = "syncing"]
         IN  RequestSound(w) /\ w.stage = "syncing"
<1> DEFINE w == [q EXCEPT !.stage = "syncing"]
<1>1. /\ Lawful(w) /\ w.stage = "syncing" /\ w.code = 0 /\ w.route # "login" /\ Entitled(w)
      /\ w.changed => "stateChanged" \in w.audit
      /\ w.route = "propose" => "runOk" \in w.audit
  BY WaitingFields DEF Lawful, Allowable, Entitled
<1> HIDE DEF w
<1>2. Shaped(w) /\ PermissionSound(w)
  BY <1>1 DEF Lawful, PermissionSound, Entitled
<1>3. AuditSound(w)
  BY <1>1 DEF Lawful, AuditSound
<1>4. StageSound(w)
  BY <1>1 DEF StageSound
<1>5. RequestSound(w) /\ w.stage = "syncing"
  BY <1>1, <1>2, <1>3, <1>4 DEF RequestSound
<1> QED BY <1>5 DEF w

-----------------------------------------------------------------------------
\* The steps.

\* One request moves on, and only its reader with it.
LEMMA Moves ==
  ASSUME GateInv, NEW r \in Requests, NEW q, RequestSound(q), q.stage # "none",
         req' = [req EXCEPT ![r] = q],
         ReadersSound', \A s \in Readers \ {r} : body'[s] = body[s]
  PROVE  GateInv'
<1>1. RequestsSound' /\ req'[r] = q
  BY RequestMoves DEF GateInv
<1>2. \A s \in Requests \ {r} : req'[s] = req[s]
  BY DEF GateInv, RequestsSound
<1>3. NotYetRead'
  BY <1>1, <1>2 DEF GateInv, NotYetRead, At, Requests
<1> QED BY <1>1, <1>3 DEF GateInv

LEMMA MovesOnly ==
  ASSUME GateInv, NEW r \in Requests, NEW q, RequestSound(q), q.stage # "none",
         req' = [req EXCEPT ![r] = q], UNCHANGED body
  PROVE  GateInv'
<1>1. ReadersSound'
  BY DEF GateInv, ReadersSound
<1> QED BY <1>1, Moves

LEMMA MovesOn ==
  ASSUME GateInv, NEW r \in Requests, NEW q, RequestSound(q), q.stage # "none",
         req' = [req EXCEPT ![r] = q], Forget(r)
  PROVE  GateInv'
<1>1. ReadersSound' /\ \A s \in Readers \ {r} : body'[s] = body[s]
  BY UnreadSound DEF GateInv, ReadersSound, Forget, Requests
<1> QED BY <1>1, Moves

\* A request that has not been handled yet has done nothing.
LEMMA Fresh ==
  ASSUME RequestsSound, NEW r \in Requests, At(r, "reading")
  PROVE  /\ Lawful(req[r]) /\ req[r].changed = FALSE /\ req[r].served = FALSE
         /\ req[r].uses = {} /\ req[r].audit = {} /\ req[r].code = 0
         /\ req[r].route # "login" => Authentic(req[r].credential)
  BY SoundIsLawful DEF RequestsSound, RequestSound, StageSound, At

LEMMA ArriveStep ==
  ASSUME GateInv, NEW r \in Requests, NEW route, NEW credential,
         Arrive(r, route, credential)
  PROVE  GateInv'
<1> DEFINE q == [NoRequest EXCEPT !.route = route, !.credential = credential]
           w == [q EXCEPT !.stage = "reading"]
<1>1. /\ Shaped(q) /\ q.changed = FALSE /\ q.served = FALSE
      /\ q.uses = {} /\ q.audit = {} /\ q.code = 0 /\ q.route = route /\ q.credential = credential
  BY DEF Shaped, NoRequest
<1>2. Lawful(q)
  BY <1>1 DEF Lawful
<1>3. CASE /\ route = "login" \/ Authentic(credential)
           /\ req' = [req EXCEPT ![r] = w]
           /\ StartReading(r)
  <2>1. /\ Shaped(w) /\ w.stage = "reading" /\ w.changed = FALSE /\ w.served = FALSE
        /\ w.uses = {} /\ w.audit = {} /\ w.code = 0 /\ w.route = route /\ w.credential = credential
    <3> HIDE DEF q
    <3> QED BY <1>1, WaitingFields
  <2>2. RequestSound(w) /\ w.stage # "none"
    <3> HIDE DEF w
    <3> QED BY <1>3, <2>1 DEF RequestSound, PermissionSound, AuditSound, StageSound
  <2>3. body[r] = Unread
    BY DEF Arrive, GateInv, NotYetRead
  <2>4. ReaderSound([Unread EXCEPT !.stream = "open"])
    <3>1. Unread.stream = "idle"
      BY DEF Unread
    <3> QED BY <3>1, UnreadSound, OpenSound
  <2>5. body' = [body EXCEPT ![r] = [Unread EXCEPT !.stream = "open"]]
    BY <1>3, <2>3 DEF StartReading
  <2>6. ReadersSound' /\ \A s \in Readers \ {r} : body'[s] = body[s]
    BY <2>4, <2>5 DEF GateInv, ReadersSound, Requests
  <2> HIDE DEF w
  <2> QED BY <1>3, <2>2, <2>6, Moves
<1>4. CASE /\ \E written \in Written :
                req' = [req EXCEPT ![r] = Denied(q, "denied", 401, written)]
           /\ UNCHANGED body
  <2> HIDE DEF q
  <2>1. PICK written \in Written :
          req' = [req EXCEPT ![r] = Denied(q, "denied", 401, written)]
    BY <1>4
  <2> written \in BOOLEAN
    BY DEF Written
  <2>2. /\ RequestSound(Denied(q, "denied", 401, written))
        /\ Denied(q, "denied", 401, written).stage = "answered"
    BY <1>2, DenialSound
  <2> DEFINE d == Denied(q, "denied", 401, written)
  <2>3. RequestSound(d) /\ d.stage # "none" /\ req' = [req EXCEPT ![r] = d] /\ UNCHANGED body
    BY <1>4, <2>1, <2>2
  <2> HIDE DEF d
  <2> QED BY <2>3, MovesOnly
<1> QED BY <1>3, <1>4 DEF Arrive

LEMMA UnreadableStep ==
  ASSUME GateInv, NEW r \in Requests, Unreadable(r)
  PROVE  GateInv'
<1>1. RequestSound(Failed(req[r])) /\ Failed(req[r]).stage # "none"
  BY Fresh, FailureSound DEF Unreadable, GateInv
<1> QED BY <1>1, MovesOn DEF Unreadable

LEMMA LoginStep ==
  ASSUME GateInv, NEW r \in Requests, NEW address, NEW key, Login(r, address, key)
  PROVE  GateInv'
<1> DEFINE q         == req[r]
           attempt   == <<"login", address>>
           failure   == <<"loginFailure", address>>
           tried     == Allowed(counters, attempt)
           counted   == Consumed(counters, attempt)
           failing   == tried /\ key # "noText" /\ ~Authentic(q.credential)
           tolerated == Allowed(counted, failure)
           q1        == Used(q, attempt, tried)
           q2        == Used(q1, failure, tolerated)
           code      == IF tolerated THEN 401 ELSE 429
<1>1. PICK written \in Written :
        req' = [req EXCEPT ![r] =
          IF ~tried THEN Denied(q1, "loginFailed", 429, written)
          ELSE IF failing THEN Denied(q2, "loginFailed", code, written)
          ELSE IF key = "padded" THEN Denied(q1, "loginFailed", 401, written)
          ELSE Answered(q1, IF key = "noText" THEN 400 ELSE 200)]
  BY DEF Login
<1> written \in BOOLEAN
  BY DEF Written
<1>2. Forget(r) /\ At(r, "reading") /\ q.route = "login"
  BY DEF Login
<1>3. Lawful(q) /\ q.changed = FALSE
  BY <1>2, Fresh DEF GateInv
<1> HIDE DEF q, attempt, failure, tried, counted, tolerated, failing
<1>4. Lawful(q1) /\ q1.changed = FALSE /\ q1.route = "login"
  BY <1>2, <1>3, UsedLawful, UsedFields DEF Lawful
<1> HIDE DEF q1
<1>5. Lawful(q2)
  BY <1>4, UsedLawful
<1> HIDE DEF q2
<1>6. CASE ~tried
  <2>1. req' = [req EXCEPT ![r] = Denied(q1, "loginFailed", 429, written)]
    BY <1>1, <1>6
  <2>2. /\ RequestSound(Denied(q1, "loginFailed", 429, written))
        /\ Denied(q1, "loginFailed", 429, written).stage = "answered"
    BY <1>4, DenialSound
  <2> QED BY <1>2, <2>1, <2>2, MovesOn
<1>7. CASE tried /\ ~failing
  <2>1. /\ RequestSound(Denied(q1, "loginFailed", 401, written))
        /\ Denied(q1, "loginFailed", 401, written).stage = "answered"
    BY <1>4, DenialSound
  <2>2. RequestSound(Answered(q1, 200)) /\ Answered(q1, 200).stage = "answered"
    BY <1>4, SuccessSound
  <2>3. RequestSound(Answered(q1, 400)) /\ Answered(q1, 400).stage = "answered"
    BY <1>4, FailureSound DEF Failed
  <2>4. \/ req' = [req EXCEPT ![r] = Denied(q1, "loginFailed", 401, written)]
        \/ req' = [req EXCEPT ![r] = Answered(q1, 400)]
        \/ req' = [req EXCEPT ![r] = Answered(q1, 200)]
    BY <1>1, <1>7
  <2>5. CASE req' = [req EXCEPT ![r] = Denied(q1, "loginFailed", 401, written)]
    BY <1>2, <2>1, <2>5, MovesOn
  <2>6. CASE req' = [req EXCEPT ![r] = Answered(q1, 400)]
    BY <1>2, <2>3, <2>6, MovesOn
  <2>7. CASE req' = [req EXCEPT ![r] = Answered(q1, 200)]
    BY <1>2, <2>2, <2>7, MovesOn
  <2> QED BY <2>4, <2>5, <2>6, <2>7
<1>8. CASE tried /\ failing
  <2>1. code \in {401, 403, 429} /\ code # 403
    OBVIOUS
  <2> HIDE DEF code
  <2>2. req' = [req EXCEPT ![r] = Denied(q2, "loginFailed", code, written)]
    BY <1>1, <1>8
  <2>3. /\ RequestSound(Denied(q2, "loginFailed", code, written))
        /\ Denied(q2, "loginFailed", code, written).stage = "answered"
    BY <1>5, <2>1, DenialSound
  <2> QED BY <1>2, <2>2, <2>3, MovesOn
<1> QED BY <1>6, <1>7, <1>8

-----------------------------------------------------------------------------
\* The handlers.  What Authorize returns:
LEMMA AuthorizeSound ==
  ASSUME NEW q, Lawful(q), q.route # "login", Authentic(q.credential),
         q.changed = FALSE, q.served = FALSE, q.audit = {}, q.code = 0
  PROVE  LET outcome == Authorize(q)
             after   == outcome.after
         IN  /\ Lawful(after) /\ after.route = q.route /\ after.scope = q.scope
             /\ after.changed = FALSE /\ after.served = FALSE
             /\ after.audit = {} /\ after.code = 0
             /\ outcome.verdict # "denied" => Allowable(after) /\ after.uses # {}
<1>1. CASE Permitted(q.credential, q.route, q.scope)
  <2> DEFINE k == QuotaOf(q.credential, q.route)
             u == Used(q, k, Allowed(counters, k))
  <2>1. Allowable(q)
    BY <1>1 DEF Allowable
  <2>2. /\ Lawful(u) /\ u.route = q.route /\ u.scope = q.scope
        /\ u.changed = FALSE /\ u.served = FALSE /\ u.audit = {} /\ u.code = 0 /\ Allowable(u) /\ u.uses # {}
    BY <2>1, UsedLawful, UsedFields DEF Lawful, Allowable, Entitled
  <2>3. Authorize(q).after = u
    BY <1>1 DEF Authorize, Quota
  <2> QED BY <2>2, <2>3
<1>2. CASE ~Permitted(q.credential, q.route, q.scope)
  <2>1. Authorize(q).after = q /\ Authorize(q).verdict = "denied"
    BY <1>2 DEF Authorize
  <2> QED BY <2>1
<1> QED BY <1>1, <1>2

\* The end of a handler that waits for nothing: refused, done, or governed.
LEMMA RefusedStep ==
  ASSUME GateInv, NEW r \in Requests, NEW q, Lawful(q), Refused(r, q), Forget(r)
  PROVE  GateInv'
<1>1. RequestSound(Answered(q, 409)) /\ Answered(q, 409).stage = "answered"
  BY RefusalSound, AnsweredFields DEF Lawful
<1> QED BY <1>1, MovesOn DEF Refused, Becomes

LEMMA GovernStep ==
  ASSUME GateInv, NEW r \in Requests, NEW q, Lawful(q), Entitled(q), q.code = 0,
         q.route \notin {"login", "propose"}, Govern(r, q), Forget(r)
  PROVE  GateInv'
<1> DEFINE c == Changed(q)
           d == Recorded(c, "stateChanged")
           w == [d EXCEPT !.stage = "syncing"]
<1>1. PICK written \in Written : Becomes(r, IF written THEN w ELSE Failed(c))
  BY DEF Govern
<1> written \in BOOLEAN
  BY DEF Written
<1>2. /\ Lawful(c) /\ Entitled(c) /\ c.changed = TRUE /\ c.code = 0
      /\ c.route \notin {"login", "propose"}
  BY ChangedLawful, ChangedFields DEF Lawful
<1> HIDE DEF c
<1>3. /\ Lawful(d) /\ Entitled(d) /\ "stateChanged" \in d.audit /\ d.code = 0
      /\ d.route \notin {"login", "propose"}
  BY <1>2, RecordedLawful, RecordedFields DEF Lawful, Allowable, Entitled
<1> HIDE DEF d
<1>4. RequestSound(w) /\ w.stage = "syncing"
  BY <1>3, SyncingSound
<1> HIDE DEF w
<1>5. RequestSound(Failed(c)) /\ Failed(c).stage = "answered"
  BY <1>2, FailureSound
<1>6. CASE written
  BY <1>1, <1>4, <1>6, MovesOn DEF Becomes
<1>7. CASE ~written
  BY <1>1, <1>5, <1>7, MovesOn DEF Becomes
<1> QED BY <1>6, <1>7

\* An exception of a proposal, recorded or not.
LEMMA CaughtSound ==
  ASSUME NEW r, NEW q, Lawful(q), Caught(r, q)
  PROVE  \E p : RequestSound(p) /\ p.stage = "answered" /\ req' = [req EXCEPT ![r] = p]
<1> DEFINE d == Recorded(q, "runFailed")
<1>1. PICK written \in Written : req' = [req EXCEPT ![r] = Failed(IF written THEN d ELSE q)]
  BY DEF Caught, Becomes
<1> written \in BOOLEAN
  BY DEF Written
<1>2. Lawful(d)
  BY RecordedLawful
<1> HIDE DEF d
<1>3. CASE written
  BY <1>1, <1>2, <1>3, FailureSound
<1>4. CASE ~written
  BY <1>1, <1>4, FailureSound
<1> QED BY <1>3, <1>4

LEMMA CaughtStep ==
  ASSUME GateInv, NEW r \in Requests, NEW q, Lawful(q), Caught(r, q),
         UNCHANGED body \/ Forget(r)
  PROVE  GateInv'
<1>1. PICK p : RequestSound(p) /\ p.stage = "answered" /\ req' = [req EXCEPT ![r] = p]
  BY CaughtSound
<1> QED BY <1>1, MovesOnly, MovesOn

\* A handler with a scope that is given and allowed.
LEMMA ScopedStep ==
  ASSUME GateInv, NEW r \in Requests, NEW q, Lawful(q), Entitled(q), q.uses # {},
         q.route # "login", q.changed = FALSE, q.audit = {}, q.code = 0,
         Scoped(r, q), Forget(r)
  PROVE  GateInv'
<1>1. Allowable(q)
  BY DEF Entitled
<1>2. ASSUME Done(r, Served(q)), q.route \in {"read", "change"}
      PROVE  GateInv'
  <2>1. /\ Lawful(Served(q)) /\ Allowable(Served(q)) /\ Served(q).route = q.route
        /\ Served(q).changed = FALSE
    BY ServedLawful, ServedFields DEF Lawful, Entitled
  <2>2. /\ RequestSound(Answered(Served(q), 200))
        /\ Answered(Served(q), 200).stage = "answered"
    BY <1>2, <2>1, SuccessSound
  <2> QED BY <1>2, <2>2, MovesOn DEF Done, Becomes
<1>3. ASSUME Synchronise(r, q), q.route # "propose"
      PROVE  GateInv'
  <2>1. LET w == [q EXCEPT !.stage = "syncing"] IN RequestSound(w) /\ w.stage = "syncing"
    BY <1>3, SyncingSound
  <2> QED BY <1>3, <2>1, MovesOn DEF Synchronise, Becomes
<1>4. ASSUME ReadDrafts(r, q)
      PROVE  GateInv'
  <2>1. RequestSound(Answered(q, 403)) /\ Answered(q, 403).stage = "answered"
    BY RefusalSound, AnsweredFields DEF Lawful
  <2> QED BY <1>4, <2>1, MovesOn DEF ReadDrafts, Becomes
<1>5. CASE q.route = "read" /\ Read(r, q)
  BY <1>2, <1>4, <1>5, RefusedStep, GovernStep DEF Read
<1>6. CASE q.route = "write" /\ Write(r, q)
  <2>1. CASE Done(r, Changed(q))
    <3>1. /\ Lawful(Changed(q)) /\ Allowable(Changed(q)) /\ Changed(q).route = "write"
      BY <1>6, ChangedLawful, ChangedFields DEF Lawful, Entitled
    <3>2. /\ RequestSound(Answered(Changed(q), 200))
          /\ Answered(Changed(q), 200).stage = "answered"
      BY <3>1, SuccessSound
    <3> QED BY <2>1, <3>2, MovesOn DEF Done, Becomes
  <2> QED BY <1>3, <1>6, <2>1, RefusedStep, GovernStep DEF Write
<1>7. CASE q.route = "change" /\ Change(r, q)
  BY <1>2, <1>3, <1>7, RefusedStep, GovernStep DEF Change
<1>8. CASE q.route = "propose" /\ Propose(r, q)
  <2> DEFINE w == [q EXCEPT !.stage = "asking"]
  <2>1. /\ Lawful(w) /\ w.stage = "asking" /\ w.route = "propose" /\ w.code = 0
        /\ w.changed = FALSE /\ w.audit = {} /\ Entitled(w)
    BY <1>8, WaitingFields DEF Lawful, Allowable, Entitled
  <2>2. Becomes(r, w) \/ Refused(r, q)
    BY <1>8 DEF Propose
  <2> HIDE DEF w
  <2>3. RequestSound(w)
    BY <2>1 DEF Lawful, RequestSound, PermissionSound, AuditSound, StageSound, Entitled
  <2>4. CASE Becomes(r, w)
    BY <2>1, <2>3, <2>4, MovesOn DEF Becomes
  <2> QED BY <2>2, <2>4, RefusedStep
<1> QED BY <1>5, <1>6, <1>7, <1>8 DEF Scoped

\* A handler without a scope: an answer, but nothing done.
LEMMA UnscopedStep ==
  ASSUME GateInv, NEW r \in Requests, NEW q, Lawful(q), Allowable(q), q.uses # {},
         q.route # "login", q.changed = FALSE, Unscoped(r, q), Forget(r)
  PROVE  GateInv'
<1>1. CASE Becomes(r, Failed(q))
  BY <1>1, FailureSound, MovesOn DEF Becomes
<1>2. CASE q.route = "read" /\ Done(r, q)
  <2>1. RequestSound(Answered(q, 200)) /\ Answered(q, 200).stage = "answered"
    BY <1>2, SuccessSound
  <2> QED BY <1>2, <2>1, MovesOn DEF Done, Becomes
<1>3. CASE ReadDrafts(r, q)
  <2>1. RequestSound(Answered(q, 403)) /\ Answered(q, 403).stage = "answered"
    BY RefusalSound, AnsweredFields DEF Lawful
  <2> QED BY <1>3, <2>1, MovesOn DEF ReadDrafts, Becomes
<1> QED BY <1>1, <1>2, <1>3, RefusedStep, CaughtStep DEF Unscoped

LEMMA HandleStep ==
  ASSUME GateInv, NEW r \in Requests, NEW s, Handle(r, s)
  PROVE  GateInv'
<1> DEFINE q0      == [req[r] EXCEPT !.scope = s]
           outcome == Authorize(q0)
           q       == outcome.after
<1>1. /\ At(r, "reading") /\ req[r].route # "login" /\ Forget(r)
      /\ \/ /\ outcome.verdict = "denied"
            /\ \E written \in Written : Becomes(r, Denied(q, "denied", 403, written))
         \/ outcome.verdict = "limited" /\ Becomes(r, Answered(q, 429))
         \/ /\ outcome.verdict = "granted"
            /\ IF s = NoScope THEN Unscoped(r, q) ELSE Scoped(r, q)
  BY DEF Handle
<1>2. /\ Lawful(req[r]) /\ req[r].changed = FALSE /\ req[r].served = FALSE
      /\ req[r].uses = {} /\ req[r].audit = {} /\ req[r].code = 0 /\ Authentic(req[r].credential)
  BY <1>1, Fresh DEF GateInv
<1>3. /\ Shaped(q0) /\ q0.route = req[r].route /\ q0.credential = req[r].credential
      /\ q0.scope = s /\ q0.changed = FALSE /\ q0.served = FALSE
      /\ q0.uses = {} /\ q0.audit = {} /\ q0.code = 0
  BY <1>2 DEF Lawful, Shaped
<1> HIDE DEF q0
<1>4. Lawful(q0)
  BY <1>3 DEF Lawful
<1>5. /\ Lawful(q) /\ q.route # "login" /\ q.scope = s
      /\ q.changed = FALSE /\ q.audit = {} /\ q.code = 0
      /\ outcome.verdict # "denied" => Allowable(q) /\ q.uses # {}
  BY <1>1, <1>2, <1>3, <1>4, AuthorizeSound
<1> HIDE DEF outcome, q
<1>6. CASE /\ outcome.verdict = "denied"
           /\ \E written \in Written : Becomes(r, Denied(q, "denied", 403, written))
  <2>1. PICK written \in Written :
          req' = [req EXCEPT ![r] = Denied(q, "denied", 403, written)]
    BY <1>6 DEF Becomes
  <2> written \in BOOLEAN
    BY DEF Written
  <2>2. /\ RequestSound(Denied(q, "denied", 403, written))
        /\ Denied(q, "denied", 403, written).stage = "answered"
    BY <1>5, DenialSound
  <2> QED BY <1>1, <2>1, <2>2, MovesOn
<1>7. CASE outcome.verdict = "limited" /\ Becomes(r, Answered(q, 429))
  <2>1. RequestSound(Answered(q, 429)) /\ Answered(q, 429).stage = "answered"
    BY <1>5, RefusalSound, AnsweredFields DEF Lawful
  <2> QED BY <1>1, <1>7, <2>1, MovesOn DEF Becomes
<1>8. CASE outcome.verdict = "granted" /\ s = NoScope /\ Unscoped(r, q)
  BY <1>1, <1>5, <1>8, UnscopedStep
<1>9. CASE outcome.verdict = "granted" /\ s # NoScope /\ Scoped(r, q)
  <2>1. Entitled(q) /\ q.uses # {}
    BY <1>5, <1>9 DEF Entitled
  <2> QED BY <1>1, <1>5, <1>9, <2>1, ScopedStep
<1> QED BY <1>1, <1>6, <1>7, <1>8, <1>9

LEMMA FinishProposalStep ==
  ASSUME GateInv, NEW r \in Requests, FinishProposal(r)
  PROVE  GateInv'
<1>1. PICK drafts \in BOOLEAN :
        LET q    == [req[r] EXCEPT !.changed = drafts]
            done == Recorded(q, "runOk")
        IN Caught(r, q) \/ Done(r, done) \/ (drafts /\ AutoVerify(r, done))
  BY DEF FinishProposal
<1> DEFINE q    == [req[r] EXCEPT !.changed = drafts]
           done == Recorded(q, "runOk")
           kept == Recorded(done, "stateChanged")
           w    == [kept EXCEPT !.stage = "syncing"]
<1>2. At(r, "asking") /\ UNCHANGED body
  BY DEF FinishProposal
<1>3. Caught(r, q) \/ Done(r, done) \/ (drafts /\ AutoVerify(r, done))
  BY <1>1
<1>4. /\ Lawful(req[r]) /\ Entitled(req[r]) /\ req[r].route = "propose"
      /\ req[r].audit = {} /\ req[r].code = 0
  BY <1>2, SoundIsLawful
     DEF GateInv, RequestsSound, RequestSound, StageSound, PermissionSound, At
<1>5. /\ Shaped(q) /\ q.route = "propose" /\ q.credential = req[r].credential
      /\ q.scope = req[r].scope /\ q.changed = drafts /\ q.served = req[r].served
      /\ q.uses = req[r].uses /\ q.audit = {} /\ q.code = 0
  BY <1>4 DEF Lawful, Shaped
<1> HIDE DEF q
<1>6. Lawful(q) /\ Entitled(q)
  BY <1>4, <1>5 DEF Lawful, Allowable, Entitled
<1>7. /\ Lawful(done) /\ Entitled(done) /\ done.route = "propose" /\ done.code = 0
      /\ done.changed = drafts /\ "runOk" \in done.audit
  BY <1>5, <1>6, RecordedLawful, RecordedFields DEF Lawful, Allowable, Entitled
<1> HIDE DEF done
<1>8. CASE Caught(r, q)
  BY <1>2, <1>6, <1>8, CaughtStep
<1>9. CASE Done(r, done)
  <2>1. RequestSound(Answered(done, 200)) /\ Answered(done, 200).stage = "answered"
    BY <1>7, SuccessSound DEF Entitled
  <2> QED BY <1>2, <1>9, <2>1, MovesOnly DEF Done, Becomes
<1>10. ASSUME drafts, AutoVerify(r, done)
       PROVE  GateInv'
  <2> done.changed
    BY <1>7, <1>10, Zenon
  <2> Lawful(kept)
    BY <1>7, RecordedLawful
  <2>1. /\ Lawful(kept) /\ Entitled(kept) /\ kept.route = "propose" /\ kept.code = 0
        /\ "runOk" \in kept.audit /\ "stateChanged" \in kept.audit
    BY <1>7, RecordedFields DEF Lawful, Allowable, Entitled
  <2>2. Becomes(r, w) \/ Caught(r, done)
    BY <1>10 DEF AutoVerify
  <2> HIDE DEF kept
  <2>3. RequestSound(w) /\ w.stage = "syncing"
    BY <2>1, SyncingSound
  <2> HIDE DEF w
  <2>4. CASE Becomes(r, w)
    BY <1>2, <2>3, <2>4, MovesOnly DEF Becomes
  <2> QED BY <1>2, <1>7, <2>2, <2>4, CaughtStep
<1> QED BY <1>3, <1>8, <1>9, <1>10

LEMMA FinishSyncStep ==
  ASSUME GateInv, NEW r \in Requests, FinishSync(r)
  PROVE  GateInv'
<1> DEFINE q == req[r]
<1>1. q.stage = "syncing" /\ UNCHANGED body
  BY DEF FinishSync, At
<1>2. /\ Lawful(q) /\ Entitled(q) /\ (q.changed => "stateChanged" \in q.audit)
      /\ (q.route = "propose" => "runOk" \in q.audit)
  BY <1>1, SoundIsLawful
     DEF GateInv, RequestsSound, RequestSound, StageSound, PermissionSound
<1>3. CASE req' = [req EXCEPT ![r] = Answered(q, 200)]
  <2>1. RequestSound(Answered(q, 200)) /\ Answered(q, 200).stage = "answered"
    BY <1>2, SuccessSound DEF Entitled
  <2> QED BY <1>1, <1>3, <2>1, MovesOnly
<1>4. CASE Caught(r, q)
  BY <1>1, <1>2, <1>4, CaughtStep
<1>5. CASE req' = [req EXCEPT ![r] = Failed(q)]
  BY <1>1, <1>2, <1>5, FailureSound, MovesOnly
<1> QED BY <1>3, <1>4, <1>5 DEF FinishSync, Done, Becomes

-----------------------------------------------------------------------------
\* GateInv holds at first, and every step keeps it.
LEMMA GateInit == GatewayInit => GateInv
<1> SUFFICES ASSUME GatewayInit PROVE GateInv
  OBVIOUS
<1>1. ReadersSound
  BY UnreadSound DEF GatewayInit, BodyInit, ReadersSound
<1>2. NotYetRead
  BY DEF GatewayInit, BodyInit, NotYetRead, Requests
<1>3. RequestsSound
  BY EmptyRequest DEF GatewayInit, RequestsSound
<1> QED BY <1>1, <1>2, <1>3 DEF GateInv

LEMMA StreamStep ==
  ASSUME GateInv, NEW r \in Requests, Stream(r)
  PROVE  GateInv'
<1>1. ReadersSound' /\ body' = [body EXCEPT ![r] = body'[r]]
  BY StreamSound DEF Stream, GateInv, Requests
<1>2. RequestsSound' /\ req' = req
  BY DEF Stream, GateInv, RequestsSound
<1>3. body[r].stream # "idle"
  BY DEF Stream, BodyStep, OnData, OnEnd, OnError, OnClose
<1>4. ~At(r, "none")
  BY <1>3 DEF GateInv, NotYetRead, Unread
<1>5. NotYetRead'
  BY <1>1, <1>2, <1>4 DEF GateInv, NotYetRead, At, Requests, ReadersSound
<1> QED BY <1>1, <1>2, <1>5 DEF GateInv

LEMMA GateStep == GateInv /\ [GateNext]_gateVars => GateInv'
<1> SUFFICES ASSUME GateInv, [GateNext]_gateVars
             PROVE  GateInv'
  OBVIOUS
<1>1. ASSUME UNCHANGED <<body, req>>
      PROVE  GateInv'
  BY <1>1 DEF GateInv, ReadersSound, NotYetRead, RequestsSound, At
<1>2. CASE Tick
  BY <1>1, <1>2 DEF Tick
<1>3. CASE UNCHANGED gateVars
  BY <1>1, <1>3 DEF gateVars
<1>4. ASSUME NEW r \in Requests, NEW route \in Routes, NEW c \in Credentials,
             Arrive(r, route, c)
      PROVE  GateInv'
  BY <1>4, ArriveStep
<1>5. ASSUME NEW r \in Requests, Stream(r)
      PROVE  GateInv'
  BY <1>5, StreamStep
<1>6. ASSUME NEW r \in Requests, Respond(r)
      PROVE  GateInv'
  BY <1>6, UnreadableStep, LoginStep, HandleStep, FinishProposalStep, FinishSyncStep
     DEF Respond
<1> QED BY <1>2, <1>3, <1>4, <1>5, <1>6 DEF GateNext

THEOREM GateInvariant == GateSpec => []GateInv
  BY GateInit, GateStep, PTL DEF GateSpec

-----------------------------------------------------------------------------
\* readRequestBody accepts a body only whole and within the limit, keeps
\* nothing of one that exceeds it, and has settled once the stream is over.
THEOREM BodiesAreSound == GateSpec => []BodiesSound
<1>1. GateInv => BodiesSound
  <2> SUFFICES ASSUME GateInv, NEW r \in Readers
               PROVE  LET b == body[r] IN
                      /\ b.settled = "ok" => b.received <= MaxBytes /\ b.buffered = b.received
                      /\ b.settled = "tooLarge" => b.received > MaxBytes
                      /\ b.received > MaxBytes => b.buffered = 0 /\ b.settled # "interrupted"
                      /\ b.stream \in {"ended", "closed"} => b.settled # "none"
    BY DEF BodiesSound
  <2>1. ReaderSound(body[r])
    BY DEF GateInv, ReadersSound
  <2> QED BY <2>1, BodyAssumption DEF ReaderSound
<1> QED BY <1>1, GateInvariant, PTL

\* Whoever gets something done or is given something through the gateway has the
\* right and the scope for it (authorize); whoever uses up a quota or is answered
\* has the right, and gave no scope out of bounds; and who gave none got nothing.
THEOREM OnlyPermittedAct == GateSpec => []OnlyPermitted
<1>1. GateInv => OnlyPermitted
  BY DEF GateInv, RequestsSound, RequestSound, PermissionSound, OnlyPermitted,
     Allowable, Entitled
<1> QED BY <1>1, GateInvariant, PTL

\* What an answer of the gateway says is committed and on record, whatever
\* events cannot be written.
THEOREM AnswersAreAudited == GateSpec => []AnswersAudited
<1>1. GateInv => AnswersAudited
  BY DEF GateInv, RequestsSound, RequestSound, AuditSound, AnswersAudited
<1> QED BY <1>1, GateInvariant, PTL

-----------------------------------------------------------------------------
\* Quotas.  What the limiter holds of a key is a summary of the uses of the
\* key: the last window they opened, and how many fell into it; a key it has
\* forgotten has no window that is still running.
Counted(clock, map, k, uses) ==
  \E W \in SUBSET Times(uses) :
    /\ Opened(uses, W)
    /\ \A t \in W : GrantedExactly(uses, t, Limits[k[1]])
    /\ IF k \in DOMAIN map
         THEN /\ map[k].start \in W /\ \A t \in W : t <= map[k].start
              /\ map[k].count = Cardinality(Taken(uses, map[k].start))
         ELSE \A t \in W : clock - t >= WindowMs

UseSound(u) == u.at \in 0..now /\ u.key[1] \in Domains /\ u.allowed \in BOOLEAN

\* A counter as consume leaves it.
Shapely(map) == \A k \in DOMAIN map : map[k] = [start |-> map[k].start, count |-> map[k].count]

LimitInv ==
  /\ now \in Nat
  /\ Shapely(counters)
  /\ DOMAIN counters \subseteq UsedKeys
  /\ \A r \in Requests : \A u \in req[r].uses : UseSound(u)
  /\ \A k \in UsedKeys : IsFiniteSet(UsesOf(k)) /\ Counted(now, counters, k, UsesOf(k))

\* What consume does to the counter of its key, and to the others: of these
\* only expired ones leave.
LEMMA ConsumedRunning ==
  ASSUME NEW map, NEW k, Running(map, k), Shapely(map)
  PROVE  LET c == Consumed(map, k) IN
         /\ DOMAIN c = DOMAIN map
         /\ c[k] = [start |-> map[k].start, count |-> map[k].count + 1]
         /\ \A j \in DOMAIN c \ {k} : c[j] = map[j]
  BY DEF Running, Shapely, Consumed

LEMMA ConsumedAnew ==
  ASSUME NEW map, NEW k, ~Running(map, k)
  PROVE  LET c == Consumed(map, k) IN
         /\ k \in DOMAIN c /\ DOMAIN c \subseteq DOMAIN map \cup {k}
         /\ c[k] = [start |-> now, count |-> 1]
         /\ \A j \in DOMAIN c \ {k} : c[j] = map[j]
         /\ \A j \in (DOMAIN map \ {k}) \ DOMAIN c : Expired(map, j)
<1> DEFINE kept == Kept(map)
<1>1. /\ DOMAIN kept \subseteq DOMAIN map
      /\ \A j \in DOMAIN kept : kept[j] = map[j]
      /\ \A j \in DOMAIN map \ DOMAIN kept : Expired(map, j)
  BY DEF Kept, Restrict
<1>2. Consumed(map, k) =
        [j \in DOMAIN kept \cup {k} |-> IF j = k THEN [start |-> now, count |-> 1] ELSE kept[j]]
  BY DEF Consumed, kept
<1> HIDE DEF kept
<1> QED BY <1>1, <1>2

\* One more use, in the window that opens at t or outside it.
LEMMA OneMoreTaken ==
  ASSUME NEW uses, IsFiniteSet(uses), NEW x, x \notin uses, x[2].allowed \in BOOLEAN, NEW t,
         x[2].at \in t..(t + WindowMs - 1)
  PROVE  LET taken   == Cardinality(Taken(uses, t))
             granted == Cardinality(Granted(uses, t))
         IN /\ taken \in Nat /\ granted \in Nat
            /\ Cardinality(Taken(uses \cup {x}, t)) = taken + 1
            /\ Cardinality(Granted(uses \cup {x}, t)) =
                 IF x[2].allowed THEN granted + 1 ELSE granted
<1>1. /\ Taken(uses \cup {x}, t) = Taken(uses, t) \cup {x} /\ x \notin Taken(uses, t)
      /\ Taken(uses, t) \in SUBSET uses
  BY DEF Taken
<1>2. /\ Granted(uses \cup {x}, t) =
           IF x[2].allowed THEN Granted(uses, t) \cup {x} ELSE Granted(uses, t)
      /\ x \notin Granted(uses, t) /\ Granted(uses, t) \in SUBSET uses
  <2>1. Granted(uses, t) \in SUBSET Taken(uses, t)
    BY DEF Granted
  <2>2. CASE x[2].allowed
    BY <1>1, <2>1, <2>2 DEF Granted
  <2>3. CASE ~x[2].allowed
    BY <1>1, <2>1, <2>3 DEF Granted
  <2> QED BY <1>1, <2>1, <2>2, <2>3
<1>3. IsFiniteSet(Taken(uses, t)) /\ IsFiniteSet(Granted(uses, t))
  BY <1>1, <1>2, FS_Subset
<1>4. Cardinality(Taken(uses, t)) \in Nat /\ Cardinality(Granted(uses, t)) \in Nat
  BY <1>3, FS_CardinalityType
<1>5. Cardinality(Taken(uses, t) \cup {x}) = Cardinality(Taken(uses, t)) + 1
  BY <1>1, <1>3, FS_AddElement
<1>6. Cardinality(Granted(uses, t) \cup {x}) = Cardinality(Granted(uses, t)) + 1
  BY <1>2, <1>3, FS_AddElement
<1> QED BY <1>1, <1>2, <1>4, <1>5, <1>6

LEMMA NoneMoreTaken ==
  ASSUME NEW uses, NEW x, NEW t, x[2].at \notin t..(t + WindowMs - 1), NEW limit,
         GrantedExactly(uses, t, limit)
  PROVE  /\ GrantedExactly(uses \cup {x}, t, limit)
         /\ Taken(uses \cup {x}, t) = Taken(uses, t)
<1>1. Taken(uses \cup {x}, t) = Taken(uses, t)
  BY DEF Taken
<1>2. Granted(uses \cup {x}, t) = Granted(uses, t)
  BY <1>1 DEF Granted
<1> QED BY <1>1, <1>2 DEF GrantedExactly

\* A use in the window that is running.
LEMMA CountsOn ==
  ASSUME now \in Nat, NEW map, Shapely(map), NEW k, k[1] \in Domains, NEW uses, IsFiniteSet(uses),
         \A u \in uses : u[2].at \in 0..now,
         Counted(now, map, k, uses), Running(map, k),
         NEW x, x \notin uses, x[2].at = now, x[2].allowed = Allowed(map, k)
  PROVE  Counted(now, Consumed(map, k), k, uses \cup {x})
<1> USE RateAssumption
<1> DEFINE limit == Limits[k[1]]
           more  == uses \cup {x}
           start == map[k].start
           c     == Consumed(map, k)
<1> limit \in Nat \ {0}
  BY DEF Domains
<1>1. k \in DOMAIN map /\ ~(now - start >= WindowMs)
  BY DEF Running, Expired
<1>2. PICK W \in SUBSET Times(uses) :
        /\ Opened(uses, W)
        /\ \A t \in W : GrantedExactly(uses, t, limit)
        /\ start \in W /\ \A t \in W : t <= start
        /\ map[k].count = Cardinality(Taken(uses, start))
  BY <1>1 DEF Counted
<1>3. /\ start \in 0..now /\ now - start < WindowMs
      /\ now \in start..(start + WindowMs - 1)
  <2>1. start \in 0..now
    BY <1>2 DEF Times
  <2> HIDE DEF start
  <2> QED BY <1>1, <2>1
<1>4. x[2].allowed <=> map[k].count + 1 <= limit
  BY DEF Allowed
<1>5. x[2].allowed \in BOOLEAN
  BY DEF Allowed
<1>6. /\ GrantedExactly(more, start, limit)
      /\ Cardinality(Taken(more, start)) = map[k].count + 1
  <2> DEFINE taken   == Cardinality(Taken(uses, start))
             granted == Cardinality(Granted(uses, start))
  <2>1. /\ taken \in Nat /\ granted \in Nat
        /\ Cardinality(Taken(more, start)) = taken + 1
        /\ Cardinality(Granted(more, start)) = IF x[2].allowed THEN granted + 1 ELSE granted
    <3>1. x[2].at \in start..(start + WindowMs - 1)
      BY <1>3
    <3> HIDE DEF start
    <3> QED BY <1>5, <3>1, OneMoreTaken
  <2>2. granted = IF taken < limit THEN taken ELSE limit
    BY <1>2 DEF GrantedExactly
  <2>3. taken = map[k].count
    BY <1>2
  <2> HIDE DEF taken, granted, limit, more, start
  <2>4. Cardinality(Granted(more, start)) =
          IF taken + 1 < limit THEN taken + 1 ELSE limit
    BY <1>4, <2>1, <2>2, <2>3
  <2> QED BY <2>1, <2>3, <2>4 DEF GrantedExactly
<1>7. ASSUME NEW t \in W, t # start
      PROVE  GrantedExactly(more, t, limit)
  <2>1. t \in 0..now /\ t < start
    <3>1. t \in 0..now /\ t <= start
      BY <1>2 DEF Times
    <3> HIDE DEF start
    <3> QED BY <1>3, <1>7, <3>1
  <2>2. start - t >= WindowMs
    BY <1>2, <2>1 DEF Opened
  <2>3. now \notin t..(t + WindowMs - 1)
    BY <1>3, <2>1, <2>2
  <2> QED BY <1>2, <2>3, NoneMoreTaken
<1>8. Opened(more, W)
  <2> SUFFICES ASSUME NEW t \in Times(more)
               PROVE  t \in W <=> \A e \in W : e < t => t - e >= WindowMs
    BY DEF Opened
  <2>1. CASE t \in Times(uses)
    BY <1>2, <2>1 DEF Opened
  <2>2. CASE t \notin Times(uses)
    <3>1. t = now
      BY <2>2 DEF Times
    <3>2. t \notin W /\ start \in W /\ start # now
      BY <1>2, <2>2, <3>1
    <3>3. start < t /\ ~(t - start >= WindowMs)
      BY <1>3, <3>1, <3>2
    <3> QED BY <3>2, <3>3
  <2> QED BY <2>1, <2>2
<1>9. /\ DOMAIN c = DOMAIN map
      /\ c[k] = [start |-> start, count |-> map[k].count + 1]
  BY ConsumedRunning
<1>10. k \in DOMAIN c /\ c[k].start = start /\ c[k].count = map[k].count + 1
  BY <1>1, <1>9
<1> HIDE DEF c, start, limit, more
<1>11. W \in SUBSET Times(more)
  BY <1>2 DEF Times, more
<1>12. Counted(now, c, k, more)
  BY <1>2, <1>6, <1>7, <1>8, <1>10, <1>11 DEF Counted, limit
<1> QED BY <1>12 DEF c, more

\* A use that opens a window.
LEMMA CountsAnew ==
  ASSUME now \in Nat, NEW map, NEW k, k[1] \in Domains, NEW uses, IsFiniteSet(uses),
         \A u \in uses : u[2].at \in 0..now,
         Counted(now, map, k, uses), ~Running(map, k),
         NEW x, x \notin uses, x[2].at = now, x[2].allowed = TRUE
  PROVE  Counted(now, Consumed(map, k), k, uses \cup {x})
<1> USE RateAssumption
<1> DEFINE limit == Limits[k[1]]
           more  == uses \cup {x}
           c     == Consumed(map, k)
<1> limit \in Nat \ {0}
  BY DEF Domains
<1>1. PICK W \in SUBSET Times(uses) :
        /\ Opened(uses, W)
        /\ \A t \in W : GrantedExactly(uses, t, limit)
        /\ IF k \in DOMAIN map
             THEN map[k].start \in W /\ \A t \in W : t <= map[k].start
             ELSE \A t \in W : now - t >= WindowMs
  BY DEF Counted
<1>2. \A t \in W : now - t >= WindowMs
  <2>1. CASE k \notin DOMAIN map
    BY <1>1, <2>1
  <2>2. ASSUME k \in DOMAIN map, NEW t \in W
        PROVE  now - t >= WindowMs
    <3> DEFINE start == map[k].start
    <3>1. now - start >= WindowMs
      BY <2>2 DEF Running, Expired
    <3>2. start \in 0..now /\ t \in 0..now /\ t <= start
      BY <1>1, <2>2 DEF Times
    <3> HIDE DEF start
    <3> QED BY <3>1, <3>2
  <2> QED BY <2>1, <2>2
<1> DEFINE V == W \cup {now}
<1>3. V \in SUBSET Times(more) /\ Times(more) = Times(uses) \cup {now}
  BY <1>1 DEF Times
<1>4. W \in SUBSET (0..now)
  BY <1>1 DEF Times
<1>5. now \notin Times(uses)
  <2>1. now \notin W
    BY <1>2, <1>4
  <2>2. \A e \in W : e < now => now - e >= WindowMs
    BY <1>2
  <2> QED BY <1>1, <2>1, <2>2 DEF Opened
<1>6. Opened(more, V)
  <2> SUFFICES ASSUME NEW t \in Times(more)
               PROVE  t \in V <=> \A e \in V : e < t => t - e >= WindowMs
    BY DEF Opened
  <2>1. CASE t \in Times(uses)
    <3>1. t \in 0..now /\ t # now
      BY <1>5, <2>1 DEF Times
    <3>2. t \in W <=> \A e \in W : e < t => t - e >= WindowMs
      BY <1>1, <2>1 DEF Opened
    <3> QED BY <3>1, <3>2
  <2>2. CASE t = now
    BY <1>2, <1>4, <2>2
  <2> QED BY <1>3, <2>1, <2>2
<1>7. ASSUME NEW t \in W
      PROVE  GrantedExactly(more, t, limit)
  <2>1. now \notin t..(t + WindowMs - 1)
    BY <1>2, <1>4
  <2> QED BY <1>1, <2>1, NoneMoreTaken
<1>8. Taken(uses, now) = {} /\ Granted(uses, now) = {}
  <2>1. \A u \in uses : u[2].at \notin now..(now + WindowMs - 1)
    BY <1>5 DEF Times
  <2> QED BY <2>1 DEF Taken, Granted
<1>9. /\ Cardinality(Taken(more, now)) = 1
      /\ Cardinality(Granted(more, now)) = 1
  <2>1. now \in now..(now + WindowMs - 1)
    OBVIOUS
  <2>2. Cardinality(Taken(uses, now)) = 0 /\ Cardinality(Granted(uses, now)) = 0
    BY <1>8, FS_EmptySet
  <2>3. x[2].at \in now..(now + WindowMs - 1) /\ x[2].allowed \in BOOLEAN
    BY <2>1
  <2>4. /\ Cardinality(Taken(more, now)) = Cardinality(Taken(uses, now)) + 1
        /\ Cardinality(Granted(more, now)) = Cardinality(Granted(uses, now)) + 1
    BY <2>3, OneMoreTaken
  <2> QED BY <2>2, <2>4
<1>10. GrantedExactly(more, now, limit)
  BY <1>9 DEF GrantedExactly
<1>11. k \in DOMAIN c /\ c[k].start = now /\ c[k].count = 1
  BY ConsumedAnew
<1>12. \A t \in V : t <= now
  BY <1>4
<1> HIDE DEF c, limit, more
<1>13. Counted(now, c, k, more)
  BY <1>3, <1>6, <1>7, <1>9, <1>10, <1>11, <1>12 DEF Counted, limit
<1> QED BY <1>13 DEF c, more

\* The uses of one key do not disturb what is known of another.
LEMMA OthersCounted ==
  ASSUME now \in Nat, NEW map, Shapely(map), NEW k, NEW j, j # k, NEW uses,
         \A u \in uses : u[2].at \in 0..now,
         Counted(now, map, j, uses)
  PROVE  Counted(now, Consumed(map, k), j, uses)
<1> DEFINE c == Consumed(map, k)
<1>1. PICK W \in SUBSET Times(uses) :
        /\ Opened(uses, W)
        /\ \A t \in W : GrantedExactly(uses, t, Limits[j[1]])
        /\ IF j \in DOMAIN map
             THEN /\ map[j].start \in W /\ \A t \in W : t <= map[j].start
                  /\ map[j].count = Cardinality(Taken(uses, map[j].start))
             ELSE \A t \in W : now - t >= WindowMs
  BY DEF Counted
<1>2. CASE j \notin DOMAIN map
  <2>1. j \notin DOMAIN c
    BY <1>2, ConsumedRunning, ConsumedAnew
  <2> QED BY <1>1, <1>2, <2>1 DEF Counted
<1>3. CASE j \in DOMAIN map /\ j \in DOMAIN c
  <2>1. c[j] = map[j]
    <3>1. CASE Running(map, k)
      BY <1>3, <3>1 DEF Consumed
    <3>2. CASE ~Running(map, k)
      BY <1>3, <3>2, ConsumedAnew
    <3> QED BY <3>1, <3>2
  <2> QED BY <1>1, <1>3, <2>1 DEF Counted
<1>4. CASE j \in DOMAIN map /\ j \notin DOMAIN c
  <2>1. now - map[j].start >= WindowMs
    BY <1>4, ConsumedRunning, ConsumedAnew DEF Expired
  <2>2. ASSUME NEW t \in W
        PROVE  now - t >= WindowMs
    <3> DEFINE start == map[j].start
    <3>1. now - start >= WindowMs
      BY <2>1
    <3>2. start \in 0..now /\ t \in 0..now /\ t <= start
      BY <1>1, <1>4 DEF Times
    <3> HIDE DEF start
    <3> QED BY <3>1, <3>2, RateAssumption
  <2> QED BY <1>1, <1>4, <2>2 DEF Counted
<1> QED BY <1>2, <1>3, <1>4

\* A use of k, as consume judges and counts it.
LEMMA UseCounted ==
  ASSUME now \in Nat, NEW map, Shapely(map), NEW k, k[1] \in Domains,
         NEW uses, IsFiniteSet(uses), \A u \in uses : u[2].at \in 0..now,
         Counted(now, map, k, uses),
         NEW x, x \notin uses, x[2].at = now, x[2].allowed = Allowed(map, k)
  PROVE  Counted(now, Consumed(map, k), k, uses \cup {x})
<1>1. CASE Running(map, k)
  BY <1>1, CountsOn
<1>2. CASE ~Running(map, k)
  <2>1. x[2].allowed = TRUE
    BY <1>2 DEF Allowed
  <2> QED BY <1>2, <2>1, CountsAnew
<1> QED BY <1>1, <1>2

LEMMA ConsumedShape ==
  ASSUME NEW map, Shapely(map), NEW k
  PROVE  Shapely(Consumed(map, k)) /\ DOMAIN Consumed(map, k) \subseteq DOMAIN map \cup {k}
<1> DEFINE c == Consumed(map, k)
<1>1. /\ DOMAIN c \subseteq DOMAIN map \cup {k}
      /\ \A j \in DOMAIN c \ {k} : c[j] = map[j]
      /\ k \in DOMAIN c => \E start, count : c[k] = [start |-> start, count |-> count]
  <2>1. CASE Running(map, k)
    <3>1. /\ DOMAIN c = DOMAIN map /\ k \in DOMAIN map
          /\ c[k] = [start |-> map[k].start, count |-> map[k].count + 1]
          /\ \A j \in DOMAIN c \ {k} : c[j] = map[j]
      BY <2>1, ConsumedRunning DEF Running
    <3> QED BY <3>1
  <2>2. CASE ~Running(map, k)
    <3>1. /\ DOMAIN c \subseteq DOMAIN map \cup {k}
          /\ c[k] = [start |-> now, count |-> 1]
          /\ \A j \in DOMAIN c \ {k} : c[j] = map[j]
      BY <2>2, ConsumedAnew
    <3> QED BY <3>1
  <2> QED BY <2>1, <2>2
<1> HIDE DEF c
<1>2. Shapely(c)
  BY <1>1 DEF Shapely
<1> QED BY <1>1, <1>2 DEF c

\* Keys nobody has used yet are counted rightly too.
LEMMA EveryKey ==
  ASSUME LimitInv, NEW k
  PROVE  /\ IsFiniteSet(UsesOf(k)) /\ \A e \in UsesOf(k) : e[2].at \in 0..now
         /\ Counted(now, counters, k, UsesOf(k))
<1>1. \A e \in UsesOf(k) : e[2].at \in 0..now
  BY DEF UsesOf, LimitInv, UseSound
<1>2. CASE k \in UsedKeys
  BY <1>1, <1>2 DEF LimitInv
<1>3. CASE k \notin UsedKeys
  <2>1. UsesOf(k) = {} /\ k \notin DOMAIN counters
    BY <1>3 DEF LimitInv, UsedKeys, UsesOf
  <2>2. Opened({}, {})
    BY DEF Opened, Times
  <2>3. Counted(now, counters, k, {})
    BY <2>1, <2>2 DEF Counted
  <2> QED BY <2>1, <2>3, FS_EmptySet
<1> QED BY <1>2, <1>3

-----------------------------------------------------------------------------
\* The uses of every key, and the keys used, when a request adds new uses.
LEMMA UsesTaken ==
  ASSUME NEW r \in Requests, NEW new, new # {},
         \A u, v \in new : u.key = v.key => u = v,
         \A u \in new, v \in req[r].uses : u.key # v.key,
         req'[r].uses = req[r].uses \cup new,
         \A s \in Requests \ {r} : req'[s].uses = req[s].uses
  PROVE  /\ \A u \in new : /\ <<r, u>> \notin UsesOf(u.key)
                           /\ UsesOf(u.key)' = UsesOf(u.key) \cup {<<r, u>>}
         /\ \A k : k \notin {u.key : u \in new} => UsesOf(k)' = UsesOf(k)
         /\ UsedKeys' = UsedKeys \cup {u.key : u \in new}
<1>1. \A u \in new : <<r, u>> \notin UsesOf(u.key)
  BY DEF UsesOf
<1>2. ASSUME NEW u \in new
      PROVE  UsesOf(u.key)' = UsesOf(u.key) \cup {<<r, u>>}
  BY <1>2 DEF UsesOf
<1>3. ASSUME NEW k, k \notin {u.key : u \in new}
      PROVE  UsesOf(k)' = UsesOf(k)
  BY <1>3 DEF UsesOf
<1>4. UsedKeys' = UsedKeys \cup {u.key : u \in new}
  BY DEF UsedKeys
<1> QED BY <1>1, <1>2, <1>3, <1>4

\* What is to be shown of a step in which a request adds new uses and the
\* limiter counts them.
LEMMA UsesCounted ==
  ASSUME LimitInv, NEW r \in Requests, NEW new, new # {}, now' = now,
         \A u, v \in new : u.key = v.key => u = v,
         \A u \in new : UseSound(u),
         req[r].uses = {}, req'[r].uses = new,
         \A s \in Requests \ {r} : req'[s].uses = req[s].uses,
         Shapely(counters'), DOMAIN counters' \subseteq DOMAIN counters \cup {u.key : u \in new},
         \A u \in new : Counted(now, counters', u.key, UsesOf(u.key) \cup {<<r, u>>}),
         \A k \in UsedKeys \ {u.key : u \in new} : Counted(now, counters', k, UsesOf(k))
  PROVE  LimitInv'
<1>1. /\ \A u \in new : UsesOf(u.key)' = UsesOf(u.key) \cup {<<r, u>>}
      /\ \A k : k \notin {u.key : u \in new} => UsesOf(k)' = UsesOf(k)
      /\ UsedKeys' = UsedKeys \cup {u.key : u \in new}
  <2>1. req'[r].uses = req[r].uses \cup new
    OBVIOUS
  <2>2. \A u \in new, v \in req[r].uses : u.key # v.key
    OBVIOUS
  <2> QED BY <2>1, <2>2, UsesTaken
<1>2. now' \in Nat /\ (DOMAIN counters \subseteq UsedKeys)
  BY DEF LimitInv
<1>3. \A s \in Requests : \A u \in req'[s].uses : UseSound(u)'
  <2>1. \A u : UseSound(u)' <=> UseSound(u)
    BY DEF UseSound
  <2> QED BY <2>1 DEF LimitInv
<1>5. ASSUME NEW k \in UsedKeys'
      PROVE  IsFiniteSet(UsesOf(k)') /\ Counted(now, counters', k, UsesOf(k)')
  <2>1. IsFiniteSet(UsesOf(k))
    BY EveryKey
  <2>2. CASE k \in {u.key : u \in new}
    <3>1. PICK u \in new : u.key = k
      BY <2>2
    <3>2. UsesOf(k)' = UsesOf(k) \cup {<<r, u>>} /\ Counted(now, counters', k, UsesOf(k)')
      BY <1>1, <3>1
    <3>3. IsFiniteSet(UsesOf(k) \cup {<<r, u>>})
      BY <2>1, FS_AddElement
    <3> QED BY <3>2, <3>3
  <2>3. CASE k \notin {u.key : u \in new}
    BY <1>1, <1>5, <2>1, <2>3
  <2> QED BY <2>2, <2>3
<1> QED BY <1>1, <1>2, <1>3, <1>5 DEF LimitInv, Shapely

\* A step that takes nothing from a quota, though time may pass.
LEMMA NothingTaken ==
  ASSUME LimitInv, counters' = counters, now' \in {now, now + 1},
         \A r \in Requests : req'[r].uses = req[r].uses
  PROVE  LimitInv'
<1>1. now \in Nat /\ now' \in Nat /\ now <= now'
  BY DEF LimitInv
<1>2. UsedKeys' = UsedKeys /\ \A k : UsesOf(k)' = UsesOf(k)
  BY DEF UsedKeys, UsesOf
<1>3. \A r \in Requests : \A u \in req'[r].uses : UseSound(u)'
  BY <1>1 DEF LimitInv, UseSound
<1>4. ASSUME NEW k \in UsedKeys
      PROVE  IsFiniteSet(UsesOf(k)) /\ Counted(now', counters', k, UsesOf(k))
  <2>1. /\ IsFiniteSet(UsesOf(k)) /\ Counted(now, counters, k, UsesOf(k))
        /\ \A e \in UsesOf(k) : e[2].at \in 0..now
    BY EveryKey
  <2>2. \A W \in SUBSET Times(UsesOf(k)) :
          (\A t \in W : now - t >= WindowMs) => (\A t \in W : now' - t >= WindowMs)
    BY <1>1, <2>1, RateAssumption DEF Times
  <2> QED BY <2>1, <2>2 DEF Counted
<1> QED BY <1>1, <1>2, <1>3, <1>4 DEF LimitInv, Shapely

\* A request uses one quota.
LEMMA OneTaken ==
  ASSUME LimitInv, NEW r \in Requests, NEW k, k[1] \in Domains, now' = now,
         req[r].uses = {},
         req'[r].uses = {[key |-> k, at |-> now, allowed |-> Allowed(counters, k)]},
         \A s \in Requests \ {r} : req'[s].uses = req[s].uses,
         counters' = Consumed(counters, k)
  PROVE  LimitInv'
<1> DEFINE x == [key |-> k, at |-> now, allowed |-> Allowed(counters, k)]
<1>1. now \in Nat /\ Shapely(counters)
  BY DEF LimitInv
<1>2. /\ x.key = k /\ x.at = now /\ x.allowed = Allowed(counters, k)
      /\ req'[r].uses = {x} /\ x.allowed \in BOOLEAN
  BY DEF Allowed
<1>3. <<r, x>> \notin UsesOf(k)
  BY DEF UsesOf
<1> HIDE DEF x
<1>4. UseSound(x)
  BY <1>1, <1>2 DEF UseSound
<1>5. Counted(now, counters', k, UsesOf(k) \cup {<<r, x>>})
  <2> DEFINE y == <<r, x>>
  <2>1. y \notin UsesOf(k) /\ y[2].at = now /\ y[2].allowed = Allowed(counters, k)
    BY <1>2, <1>3
  <2> HIDE DEF y
  <2>2. Counted(now, counters', k, UsesOf(k) \cup {y})
    BY <1>1, <2>1, EveryKey, UseCounted
  <2> QED BY <2>2 DEF y
<1>6. ASSUME NEW j \in UsedKeys \ {k}
      PROVE  Counted(now, counters', j, UsesOf(j))
  BY <1>1, EveryKey, OthersCounted
<1>7. Shapely(counters') /\ DOMAIN counters' \subseteq DOMAIN counters \cup {k}
  BY <1>1, ConsumedShape
<1> DEFINE new == {x}
<1>8. /\ new # {} /\ (\A u, v \in new : u.key = v.key => u = v)
      /\ \A u \in new : UseSound(u)
      /\ {u.key : u \in new} = {k} /\ req'[r].uses = new
      /\ \A u \in new : Counted(now, counters', u.key, UsesOf(u.key) \cup {<<r, u>>})
  BY <1>2, <1>4, <1>5
<1> HIDE DEF new
<1> QED BY <1>6, <1>7, <1>8, UsesCounted

\* A request uses two quotas at once.
LEMMA TwoTaken ==
  ASSUME LimitInv, NEW r \in Requests, now' = now, req[r].uses = {},
         NEW k, k[1] \in Domains, NEW l, l[1] \in Domains, k # l,
         NEW map, map = Consumed(counters, k),
         req'[r].uses = {[key |-> k, at |-> now, allowed |-> Allowed(counters, k)],
                         [key |-> l, at |-> now, allowed |-> Allowed(map, l)]},
         \A s \in Requests \ {r} : req'[s].uses = req[s].uses,
         counters' = Consumed(map, l)
  PROVE  LimitInv'
<1> DEFINE x == [key |-> k, at |-> now, allowed |-> Allowed(counters, k)]
           y == [key |-> l, at |-> now, allowed |-> Allowed(map, l)]
           Ux == UsesOf(k) \cup {<<r, x>>}
           Uy == UsesOf(l) \cup {<<r, y>>}
<1>1. now \in Nat /\ Shapely(counters)
  BY DEF LimitInv
<1>2. /\ x.key = k /\ x.at = now /\ x.allowed = Allowed(counters, k) /\ x.allowed \in BOOLEAN
      /\ y.key = l /\ y.at = now /\ y.allowed = Allowed(map, l) /\ y.allowed \in BOOLEAN
      /\ req'[r].uses = {x, y}
  BY DEF Allowed
<1>3. <<r, x>> \notin UsesOf(k) /\ <<r, y>> \notin UsesOf(l)
  BY DEF UsesOf
<1> HIDE DEF x, y
<1>4. UseSound(x) /\ UseSound(y)
  BY <1>1, <1>2 DEF UseSound
<1>5. Shapely(map) /\ DOMAIN map \subseteq DOMAIN counters \cup {k}
  BY <1>1, ConsumedShape
<1>6. Shapely(counters') /\ DOMAIN counters' \subseteq DOMAIN counters \cup {k, l}
  BY <1>5, ConsumedShape
<1>7. Counted(now, map, k, Ux) /\ \A u \in Ux : u[2].at \in 0..now
  <2> DEFINE e == <<r, x>>
  <2>1. e \notin UsesOf(k) /\ e[2].at = now /\ e[2].allowed = Allowed(counters, k)
    BY <1>2, <1>3
  <2> HIDE DEF e
  <2>2. Counted(now, map, k, UsesOf(k) \cup {e})
    BY <1>1, <2>1, EveryKey, UseCounted
  <2>3. \A u \in UsesOf(k) \cup {e} : u[2].at \in 0..now
    BY <1>1, <2>1, EveryKey
  <2> QED BY <2>2, <2>3 DEF e
<1>8. \A j : j # k => Counted(now, map, j, UsesOf(j))
  BY <1>1, EveryKey, OthersCounted
<1>9. Counted(now, counters', k, Ux)
  <2> HIDE DEF Ux
  <2> QED BY <1>1, <1>5, <1>7, OthersCounted
<1>10. Counted(now, counters', l, Uy)
  <2> DEFINE e == <<r, y>>
  <2>1. e \notin UsesOf(l) /\ e[2].at = now /\ e[2].allowed = Allowed(map, l)
    BY <1>2, <1>3
  <2> HIDE DEF e
  <2>2. Counted(now, counters', l, UsesOf(l) \cup {e})
    BY <1>1, <1>5, <1>8, <2>1, EveryKey, UseCounted
  <2> QED BY <2>2 DEF e
<1>11. ASSUME NEW j \in UsedKeys \ {k, l}
       PROVE  Counted(now, counters', j, UsesOf(j))
  BY <1>1, <1>5, <1>8, EveryKey, OthersCounted
<1> DEFINE new == {x, y}
<1>12. /\ new # {} /\ (\A u, v \in new : u.key = v.key => u = v)
       /\ \A u \in new : UseSound(u)
       /\ {u.key : u \in new} = {k, l} /\ req'[r].uses = new
       /\ \A u \in new : Counted(now, counters', u.key, UsesOf(u.key) \cup {<<r, u>>})
  BY <1>2, <1>4, <1>9, <1>10
<1> HIDE DEF new
<1> QED BY <1>6, <1>11, <1>12, UsesCounted

-----------------------------------------------------------------------------
\* What the steps of a request leave in its history.
Leaves(r, uses) == \E p : req' = [req EXCEPT ![r] = p] /\ p.uses = uses

LEMMA LeavesThose ==
  ASSUME NEW r, NEW p, Becomes(r, p), NEW uses, p.uses = uses
  PROVE  Leaves(r, uses)
  BY DEF Becomes, Leaves

LEMMA UsesAfter ==
  ASSUME NEW q, Shaped(q)
  PROVE  /\ \A k, allowed :
              /\ Shaped(Used(q, k, allowed))
              /\ Used(q, k, allowed).uses =
                   q.uses \cup {[key |-> k, at |-> now, allowed |-> allowed]}
         /\ \A code : Answered(q, code).uses = q.uses
         /\ Failed(q).uses = q.uses
         /\ \A record, code : \A written \in BOOLEAN :
              Denied(q, record, code, written).uses = q.uses
<1>1. ASSUME NEW k, NEW allowed
      PROVE  Used(q, k, allowed).uses =
               q.uses \cup {[key |-> k, at |-> now, allowed |-> allowed]}
  BY DEF Shaped, Used
<1>2. Failed(q).uses = q.uses
  BY AnsweredFields DEF Failed
<1>3. ASSUME NEW record, NEW code, NEW written \in BOOLEAN
      PROVE  Denied(q, record, code, written).uses = q.uses
  <2>1. Answered(Recorded(q, record), code).uses = q.uses
    BY RecordedFields, AnsweredFields
  <2> QED BY <1>2, <2>1 DEF Denied
<1> QED BY <1>1, <1>2, <1>3, UsedFields, AnsweredFields

LEMMA GovernLeaves ==
  ASSUME NEW r, NEW q, Shaped(q), Govern(r, q)
  PROVE  Leaves(r, q.uses)
<1> DEFINE c == Changed(q)
           d == Recorded(c, "stateChanged")
           w == [d EXCEPT !.stage = "syncing"]
<1>1. PICK written \in Written : Becomes(r, IF written THEN w ELSE Failed(c))
  BY DEF Govern
<1>2. Shaped(c) /\ c.uses = q.uses
  BY ChangedFields
<1> HIDE DEF c
<1>3. Shaped(d) /\ d.uses = q.uses
  BY <1>2, RecordedFields
<1> HIDE DEF d
<1>4. w.uses = q.uses
  BY <1>3, WaitingFields
<1>5. Failed(c).uses = q.uses
  BY <1>2, UsesAfter
<1> HIDE DEF w
<1> QED BY <1>1, <1>4, <1>5 DEF Becomes, Leaves

LEMMA CaughtLeaves ==
  ASSUME NEW r, NEW q, Shaped(q), Caught(r, q)
  PROVE  Leaves(r, q.uses)
<1> DEFINE d == Recorded(q, "runFailed")
<1>1. PICK written \in Written : req' = [req EXCEPT ![r] = Failed(IF written THEN d ELSE q)]
  BY DEF Caught, Becomes
<1>2. Shaped(d) /\ d.uses = q.uses
  BY RecordedFields
<1> HIDE DEF d
<1>3. Failed(d).uses = q.uses /\ Failed(q).uses = q.uses
  BY <1>2, UsesAfter
<1> QED BY <1>1, <1>3 DEF Leaves

\* A handler that is authorised adds nothing to what the authorisation took.
LEMMA HandlerLeaves ==
  ASSUME NEW r, NEW q, Shaped(q),
         Scoped(r, q) \/ Unscoped(r, q)
  PROVE  Leaves(r, q.uses)
<1>1. ASSUME NEW code, Becomes(r, Answered(q, code))
      PROVE  Leaves(r, q.uses)
  BY <1>1, UsesAfter, LeavesThose
<1>2. ASSUME NEW stage, Becomes(r, [q EXCEPT !.stage = stage])
      PROVE  Leaves(r, q.uses)
  <2>1. [q EXCEPT !.stage = stage].uses = q.uses
    BY WaitingFields
  <2> QED BY <1>2, <2>1, LeavesThose
<1>3. ASSUME Becomes(r, Answered(Changed(q), 200))
      PROVE  Leaves(r, q.uses)
  <2>1. Shaped(Changed(q)) /\ Changed(q).uses = q.uses
    BY ChangedFields
  <2>2. Answered(Changed(q), 200).uses = q.uses
    BY <2>1, AnsweredFields
  <2> QED BY <1>3, <2>2, LeavesThose
<1>4. ASSUME Becomes(r, Answered(Served(q), 200))
      PROVE  Leaves(r, q.uses)
  <2>1. Shaped(Served(q)) /\ Served(q).uses = q.uses
    BY ServedFields
  <2>2. Answered(Served(q), 200).uses = q.uses
    BY <2>1, AnsweredFields
  <2> QED BY <1>4, <2>2, LeavesThose
<1>5. Done(r, q) \/ Refused(r, q) \/ ReadDrafts(r, q) \/ Becomes(r, Failed(q))
        => Leaves(r, q.uses)
  BY <1>1 DEF Done, Refused, ReadDrafts, Failed
<1>6. Synchronise(r, q) \/ Propose(r, q) => Leaves(r, q.uses)
  BY <1>2, <1>5 DEF Synchronise, Propose
<1>7. Done(r, Changed(q)) \/ Done(r, Served(q)) => Leaves(r, q.uses)
  BY <1>3, <1>4 DEF Done
<1> QED BY <1>5, <1>6, <1>7, GovernLeaves, CaughtLeaves
        DEF Scoped, Unscoped, Read, Write, Change

\* The request r moves on, and no other.
LEMMA LeftUses ==
  ASSUME RequestsSound, NEW r \in Requests, NEW uses, Leaves(r, uses)
  PROVE  req'[r].uses = uses /\ \A s \in Requests \ {r} : req'[s].uses = req[s].uses
<1>1. PICK p : req' = [req EXCEPT ![r] = p] /\ p.uses = uses
  BY DEF Leaves
<1>2. req'[r] = p /\ \A s \in Requests \ {r} : req'[s] = req[s]
  BY <1>1 DEF RequestsSound
<1> QED BY <1>1, <1>2

LEMMA LeavesAll ==
  ASSUME RequestsSound, LimitInv, NEW r \in Requests, Leaves(r, req[r].uses),
         UNCHANGED rateVars
  PROVE  LimitInv'
<1>1. \A s \in Requests : req'[s].uses = req[s].uses
  BY LeftUses
<1> QED BY <1>1, NothingTaken DEF rateVars

LEMMA LoginTakes ==
  ASSUME RequestsSound, LimitInv, NEW r \in Requests, NEW address, NEW key,
         Login(r, address, key)
  PROVE  LimitInv'
<1> DEFINE q         == req[r]
           attempt   == <<"login", address>>
           failure   == <<"loginFailure", address>>
           tried     == Allowed(counters, attempt)
           counted   == Consumed(counters, attempt)
           failing   == tried /\ key # "noText" /\ ~Authentic(q.credential)
           tolerated == Allowed(counted, failure)
           u1        == [key |-> attempt, at |-> now, allowed |-> tried]
           u2        == [key |-> failure, at |-> now, allowed |-> tolerated]
           q1        == Used(q, attempt, tried)
           q2        == Used(q1, failure, tolerated)
           code      == IF tolerated THEN 401 ELSE 429
<1>1. PICK written \in Written :
        req' = [req EXCEPT ![r] =
          IF ~tried THEN Denied(q1, "loginFailed", 429, written)
          ELSE IF failing THEN Denied(q2, "loginFailed", code, written)
          ELSE IF key = "padded" THEN Denied(q1, "loginFailed", 401, written)
          ELSE Answered(q1, IF key = "noText" THEN 400 ELSE 200)]
  BY DEF Login
<1> written \in BOOLEAN
  BY DEF Written
<1>2. /\ counters' = IF failing THEN Consumed(counted, failure) ELSE counted
      /\ At(r, "reading") /\ now' = now
  BY DEF Login
<1>3. Shaped(q) /\ q.uses = {}
  BY <1>2, Fresh DEF Lawful
<1>4. attempt[1] \in Domains /\ failure[1] \in Domains /\ attempt # failure
  BY GatewayAssumption DEF Domains
<1> HIDE DEF q, attempt, failure, counted
<1>5. Shaped(q1) /\ q1.uses = {u1}
  BY <1>3, UsesAfter
<1> HIDE DEF q1
<1>6. Shaped(q2) /\ q2.uses = {u1, u2}
  BY <1>5, UsesAfter
<1> HIDE DEF q2, code
<1>7. CASE failing
  <2>1. req' = [req EXCEPT ![r] = Denied(q2, "loginFailed", code, written)]
    BY <1>1, <1>7
  <2>2. Leaves(r, {u1, u2})
    <3>1. Denied(q2, "loginFailed", code, written).uses = {u1, u2}
      BY <1>6, UsesAfter
    <3> HIDE DEF u1, u2
    <3> QED BY <2>1, <3>1, LeavesThose DEF Becomes
  <2>3. counters' = Consumed(counted, failure)
    BY <1>2, <1>7
  <2> HIDE DEF tried, tolerated
  <2>4. req'[r].uses = {u1, u2} /\ \A s \in Requests \ {r} : req'[s].uses = req[s].uses
    BY <2>2, LeftUses
  <2>5. counted = Consumed(counters, attempt) /\ req[r].uses = {}
    BY <1>3 DEF counted, q
  <2> QED BY <1>2, <1>4, <2>3, <2>4, <2>5, TwoTaken DEF tried, tolerated
<1>8. CASE ~failing
  <2>1. \/ req' = [req EXCEPT ![r] = Denied(q1, "loginFailed", 429, written)]
        \/ req' = [req EXCEPT ![r] = Denied(q1, "loginFailed", 401, written)]
        \/ req' = [req EXCEPT ![r] = Answered(q1, 400)]
        \/ req' = [req EXCEPT ![r] = Answered(q1, 200)]
    BY <1>1, <1>8
  <2>2. Leaves(r, {u1})
    BY <1>5, <2>1, UsesAfter DEF Leaves
  <2>3. counters' = counted
    BY <1>2, <1>8
  <2> HIDE DEF tried
  <2>4. req'[r].uses = {u1} /\ \A s \in Requests \ {r} : req'[s].uses = req[s].uses
    BY <2>2, LeftUses
  <2>5. counted = Consumed(counters, attempt) /\ req[r].uses = {}
    BY <1>3 DEF counted, q
  <2> QED BY <1>2, <1>4, <2>3, <2>4, <2>5, OneTaken DEF tried
<1> QED BY <1>7, <1>8

LEMMA HandleTakes ==
  ASSUME RequestsSound, LimitInv, NEW r \in Requests, NEW s, Handle(r, s)
  PROVE  LimitInv'
<1> DEFINE q0      == [req[r] EXCEPT !.scope = s]
           k       == QuotaOf(q0.credential, q0.route)
           outcome == Authorize(q0)
           q       == outcome.after
<1>1. /\ At(r, "reading") /\ counters' = outcome.left /\ now' = now
      /\ \/ /\ outcome.verdict = "denied"
            /\ \E written \in Written : Becomes(r, Denied(q, "denied", 403, written))
         \/ outcome.verdict = "limited" /\ Becomes(r, Answered(q, 429))
         \/ Scoped(r, q) \/ Unscoped(r, q)
  BY DEF Handle
<1>2. Shaped(req[r]) /\ req[r].uses = {}
  BY <1>1, Fresh DEF Lawful
<1>3. Shaped(q0) /\ q0.uses = {}
  BY <1>2 DEF Shaped
<1>4. k[1] \in Domains
  BY GatewayAssumption DEF QuotaOf, Domains
<1> HIDE DEF q0, k
<1>5. \/ q = q0 /\ outcome.left = counters
      \/ /\ q = Used(q0, k, Allowed(counters, k))
         /\ outcome.left = Consumed(counters, k)
  BY DEF Authorize, Quota, k
<1>6. Shaped(q)
  BY <1>3, <1>5, UsedFields
<1>7. Leaves(r, q.uses)
  <2> HIDE DEF outcome, q
  <2>1. ASSUME NEW written \in Written, Becomes(r, Denied(q, "denied", 403, written))
        PROVE  Leaves(r, q.uses)
    <3> written \in BOOLEAN
      BY DEF Written
    <3>1. Denied(q, "denied", 403, written).uses = q.uses
      BY <1>6, UsesAfter
    <3> QED BY <2>1, <3>1 DEF Becomes, Leaves
  <2>2. ASSUME Becomes(r, Answered(q, 429))
        PROVE  Leaves(r, q.uses)
    BY <1>6, <2>2, UsesAfter, LeavesThose
  <2> QED BY <1>1, <1>6, <2>1, <2>2, HandlerLeaves
<1>8. CASE q = q0 /\ outcome.left = counters
  <2>1. Leaves(r, req[r].uses) /\ UNCHANGED rateVars
    BY <1>1, <1>2, <1>3, <1>7, <1>8 DEF rateVars
  <2> QED BY <2>1, LeavesAll
<1>9. CASE /\ q = Used(q0, k, Allowed(counters, k))
           /\ outcome.left = Consumed(counters, k)
  <2>1. q.uses = {[key |-> k, at |-> now, allowed |-> Allowed(counters, k)]}
    BY <1>3, <1>9, UsesAfter
  <2> HIDE DEF q
  <2>2. /\ req'[r].uses = q.uses
        /\ \A t \in Requests \ {r} : req'[t].uses = req[t].uses
    BY <1>7, LeftUses
  <2> QED BY <1>1, <1>2, <1>4, <1>9, <2>1, <2>2, OneTaken
<1> QED BY <1>5, <1>8, <1>9

\* The other steps take nothing.
LEMMA OthersLeave ==
  ASSUME RequestsSound, NEW r \in Requests
  PROVE  /\ \A route, credential : Arrive(r, route, credential) => Leaves(r, req[r].uses)
         /\ Unreadable(r) \/ FinishProposal(r) \/ FinishSync(r) => Leaves(r, req[r].uses)
<1>1. Shaped(req[r]) /\ (At(r, "none") => req[r] = NoRequest)
  BY DEF RequestsSound, RequestSound, StageSound, At
<1>2. ASSUME NEW route, NEW credential, Arrive(r, route, credential)
      PROVE  Leaves(r, req[r].uses)
  <2> DEFINE q == [NoRequest EXCEPT !.route = route, !.credential = credential]
             w == [q EXCEPT !.stage = "reading"]
  <2>1. Shaped(q) /\ q.uses = {} /\ w.uses = {}
    BY DEF NoRequest, Shaped
  <2>2. req[r].uses = {}
    BY <1>1, <1>2 DEF Arrive, NoRequest
  <2>3. \/ req' = [req EXCEPT ![r] = w]
        \/ \E written \in BOOLEAN : req' = [req EXCEPT ![r] = Denied(q, "denied", 401, written)]
    BY <1>2 DEF Arrive, Written
  <2> HIDE DEF q, w
  <2> QED BY <2>1, <2>2, <2>3, UsesAfter DEF Leaves
<1>3. ASSUME Unreadable(r)
      PROVE  Leaves(r, req[r].uses)
  BY <1>1, <1>3, UsesAfter DEF Unreadable, Leaves
<1>4. ASSUME FinishProposal(r)
      PROVE  Leaves(r, req[r].uses)
  <2>1. PICK drafts \in BOOLEAN :
          LET q    == [req[r] EXCEPT !.changed = drafts]
              done == Recorded(q, "runOk")
          IN Caught(r, q) \/ Done(r, done) \/ (drafts /\ AutoVerify(r, done))
    BY <1>4 DEF FinishProposal
  <2> DEFINE q    == [req[r] EXCEPT !.changed = drafts]
             done == Recorded(q, "runOk")
             kept == Recorded(done, "stateChanged")
             w    == [kept EXCEPT !.stage = "syncing"]
  <2>2. \/ Caught(r, q) \/ Caught(r, done) \/ Becomes(r, Answered(done, 200))
        \/ Becomes(r, w)
    BY <2>1 DEF AutoVerify, Done
  <2>3. Shaped(q) /\ q.uses = req[r].uses
    BY <1>1 DEF Shaped
  <2> HIDE DEF q
  <2>4. Shaped(done) /\ done.uses = req[r].uses
    BY <2>3, RecordedFields
  <2> HIDE DEF done
  <2>5. Shaped(kept) /\ kept.uses = req[r].uses
    BY <2>4, RecordedFields
  <2> HIDE DEF kept
  <2>6. w.uses = req[r].uses /\ Answered(done, 200).uses = req[r].uses
    BY <2>4, <2>5, WaitingFields, AnsweredFields
  <2> HIDE DEF w
  <2> QED BY <2>2, <2>3, <2>4, <2>6, CaughtLeaves DEF Becomes, Leaves
<1>5. ASSUME FinishSync(r)
      PROVE  Leaves(r, req[r].uses)
  <2>1. \/ req' = [req EXCEPT ![r] = Answered(req[r], 200)]
        \/ Caught(r, req[r])
        \/ req' = [req EXCEPT ![r] = Failed(req[r])]
    BY <1>5 DEF FinishSync, Done, Becomes
  <2> QED BY <1>1, <2>1, UsesAfter, CaughtLeaves DEF Leaves
<1> QED BY <1>2, <1>3, <1>4, <1>5

LEMMA LimitInit == GatewayInit => LimitInv
<1> SUFFICES ASSUME GatewayInit PROVE LimitInv
  OBVIOUS
<1>1. \A r \in Requests : req[r].uses = {}
  BY DEF GatewayInit, NoRequest
<1>2. UsedKeys = {}
  BY <1>1 DEF UsedKeys
<1>3. now = 0 /\ DOMAIN counters = {}
  BY DEF GatewayInit, RateInit
<1> QED BY <1>1, <1>2, <1>3 DEF LimitInv, Shapely

LEMMA LimitStep == GateInv /\ LimitInv /\ [GateNext]_gateVars => LimitInv'
<1> SUFFICES ASSUME GateInv, LimitInv, [GateNext]_gateVars
             PROVE  LimitInv'
  OBVIOUS
<1>1. RequestsSound
  BY DEF GateInv
<1>2. CASE Tick
  BY <1>2, NothingTaken DEF Tick
<1>3. CASE UNCHANGED gateVars
  BY <1>3, NothingTaken DEF gateVars, rateVars
<1>4. ASSUME NEW r \in Requests, Stream(r)
      PROVE  LimitInv'
  BY <1>4, NothingTaken DEF Stream, rateVars
<1>5. ASSUME NEW r \in Requests, NEW route \in Routes, NEW c \in Credentials,
             Arrive(r, route, c)
      PROVE  LimitInv'
  <2>1. UNCHANGED rateVars
    BY <1>5 DEF Arrive
  <2>2. Leaves(r, req[r].uses)
    BY <1>1, <1>5, OthersLeave
  <2> QED BY <1>1, <2>1, <2>2, LeavesAll
<1>6. ASSUME NEW r \in Requests, Unreadable(r) \/ FinishProposal(r) \/ FinishSync(r)
      PROVE  LimitInv'
  <2>1. UNCHANGED rateVars
    BY <1>6 DEF Unreadable, FinishProposal, FinishSync
  <2> QED BY <1>1, <1>6, <2>1, OthersLeave, LeavesAll
<1> QED BY <1>1, <1>2, <1>3, <1>4, <1>5, <1>6, LoginTakes, HandleTakes DEF GateNext, Respond

\* The summary the limiter keeps is right at all times.
THEOREM LimiterSound == GateSpec => []LimitInv
  BY LimitInit, LimitStep, GateInvariant, PTL DEF GateSpec

\* However requests, the clock and other keys come in between, every window of
\* every key grants as many uses as its limit allows, and no more
\* (RateLimiter.consume).
THEOREM QuotasExact == GateSpec => []QuotaExact
<1>1. LimitInv => QuotaExact
  BY DEF LimitInv, Counted, QuotaExact
<1> QED BY <1>1, LimiterSound, PTL

=============================================================================
