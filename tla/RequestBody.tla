----------------------------- MODULE RequestBody -----------------------------
(***************************************************************************)
(* readRequestBody: the body of a request is collected up to a limit; past *)
(* it the rest is drained, so that the client gets to the end of what it   *)
(* writes and reads the answer, and past a second limit the connection is  *)
(* cut.                                                                    *)
(*                                                                         *)
(* The stream calls back with data, end, error and close.  It may report   *)
(* an error or close without an end at any moment; a promise settles once. *)
(* Sizes are counted in chunks of one unit.                                *)
(***************************************************************************)
EXTENDS Naturals

CONSTANTS
  Readers,
  MaxBytes,      \* the limit of the caller
  DrainLimit     \* DRAIN_LIMIT_BYTES

ASSUME BodyAssumption == MaxBytes \in Nat /\ DrainLimit \in Nat \ {0}

VARIABLES
  body    \* one reader for each request

Outcomes == {"none", "ok", "tooLarge", "error", "interrupted"}

Reader == [stream   : {"idle", "open", "ended", "destroyed", "closed"},
           received : 0..(MaxBytes + DrainLimit + 1),
           buffered : 0..MaxBytes,     \* bytes in chunks
           over     : BOOLEAN,         \* overLimit
           settled  : Outcomes]

BodyTypeOK == body \in [Readers -> Reader]

Unread == [stream |-> "idle", received |-> 0, buffered |-> 0, over |-> FALSE,
           settled |-> "none"]

BodyInit == body = [r \in Readers |-> Unread]

StartReading(r) == body' = [body EXCEPT ![r].stream = "open"]

\* The promise is settled and its result taken: nothing that the stream still
\* reports matters.
Forget(r) == body' = [body EXCEPT ![r] = Unread]

OnData(r) ==
  LET b == body[r]
      n == b.received + 1
  IN
  /\ b.stream = "open"
  /\ body' = [body EXCEPT ![r] =
       IF b.over
         THEN [b EXCEPT !.received = n,
                        !.stream = IF n > MaxBytes + DrainLimit THEN "destroyed" ELSE "open"]
       ELSE IF n > MaxBytes
         THEN [b EXCEPT !.received = n, !.buffered = 0, !.over = TRUE]
       ELSE [b EXCEPT !.received = n, !.buffered = b.buffered + 1]]

\* settle: the first outcome stays.
Settle(b, outcome) ==
  [b EXCEPT !.settled = IF b.settled = "none" THEN outcome ELSE b.settled]

\* The stream of r comes to an end of some kind.
Stopped(r, end, outcome) ==
  body' = [body EXCEPT ![r] = Settle([body[r] EXCEPT !.stream = end], outcome)]

OnEnd(r) ==
  /\ body[r].stream = "open"
  /\ Stopped(r, "ended", IF body[r].over THEN "tooLarge" ELSE "ok")

\* The connection breaks: error, and close after it.
OnError(r) ==
  /\ body[r].stream = "open"
  /\ Stopped(r, "destroyed", "error")

\* Mutant of OnClose: only end and error settle.
OnCloseIgnored(r) ==
  /\ body[r].stream \in {"open", "destroyed"}
  /\ body' = [body EXCEPT ![r].stream = "closed"]

\* The stream closes: after an error, cut off by the reader, or by a client
\* that goes away.  (The close that follows an end finds the promise settled.)
OnClose(r) ==
  /\ body[r].stream \in {"open", "destroyed"}
  /\ Stopped(r, "closed", IF body[r].over THEN "tooLarge" ELSE "interrupted")

BodyStep(r) == OnData(r) \/ OnEnd(r) \/ OnError(r) \/ OnClose(r)

-----------------------------------------------------------------------------
\* A body is accepted only whole and within the limit, and refused as too
\* large only if it is; what is kept in memory never exceeds the limit, and
\* nothing is kept of a body that did.  However the stream comes to its end,
\* the promise is settled by then: no handler waits for ever.
BodiesSound ==
  \A r \in Readers :
    LET b == body[r] IN
    /\ b.settled = "ok" => b.received <= MaxBytes /\ b.buffered = b.received
    /\ b.settled = "tooLarge" => b.received > MaxBytes
    /\ b.received > MaxBytes => b.buffered = 0 /\ b.settled # "interrupted"
    /\ b.stream \in {"ended", "closed"} => b.settled # "none"

=============================================================================
