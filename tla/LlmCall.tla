------------------------------ MODULE LlmCall ------------------------------
(***************************************************************************)
(* One structured model call as withLlmResilience makes it: attempts with  *)
(* a timeout each, a pause before a retry, and a caller that may cancel.   *)
(*                                                                         *)
(* The timer and the caller abort the same internal signal.  The inner     *)
(* provider learns of neither but through that signal, and it may answer   *)
(* or fail in its own way after the signal was aborted: which of the three *)
(* the caller is told is decided when the inner call ends.                 *)
(***************************************************************************)
EXTENDS Naturals

CONSTANTS
  Calls,
  MaxRetries,    \* LlmResilienceOptions.maxRetries
  Cancellable    \* calls whose request carries a signal

ASSUME LlmAssumption ==
  /\ MaxRetries \in Nat
  /\ Cancellable \subseteq Calls

VARIABLES
  call,       \* where the loop of structured() stands
  canceled    \* calls whose signal the caller aborted

llmVars == <<call, canceled>>

\* LLM_ERROR_PROFILES by what the loop tells apart: "transient" stands for
\* rate_limited, network and server_error, which are retryable like timeout,
\* "permanent" for invalid_response, auth, config and unknown, which are not.
Retryable  == {"timeout", "transient"}
ErrorKinds == Retryable \cup {"canceled", "permanent"}

LlmTypeOK ==
  /\ call \in [Calls -> [stage   : {"none", "calling", "pausing", "answered", "failed"},
                         attempt : 0..(1 + MaxRetries),
                         expired : BOOLEAN,
                         error   : ErrorKinds \cup {"none"}]]
  /\ canceled \subseteq Cancellable

LlmInit ==
  /\ call = [c \in Calls |->
       [stage |-> "none", attempt |-> 0, expired |-> FALSE, error |-> "none"]]
  /\ canceled = {}

At(c, stage) == call[c].stage = stage

\* The loop body begins: throwIfCanceledBeforeStart, then the inner call.
Attempt(c, number) ==
  call' = [call EXCEPT ![c] =
    IF c \in canceled
      THEN [stage |-> "failed", attempt |-> number, expired |-> FALSE, error |-> "canceled"]
      ELSE [stage |-> "calling", attempt |-> number, expired |-> FALSE, error |-> "none"]]

Begin(c) ==
  /\ At(c, "none")
  /\ Attempt(c, 1)
  /\ UNCHANGED canceled

\* AbortController.abort by the caller, at any moment.
Cancel(c) ==
  /\ c \in Cancellable \ canceled
  /\ canceled' = canceled \cup {c}
  /\ UNCHANGED call

\* The timer of this attempt aborts the internal signal.  It is cleared only
\* after the pause, but once the inner call ended nothing looks at it.
Expire(c) ==
  /\ At(c, "calling") /\ ~call[c].expired
  /\ call' = [call EXCEPT ![c].expired = TRUE]
  /\ UNCHANGED canceled

\* The inner call resolves.  Neither an expired timer nor a cancellation
\* takes a result away that arrived.
Answer(c) ==
  /\ At(c, "calling")
  /\ call' = [call EXCEPT ![c].stage = "answered", ![c].expired = FALSE]
  /\ UNCHANGED canceled

Aborted(c) == call[c].expired \/ c \in canceled

\* Mutant of Attribution: an abort is reported as it came.
AttributionAsThrown(c, kind) == IF c \in canceled THEN "canceled" ELSE kind

\* Which error the caller sees.
Attribution(c, kind) ==
  IF c \in canceled THEN "canceled"
  ELSE IF kind = "canceled" THEN "timeout"
  ELSE kind

MayRetry(c, error) == error \in Retryable /\ call[c].attempt <= MaxRetries

\* The inner call rejects; the loop pauses or gives up.
Fail(c, kind) ==
  LET error == Attribution(c, kind) IN
  /\ At(c, "calling")
  /\ kind = "canceled" => Aborted(c)
  /\ call' = [call EXCEPT
       ![c].error = error, ![c].expired = FALSE,
       ![c].stage = IF MayRetry(c, error) THEN "pausing" ELSE "failed"]
  /\ UNCHANGED canceled

\* Mutant of Resume: the attempts are not counted.
ResumeSame(c) ==
  /\ At(c, "pausing")
  /\ Attempt(c, call[c].attempt)
  /\ UNCHANGED canceled

\* The pause is over and the loop goes round, or the abort of the caller
\* ends it with "canceled" (realLlmSleep); both look at the same signal.
Resume(c) ==
  /\ At(c, "pausing")
  /\ \/ /\ c \in canceled
        /\ call' = [call EXCEPT ![c].stage = "failed", ![c].error = "canceled"]
     \/ Attempt(c, call[c].attempt + 1)
  /\ UNCHANGED canceled

\* The request, the status, the body or the schema of the answer: whatever is
\* wrong with it is one of the kinds, and reading it any further is given up.
Reject(c) == \E kind \in ErrorKinds : Fail(c, kind)

\* Every step of a call but its beginning and its answer.
Progress(c) ==
  \/ Cancel(c)
  \/ Expire(c)
  \/ Reject(c)
  \/ Resume(c)

\* An aborted fetch rejects.
FailAborted(c) == Aborted(c) /\ Reject(c)

-----------------------------------------------------------------------------
\* Only a caller that canceled is told "canceled": a timeout is reported as
\* one, although both abort the same signal (attribution in structured()).
CanceledIsTruthful ==
  \A c \in Calls : call[c].error = "canceled" => c \in canceled

\* A call that is given up with an error worth a retry has made all its
\* attempts; it was neither dropped early nor after a cancellation.
RetriesExhausted ==
  \A c \in Calls :
    (At(c, "failed") /\ call[c].error \in Retryable) => call[c].attempt = 1 + MaxRetries

\* Both together: what a call reports of its failure is true.
CallFailuresTrue == CanceledIsTruthful /\ RetriesExhausted

=============================================================================
