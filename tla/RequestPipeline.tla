-------------------------- MODULE RequestPipeline --------------------------
(***************************************************************************)
(* One API call through the SDK's HTTP layer: the fetch wrapper that       *)
(* bounds an attempt with a deadline and the caller's signal, and the loop *)
(* around it that replays a failed attempt.  The TypeScript, Rust and      *)
(* Python SDKs have the same loop and differ in four places, which Clients *)
(* describe: the failures they replay, whether the body of a response is   *)
(* read inside the loop, whether the deadline and the signal still cover   *)
(* that read, and whether the timeout bounds the attempt or only each wait *)
(* for the next bytes.                                                     *)
(*                                                                         *)
(* A request that an attempt gave up on stays in the network: the server   *)
(* may still perform it, before or after a later attempt of the same call. *)
(***************************************************************************)
EXTENDS Naturals

CONSTANTS
  Runs,                         \* logical calls in progress
  MaxRetries,                   \* RequestDefaults.maxRetries / Limits::max_retries
  Clients                       \* the SDKs the calls are made through, as below

ASSUME MaxRetriesAssumption == MaxRetries \in Nat

VARIABLES
  pc,                           \* where the call's coroutine is suspended
  sdk,                          \* the SDK the call is made through
  idempotent,                   \* CallSpec.idempotent
  timed,                        \* the resolved timeout is finite and positive
  aborted,                      \* the caller's signal has fired
  attempt,                      \* the loop counter
  verdict,                      \* status of the response whose body is read
  arriving,                     \* the answer comes in pieces, each within the timeout
  failure,                      \* the error the call was rejected with
  requests,                     \* the attempts sent and not yet served
  responses,                    \* the answer to each attempt, on its way back
  applied                       \* the attempts the platform performed

vars == <<pc, sdk, idempotent, timed, aborted, attempt, verdict, arriving,
          failure, requests, responses, applied>>

(***************************************************************************)
(* Failures.  errorFromResponse reduces a response to the error's class    *)
(* and its retryable flag: "transient" is any response stated or presumed  *)
(* retryable (429 and 5xx by default, the body's own flag wins), "denied"  *)
(* the 401, "refused" every other.  The rest never reach the mapper:       *)
(* "timeout" is the SDK's deadline, "connect" and "reset" transport        *)
(* errors, "garbled" a body that does not decode, "aborted" the signal.    *)
(***************************************************************************)
errorFromResponse == {"transient", "denied", "refused"}

Failures == errorFromResponse \cup
            {"timeout", "connect", "reset", "garbled", "aborted"}

Verdicts == {"ok"} \cup errorFromResponse

\* fetch reports every network failure as a TypeError, which is replayed; the
\* body is read by openapi-fetch inside the attempt, after the wrapper has
\* cleared its timer and detached from the caller's signal.
TypeScript ==
  [retryable |-> {"transient", "timeout", "connect", "reset"},
   bodyRetried |-> TRUE, bodyGuarded |-> FALSE, perRead |-> FALSE]

\* The byte-stream requests of SandboxFiles hand the response out of the
\* loop: the body of a success is read after it, with nothing to bound it.
TypeScriptBytes ==
  [retryable |-> {"transient", "timeout", "connect", "reset"},
   bodyRetried |-> FALSE, bodyGuarded |-> FALSE, perRead |-> FALSE]

\* Only connect and timeout failures are replayed, and the body of a success
\* is read after the loop; reqwest's timeout is one deadline that covers it.
Rust ==
  [retryable |-> {"transient", "timeout", "connect"},
   bodyRetried |-> FALSE, bodyGuarded |-> TRUE, perRead |-> FALSE]

\* httpx reads the body inside the attempt; its timeout starts anew with every
\* operation on the connection, so it bounds the silence between two reads.
Python ==
  [retryable |-> {"transient", "timeout", "connect", "reset"},
   bodyRetried |-> TRUE, bodyGuarded |-> TRUE, perRead |-> TRUE]

Profiles == {TypeScript, TypeScriptBytes, Rust, Python}

ASSUME ClientsAssumption == Clients \subseteq Profiles

\* Attempts of a call are counted from 0.
Attempts == 0..MaxRetries

Settled == {"resolved", "rejected"}

TypeOK ==
  /\ pc \in [Runs -> {"idle", "waiting", "body", "sleeping"} \cup Settled]
  /\ sdk \in [Runs -> Profiles]
  /\ idempotent \in [Runs -> BOOLEAN]
  /\ timed \in [Runs -> BOOLEAN]
  /\ aborted \in [Runs -> BOOLEAN]
  /\ attempt \in [Runs -> Attempts]
  /\ verdict \in [Runs -> Verdicts \cup {"none"}]
  /\ arriving \in [Runs -> BOOLEAN]
  /\ failure \in [Runs -> Failures \cup {"none"}]
  /\ requests \in [Runs -> SUBSET Attempts]
  /\ responses \in [Runs -> [Attempts -> Verdicts \cup {"none"}]]
  /\ applied \in [Runs -> SUBSET Attempts]

Init ==
  /\ pc = [r \in Runs |-> "idle"]
  /\ sdk \in [Runs -> Clients]
  /\ idempotent = [r \in Runs |-> FALSE]
  /\ timed = [r \in Runs |-> FALSE]
  /\ aborted = [r \in Runs |-> FALSE]
  /\ attempt = [r \in Runs |-> 0]
  /\ verdict = [r \in Runs |-> "none"]
  /\ arriving = [r \in Runs |-> FALSE]
  /\ failure = [r \in Runs |-> "none"]
  /\ requests = [r \in Runs |-> {}]
  /\ responses = [r \in Runs |-> [n \in Attempts |-> "none"]]
  /\ applied = [r \in Runs |-> {}]

-----------------------------------------------------------------------------
(* The loop's decisions *)

\* Mutant of shouldRetry: the idempotency of the call is not looked at.
RetryRegardless(r, f) == f \in sdk[r].retryable

\* A call whose outcome the caller cannot deduplicate is never replayed.
shouldRetry(r, f) == idempotent[r] /\ f \in sdk[r].retryable

\* Mutant of Exhausted: one attempt too few.
ExhaustedEarly(r) == attempt[r] + 1 >= MaxRetries

Exhausted(r) == attempt[r] >= MaxRetries

\* The catch block of the loop: throw, or sleep before the next attempt.  A
\* sleep entered with an aborted signal rejects at once with its reason.
Caught(r, f) ==
  /\ IF Exhausted(r) \/ ~shouldRetry(r, f)
     THEN /\ pc' = [pc EXCEPT ![r] = "rejected"]
          /\ failure' = [failure EXCEPT ![r] = f]
     ELSE IF aborted[r]
     THEN /\ pc' = [pc EXCEPT ![r] = "rejected"]
          /\ failure' = [failure EXCEPT ![r] = "aborted"]
     ELSE /\ pc' = [pc EXCEPT ![r] = "sleeping"]
          /\ UNCHANGED failure
  /\ verdict' = [verdict EXCEPT ![r] = "none"]
  /\ UNCHANGED <<sdk, idempotent, timed, aborted, attempt, arriving, applied>>

Throw(r, f) ==
  /\ pc' = [pc EXCEPT ![r] = "rejected"]
  /\ failure' = [failure EXCEPT ![r] = f]
  /\ verdict' = [verdict EXCEPT ![r] = "none"]
  /\ UNCHANGED <<sdk, idempotent, timed, attempt, arriving, applied>>

-----------------------------------------------------------------------------
(* The caller *)

\* send: the first attempt.  fetch rejects a request whose signal has already
\* fired without sending it.
Start(r) ==
  /\ pc[r] = "idle"
  /\ \E i, t \in BOOLEAN :
       /\ idempotent' = [idempotent EXCEPT ![r] = i]
       /\ timed' = [timed EXCEPT ![r] = t]
  /\ IF aborted[r]
     THEN /\ pc' = [pc EXCEPT ![r] = "rejected"]
          /\ failure' = [failure EXCEPT ![r] = "aborted"]
          /\ UNCHANGED requests
     ELSE /\ pc' = [pc EXCEPT ![r] = "waiting"]
          /\ requests' = [requests EXCEPT ![r] = @ \cup {attempt[r]}]
          /\ UNCHANGED failure
  /\ UNCHANGED <<sdk, aborted, attempt, verdict, arriving, responses, applied>>

\* Mutant of AbortReaches: the backoff timer does not listen to the signal.
AbortMissesSleep(r) ==
  \/ pc[r] = "waiting"
  \/ pc[r] = "body" /\ (sdk[r].bodyGuarded \/ ~timed[r])

\* Whether an abort still reaches the suspended call: the timed path forwards
\* the signal only until the headers are in.
AbortReaches(r) ==
  \/ pc[r] \in {"waiting", "sleeping"}
  \/ pc[r] = "body" /\ (sdk[r].bodyGuarded \/ ~timed[r])

\* The caller aborts the signal (or cancels the task, or drops the future).
Abort(r) ==
  /\ ~aborted[r]
  /\ pc[r] \notin Settled
  /\ aborted' = [aborted EXCEPT ![r] = TRUE]
  /\ IF AbortReaches(r)
     THEN Throw(r, "aborted")
     ELSE UNCHANGED <<pc, failure, verdict, sdk, idempotent, timed, attempt, arriving, applied>>
  /\ UNCHANGED <<requests, responses>>

-----------------------------------------------------------------------------
(* Timers and transport *)

\* A client whose timeout bounds each read waits on while the answer to the
\* attempt, its headers or its body, keeps arriving.
Arriving(r) ==
  /\ sdk[r].perRead /\ arriving[r]
  /\ pc[r] = "body" \/ responses[r][attempt[r]] # "none"

\* Mutant of Deadline: only the first attempt of a call has a timer.
DeadlineOnFirstAttempt(r) ==
  /\ pc[r] = "waiting"
  /\ timed[r] /\ attempt[r] = 0 /\ ~Arriving(r)
  /\ Caught(r, "timeout")
  /\ UNCHANGED <<requests, responses>>

\* The deadline fires before the headers are in.
Deadline(r) ==
  /\ pc[r] = "waiting"
  /\ timed[r] /\ ~Arriving(r)
  /\ Caught(r, "timeout")
  /\ UNCHANGED <<requests, responses>>

\* The connection cannot be made: the request never left.
ConnectFails(r) ==
  /\ pc[r] = "waiting"
  /\ attempt[r] \in requests[r]
  /\ requests' = [requests EXCEPT ![r] = @ \ {attempt[r]}]
  /\ Caught(r, "connect")
  /\ UNCHANGED responses

\* The connection breaks while the call waits; the request may or may not
\* have reached the server, and may still.
Reset(r) ==
  /\ pc[r] = "waiting"
  /\ Caught(r, "reset")
  /\ UNCHANGED <<requests, responses>>

\* Mutant of Headers: any answer to the call is taken for the current one.
HeadersOfAnyAttempt(r) ==
  /\ pc[r] = "waiting"
  /\ \E n \in Attempts :
       /\ responses[r][n] # "none"
       /\ verdict' = [verdict EXCEPT ![r] = responses[r][n]]
       /\ responses' = [responses EXCEPT ![r][n] = "none"]
  /\ pc' = [pc EXCEPT ![r] = "body"]
  /\ UNCHANGED <<sdk, idempotent, timed, aborted, attempt, arriving, failure, requests, applied>>

\* Headers of the attempt in progress arrive; those of an abandoned attempt
\* have nobody waiting for them.
Headers(r) ==
  /\ pc[r] = "waiting"
  /\ responses[r][attempt[r]] # "none"
  /\ verdict' = [verdict EXCEPT ![r] = responses[r][attempt[r]]]
  /\ responses' = [responses EXCEPT ![r][attempt[r]] = "none"]
  /\ pc' = [pc EXCEPT ![r] = "body"]
  /\ UNCHANGED <<sdk, idempotent, timed, aborted, attempt, arriving, failure, requests, applied>>

\* The body is complete: unwrap returns the data or throws the mapped error.
Body(r) ==
  /\ pc[r] = "body"
  /\ IF verdict[r] = "ok"
     THEN /\ pc' = [pc EXCEPT ![r] = "resolved"]
          /\ verdict' = [verdict EXCEPT ![r] = "none"]
          /\ UNCHANGED <<failure, sdk, idempotent, timed, aborted, attempt, arriving, applied>>
     ELSE Caught(r, verdict[r])
  /\ UNCHANGED <<requests, responses>>

\* Reading the body fails.  Where a success is read outside the loop, an error
\* whose body cannot be read falls back on its status.
BodyFails(r, f) ==
  /\ pc[r] = "body"
  /\ IF sdk[r].bodyRetried THEN Caught(r, f)
     ELSE IF verdict[r] = "ok" THEN Throw(r, f) /\ UNCHANGED aborted
     ELSE Caught(r, verdict[r])
  /\ UNCHANGED <<requests, responses>>

BodyBreaks(r) == \E f \in {"reset", "garbled"} : BodyFails(r, f)

\* The deadline fires during the read, where it still covers it.
BodyDeadline(r) ==
  /\ timed[r] /\ sdk[r].bodyGuarded /\ ~Arriving(r)
  /\ BodyFails(r, "timeout")

\* The backoff elapses and the loop sends the next attempt.
Wake(r) ==
  /\ pc[r] = "sleeping"
  /\ pc' = [pc EXCEPT ![r] = "waiting"]
  /\ attempt' = [attempt EXCEPT ![r] = @ + 1]
  /\ requests' = [requests EXCEPT ![r] = @ \cup {attempt[r] + 1}]
  /\ UNCHANGED <<sdk, idempotent, timed, aborted, verdict, arriving, failure, responses, applied>>

-----------------------------------------------------------------------------
(* The platform and the network, as the SDK sees them *)

\* A 2xx means the operation was performed, a denied or refused one was not;
\* a transient failure leaves it open.
Serve(r, n) ==
  /\ n \in requests[r]
  /\ requests' = [requests EXCEPT ![r] = @ \ {n}]
  /\ \E v \in Verdicts :
       /\ responses' = [responses EXCEPT ![r][n] = v]
       /\ \/ v \in {"ok", "transient"} /\ applied' = [applied EXCEPT ![r] = @ \cup {n}]
          \/ v # "ok" /\ UNCHANGED applied
  /\ UNCHANGED <<pc, sdk, idempotent, timed, aborted, attempt, verdict, arriving, failure>>

Lose(r, n) ==
  /\ \/ /\ n \in requests[r]
        /\ requests' = [requests EXCEPT ![r] = @ \ {n}]
        /\ UNCHANGED responses
     \/ /\ responses[r][n] # "none"
        /\ responses' = [responses EXCEPT ![r][n] = "none"]
        /\ UNCHANGED requests
  /\ UNCHANGED <<pc, sdk, idempotent, timed, aborted, attempt, verdict, arriving, failure,
                 applied>>

\* The server, or the network, starts or stops sending the answer piecemeal.
\* It makes a difference only to a client that counts the time of each read.
Trickle(r) ==
  /\ sdk[r].perRead
  /\ pc[r] \in {"waiting", "body"}
  /\ arriving' = [arriving EXCEPT ![r] = ~@]
  /\ UNCHANGED <<pc, sdk, idempotent, timed, aborted, attempt, verdict, failure, requests,
                 responses, applied>>

-----------------------------------------------------------------------------

Call(r) ==
  \/ Start(r) \/ Abort(r)
  \/ Deadline(r) \/ ConnectFails(r) \/ Reset(r)
  \/ Headers(r) \/ Body(r) \/ BodyBreaks(r) \/ BodyDeadline(r)
  \/ Wake(r)

Environment(r) == Trickle(r) \/ \E n \in Attempts : Serve(r, n) \/ Lose(r, n)

Next == \E r \in Runs : Call(r) \/ Environment(r)

Spec == Init /\ [][Next]_vars

\* Only the SDK's own timers are certain to fire; nothing is assumed of the
\* network, the platform or the caller.
TimersFire ==
  \A r \in Runs : WF_vars(Deadline(r)) /\ WF_vars(BodyDeadline(r)) /\ WF_vars(Wake(r))

FairSpec == Spec /\ TimersFire

-----------------------------------------------------------------------------
(* Properties *)

\* A call that is not idempotent is performed at most once, whatever was
\* timed out, reset, lost or served late: shouldRetry never replays it.
AtMostOnce ==
  \A r \in Runs : ~idempotent[r] => \A m, n \in applied[r] : m = n

\* The loop returns a result only if the platform performed the very attempt
\* it returns: the answer to an attempt that timed out is never taken for the
\* answer to its successor.
ResolvedByOwnAttempt ==
  \A r \in Runs : pc[r] = "resolved" => attempt[r] \in applied[r]

\* Of the clients that read the body inside the loop, TypeScript's JSON calls
\* and Python's: a replayable failure of an idempotent call, a broken body
\* included, reaches the caller only once the retry budget is spent.  Nothing
\* is said of Rust and of TypeScript's byte streams, whose callers see the
\* failure of a body at any attempt.
BudgetSpent ==
  \A r \in Runs :
    /\ pc[r] = "rejected" /\ idempotent[r] /\ failure[r] \in sdk[r].retryable
    /\ sdk[r].bodyRetried
    => attempt[r] = MaxRetries

\* Once the caller's signal has fired the loop sends nothing more, even when
\* the abort found the call where it could not reach it.
AbortIsFinal ==
  [][\A r \in Runs : aborted[r] => requests'[r] \subseteq requests[r]]_vars

(***************************************************************************)
(* The inductive invariant behind these properties, part by part.          *)
(***************************************************************************)

\* A call that is not idempotent never leaves its first attempt; a call in
\* its backoff has an attempt left; a call that has not started is pristine.
LoopInv(r) ==
  /\ ~idempotent[r] => attempt[r] = 0 /\ pc[r] # "sleeping"
  /\ pc[r] = "sleeping" => attempt[r] < MaxRetries
  /\ pc[r] = "idle" => attempt[r] = 0
  /\ aborted[r] => pc[r] \notin {"waiting", "sleeping"}

\* Whatever is in the network or was performed belongs to an attempt that was
\* made, and an attempt is in one place: under way, or answered or performed.
SentInv(r) ==
  \A n \in Attempts :
    /\ n \in requests[r] \cup applied[r] \/ responses[r][n] # "none"
         => n <= attempt[r] /\ pc[r] # "idle"
    /\ n \in requests[r] => n \notin applied[r] /\ responses[r][n] = "none"

\* An answer tells the truth about its attempt, on the way back, while its
\* body is read, and once the call has settled.
AnswerInv(r) ==
  /\ \A n \in Attempts :
       /\ responses[r][n] = "ok" => n \in applied[r]
       /\ responses[r][n] = "denied" => n \notin applied[r]
  /\ pc[r] = "body" /\ verdict[r] = "ok" => attempt[r] \in applied[r]
  /\ pc[r] = "resolved" => attempt[r] \in applied[r]
  /\ (pc[r] = "body" /\ verdict[r] = "denied") \/ (pc[r] = "rejected" /\ failure[r] = "denied")
       => attempt[r] \notin applied[r] \cup requests[r]

IInv == TypeOK /\ \A r \in Runs : LoopInv(r) /\ SentInv(r) /\ AnswerInv(r)

\* The call a caller sees, as the abstract specification describes it.
outcomeOf(r) ==
  CASE pc[r] = "idle" -> "none"
    [] pc[r] = "resolved" -> "ok"
    [] pc[r] = "rejected" -> IF failure[r] = "denied" THEN "denied" ELSE "failed"
    [] OTHER -> "pending"

LC == INSTANCE LogicalCall WITH
        outcome <- [r \in Runs |-> outcomeOf(r)],
        replayable <- idempotent,
        effects <- applied

\* The loop with its deadlines, late requests and broken bodies implements
\* the abstract call.
ImplementsLogicalCall == LC!CallSpec

\* What the SDKs document of a timeout: a call that has one cannot outlive it.
\* Of the calls of several SDKs that all have one, some call then settles at
\* the least; a behaviour that violates this shows every one of them hang.
TimedCallSettles ==
  (\A r \in Runs : pc[r] # "idle" /\ timed[r]) ~> (\E r \in Runs : pc[r] \in Settled)

\* What every SDK does guarantee: a call with a timeout is not held for ever by
\* silence before the headers, nor by its own backoff.  It settles, or hangs in
\* one body that its deadline does not cover (TypeScript), or is kept by an
\* answer that keeps arriving (Python).
DeadlineBounds ==
  \A r \in Runs :
    (pc[r] # "idle" /\ timed[r]) ~>
      (pc[r] \in Settled \/ [](pc[r] = "body" /\ ~sdk[r].bodyGuarded) \/ []<>Arriving(r))
=============================================================================
