--------------------------- MODULE TemplateBuild ----------------------------
(***************************************************************************)
(* A handle on one template build: refresh() re-reads it, wait() polls it  *)
(* until it is over or the caller's timeout has passed.  Several calls may *)
(* use the handle at once.  Time is discrete: it does not pass over a      *)
(* timer that is due, and a read takes at most Latency: the request        *)
(* pipeline's deadline bounds it, provided that the answer neither stalls  *)
(* in a TypeScript body nor trickles in to a Python client                 *)
(* (RequestPipeline, DeadlineBounds).                                      *)
(***************************************************************************)
EXTENDS Naturals

CONSTANTS
  Calls,                        \* calls made on the handle
  Poll,                         \* pollIntervalMs
  Latency,                      \* longest a read of the build takes
  Timeouts,                     \* timeouts a caller may give; Never is none
  Horizon,                      \* bound: the clock stops here
  Handles                       \* the SDKs the handle may be of, as below

\* No deadline, no abort, not finished.
Never == 2 * Horizon + 1

Times == 0..Never

ASSUME BoundsAssumption ==
  /\ Poll \in Nat \ {0} /\ Latency \in Nat \ {0} /\ Horizon \in Nat
  /\ Timeouts \subseteq 0..Horizon \cup {Never}

VARIABLES
  clock,
  build, finishedAt,            \* platform: the build's status, when it ended
  sdk,                          \* the SDK the handle is of
  info,                         \* status in the handle's representation
  kind,                         \* "wait" or "refresh"
  pc,                           \* where each call is suspended
  since,                        \* when it began to read, or will wake up
  began, deadline,              \* when a wait began, when it gives up
  answer,                       \* the status its read was answered with
  abortedAt,                    \* when the caller's signal fired
  result                        \* what the call returned or threw

handle == <<sdk, info, kind, pc, since, began, deadline, answer, abortedAt, result>>
vars == <<clock, build, finishedAt, handle>>

(***************************************************************************)
(* Where the SDKs differ.                                                  *)
(*  readsFirst   wait begins with a read, rather than with the handle's    *)
(*               representation                                            *)
(*  interrupts   aborting the call ends it wherever it is: the future is   *)
(*               dropped or the task cancelled, not a signal listened to   *)
(*  exclusive    methods borrow the handle mutably                         *)
(***************************************************************************)
TypeScript == [readsFirst |-> TRUE, interrupts |-> FALSE, exclusive |-> FALSE]
Rust == [readsFirst |-> FALSE, interrupts |-> TRUE, exclusive |-> TRUE]
Python == [readsFirst |-> FALSE, interrupts |-> TRUE, exclusive |-> FALSE]

Profiles == {TypeScript, Rust, Python}

ASSUME HandlesAssumption == Handles \subseteq Profiles

Terminal == {"succeeded", "failed"}
Statuses == {"queued", "building"} \cup Terminal

TypeOK ==
  /\ clock \in 0..Horizon
  /\ build \in Statuses /\ finishedAt \in Times
  /\ sdk \in Profiles /\ info \in Statuses
  /\ kind \in [Calls -> {"none", "wait", "refresh"}]
  /\ pc \in [Calls -> {"idle", "reading", "sleeping", "done"}]
  /\ since \in [Calls -> Nat] /\ began \in [Calls -> Times] /\ deadline \in [Calls -> Nat]
  /\ answer \in [Calls -> Statuses \cup {"none"}]
  /\ abortedAt \in [Calls -> Times]
  /\ result \in [Calls -> Statuses \cup {"none", "timeout", "error"}]

\* Templates.build returns as soon as the build is queued.
Init ==
  /\ clock = 0
  /\ build = "queued" /\ finishedAt = Never
  /\ sdk \in Handles /\ info = "queued"
  /\ kind = [c \in Calls |-> "none"]
  /\ pc = [c \in Calls |-> "idle"]
  /\ since = [c \in Calls |-> 0]
  /\ began = [c \in Calls |-> 0] /\ deadline = [c \in Calls |-> Never]
  /\ answer = [c \in Calls |-> "none"]
  /\ abortedAt = [c \in Calls |-> Never]
  /\ result = [c \in Calls |-> "none"]

-----------------------------------------------------------------------------
(* The steps of a call *)

Read(c) ==
  /\ pc' = [pc EXCEPT ![c] = "reading"]
  /\ since' = [since EXCEPT ![c] = clock]
  /\ answer' = [answer EXCEPT ![c] = "none"]
  /\ UNCHANGED result

Return(c, r) ==
  /\ pc' = [pc EXCEPT ![c] = "done"]
  /\ result' = [result EXCEPT ![c] = r]
  /\ since' = [since EXCEPT ![c] = 0]
  /\ answer' = [answer EXCEPT ![c] = "none"]

Sleep(c) ==
  /\ pc' = [pc EXCEPT ![c] = "sleeping"]
  /\ since' = [since EXCEPT ![c] = clock + Poll]
  /\ answer' = [answer EXCEPT ![c] = "none"]
  /\ UNCHANGED result

\* Mutants of Look: the deadline is looked at before the status, or not at
\* all; a build is taken for finished once it has left the queue.
LookDeadlineFirst(c, status, limit) ==
  IF clock >= limit THEN Return(c, "timeout")
  ELSE IF status \in Terminal THEN Return(c, status)
  ELSE Sleep(c)

LookForEver(c, status, limit) ==
  IF status \in Terminal THEN Return(c, status) ELSE Sleep(c)

LookUnlessQueued(c, status, limit) ==
  IF status = "failed" THEN Return(c, status)
  ELSE IF status # "queued" THEN Return(c, "succeeded")
  ELSE IF clock >= limit THEN Return(c, "timeout")
  ELSE Sleep(c)

\* One turn of wait's loop, once it has a status.
Look(c, status, limit) ==
  IF status \in Terminal THEN Return(c, status)
  ELSE IF clock >= limit THEN Return(c, "timeout")
  ELSE Sleep(c)

Exclusive == sdk.exclusive => \A c \in Calls : pc[c] \in {"idle", "done"}

wait(c, timeout) ==
  /\ pc[c] = "idle" /\ Exclusive
  /\ kind' = [kind EXCEPT ![c] = "wait"]
  /\ LET limit == IF timeout = Never THEN Never + Never ELSE clock + timeout IN
       /\ began' = [began EXCEPT ![c] = clock]
       /\ deadline' = [deadline EXCEPT ![c] = limit]
       /\ IF sdk.readsFirst THEN Read(c) ELSE Look(c, info, limit)
  /\ UNCHANGED <<clock, build, finishedAt, sdk, info, abortedAt>>

refresh(c) ==
  /\ pc[c] = "idle" /\ Exclusive
  /\ kind' = [kind EXCEPT ![c] = "refresh"]
  /\ Read(c)
  /\ UNCHANGED <<clock, build, finishedAt, sdk, info, began, deadline, abortedAt>>

\* The handle takes the answer, and the call that asked looks at it.
RefreshReturns(c) ==
  /\ pc[c] = "reading" /\ answer[c] # "none"
  /\ info' = answer[c]
  /\ IF kind[c] = "wait" THEN Look(c, answer[c], deadline[c]) ELSE Return(c, answer[c])
  /\ UNCHANGED <<clock, build, finishedAt, sdk, kind, began, deadline, abortedAt>>

\* The first error of a read ends the call.
RefreshFails(c) ==
  /\ pc[c] = "reading"
  /\ Return(c, "error")
  /\ UNCHANGED <<clock, build, finishedAt, sdk, info, kind, began, deadline, abortedAt>>

\* Mutants of Wake: the handle's representation is trusted; the signal is
\* not passed on to the read.
WakeTrusts(c) ==
  /\ pc[c] = "sleeping" /\ clock >= since[c]
  /\ Look(c, info, deadline[c])
  /\ UNCHANGED <<clock, build, finishedAt, sdk, info, kind, began, deadline, abortedAt>>

WakeDeaf(c) ==
  /\ pc[c] = "sleeping" /\ clock >= since[c]
  /\ Read(c)
  /\ UNCHANGED <<clock, build, finishedAt, sdk, info, kind, began, deadline, abortedAt>>

\* The poll interval is over.  A read whose signal has fired is not made.
Wake(c) ==
  /\ pc[c] = "sleeping" /\ clock >= since[c]
  /\ IF abortedAt[c] # Never THEN Return(c, "error") ELSE Read(c)
  /\ UNCHANGED <<clock, build, finishedAt, sdk, info, kind, began, deadline, abortedAt>>

\* A TypeScript read hears the signal until its headers are in, which an
\* answer on its way may already be; its sleep does not hear it.
Abort(c) ==
  /\ pc[c] \in {"reading", "sleeping"} /\ abortedAt[c] = Never
  /\ abortedAt' = [abortedAt EXCEPT ![c] = clock]
  /\ \/ /\ sdk.interrupts \/ pc[c] = "reading"
        /\ Return(c, "error")
     \/ /\ ~sdk.interrupts
        /\ pc[c] = "sleeping" \/ answer[c] # "none"
        /\ UNCHANGED <<pc, since, answer, result>>
  /\ UNCHANGED <<clock, build, finishedAt, sdk, info, kind, began, deadline>>

-----------------------------------------------------------------------------
(* The platform and the clock *)

Serve(c) ==
  /\ pc[c] = "reading" /\ answer[c] = "none"
  /\ answer' = [answer EXCEPT ![c] = build]
  /\ UNCHANGED <<clock, build, finishedAt, sdk, info, kind, pc, since, began, deadline, abortedAt, result>>

BuildProceeds ==
  /\ \/ build = "queued" /\ build' = "building" /\ UNCHANGED finishedAt
     \/ build = "building" /\ build' \in Terminal /\ finishedAt' = clock
  /\ UNCHANGED <<clock, handle>>

Tick ==
  /\ clock < Horizon
  /\ \A c \in Calls :
       /\ pc[c] = "sleeping" => clock < since[c]
       /\ pc[c] = "reading" => clock < since[c] + Latency
  /\ clock' = clock + 1
  /\ UNCHANGED <<build, finishedAt, handle>>

-----------------------------------------------------------------------------

Call(c) ==
  \/ \E t \in Timeouts : wait(c, t)
  \/ refresh(c) \/ RefreshReturns(c) \/ RefreshFails(c) \/ Wake(c) \/ Abort(c)
  \/ Serve(c)

Next == (\E c \in Calls : Call(c)) \/ BuildProceeds \/ Tick

Spec == Init /\ [][Next]_vars

-----------------------------------------------------------------------------
(* Properties *)

Waiting(c) == kind[c] = "wait" /\ pc[c] # "done"

\* wait reports success or failure only of a build that ended that way, even
\* when another call has put an older status into the handle meanwhile.
WaitTruthful ==
  \A c \in Calls :
    kind[c] = "wait" /\ result[c] \in Statuses => result[c] \in Terminal /\ build = result[c]

\* wait reports a timeout only if the build was still going when the time
\* was up, give or take the read in progress: a build that ended before is
\* never called unfinished.  Rust and Python do not read for a timeout of 0.
TimedOutUnfinished ==
  \A c \in Calls :
    result[c] = "timeout" /\ (sdk.readsFirst \/ deadline[c] # began[c]) =>
      clock >= deadline[c] /\ finishedAt + Latency >= deadline[c]

\* A wait with a timeout overruns it by one turn of the loop at most.
OverrunBounded ==
  \A c \in Calls : Waiting(c) => clock <= deadline[c] + Poll + Latency

\* A build that has ended is noticed within the turn in progress and the next,
\* by every wait on the handle, whatever the handle held when it began.
FinishNoticed ==
  \A c \in Calls :
    Waiting(c) =>
      \/ clock <= finishedAt + Latency + Poll + Latency
      \/ clock <= began[c] + Poll + Latency

\* A wait that goes on after its signal fired is TypeScript's, makes no further
\* read, and ends at the latest when it would: the read whose body was being
\* received comes to its end, and one sleep follows.
AbortNoticed ==
  \A c \in Calls :
    Waiting(c) /\ abortedAt[c] # Never =>
      /\ ~sdk.interrupts
      /\ pc[c] = "reading" => since[c] <= abortedAt[c]
      /\ clock <= abortedAt[c] + Latency + Poll
=============================================================================
