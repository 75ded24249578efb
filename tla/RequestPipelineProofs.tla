----------------------- MODULE RequestPipelineProofs -----------------------
(***************************************************************************)
(* Proofs about RequestPipeline, for any set of calls, any retry budget    *)
(* and any mix of the SDKs.                                                *)
(*                                                                         *)
(* IInv is inductive: one lemma per action shows that the action keeps its *)
(* four parts.  The safety theorems follow from it state by state, and so  *)
(* does the refinement of LogicalCall, action by action.                   *)
(***************************************************************************)
EXTENDS RequestPipeline, TLAPS

-----------------------------------------------------------------------------
(* Every action of the loop, the timers and the network keeps IInv. *)

\* send: the first attempt of a pristine call is attempt 0.
LEMMA StartPreserves ==
  ASSUME NEW r \in Runs, IInv, Start(r)
  PROVE  IInv'
<1>0. TypeOK /\ MaxRetries \in Nat /\ \A x \in Runs : LoopInv(x) /\ SentInv(x) /\ AnswerInv(x)
  BY MaxRetriesAssumption DEF IInv
<1>1. TypeOK'
  <2>1. PICK i \in BOOLEAN, t \in BOOLEAN :
          /\ idempotent' = [idempotent EXCEPT ![r] = i]
          /\ timed' = [timed EXCEPT ![r] = t]
    BY DEF Start
  <2>2. idempotent' \in [Runs -> BOOLEAN] /\ timed' \in [Runs -> BOOLEAN]
    BY <1>0, <2>1 DEF TypeOK
  <2>3. requests' \in [Runs -> SUBSET Attempts]
    BY <1>0 DEF Start, TypeOK
  <2>4. pc' \in [Runs -> {"idle", "waiting", "body", "sleeping"} \cup Settled]
    <3>1. PICK q \in {"waiting", "rejected"} : pc' = [pc EXCEPT ![r] = q]
      BY DEF Start
    <3> QED
      BY <1>0, <3>1 DEF TypeOK, Settled
  <2>5. failure' \in [Runs -> Failures \cup {"none"}]
    BY <1>0 DEF Start, TypeOK, Failures
  <2> QED
    BY <1>0, <2>2, <2>3, <2>4, <2>5 DEF Start, TypeOK
<1>2. ASSUME NEW x \in Runs PROVE LoopInv(x)'
  BY <1>0 DEF Start, TypeOK, Attempts, Verdicts, Failures, errorFromResponse, Settled, LoopInv
<1>3. ASSUME NEW x \in Runs PROVE SentInv(x)'
  <2>1. UNCHANGED <<attempt, responses, applied>> /\ attempt[r] \in Attempts
    BY <1>0 DEF Start, TypeOK
  <2>2. CASE x = r
    <3>1. pc[r] = "idle" /\ pc'[r] # "idle" /\ attempt[r] = 0
      BY <1>0 DEF Start, TypeOK, LoopInv
    <3>2. requests'[r] \subseteq requests[r] \cup {attempt[r]}
      BY <1>0 DEF Start, TypeOK
    <3> QED
      BY <1>0, <2>1, <2>2, <3>1, <3>2 DEF SentInv, Attempts
  <2>3. CASE x # r
    <3>1. requests'[x] = requests[x] /\ pc'[x] = pc[x]
      BY <1>0, <2>3 DEF Start, TypeOK
    <3> QED
      BY <1>0, <2>1, <3>1 DEF SentInv
  <2> QED
    BY <2>2, <2>3
<1>4. ASSUME NEW x \in Runs PROVE AnswerInv(x)'
  <2>1. UNCHANGED <<attempt, verdict, responses, applied>>
    BY DEF Start
  <2>2. CASE x = r
    <3>1. pc'[r] \in {"waiting", "rejected"} /\ (pc'[r] = "rejected" => failure'[r] = "aborted")
      BY <1>0 DEF Start, TypeOK
    <3> QED
      BY <1>0, <2>1, <2>2, <3>1 DEF AnswerInv
  <2>3. CASE x # r
    <3>1. requests'[x] = requests[x] /\ pc'[x] = pc[x] /\ failure'[x] = failure[x]
      BY <1>0, <2>3 DEF Start, TypeOK
    <3> QED
      BY <1>0, <2>1, <3>1 DEF AnswerInv
  <2> QED
    BY <2>2, <2>3
<1> QED
  BY <1>1, <1>2, <1>3, <1>4 DEF IInv

\* An abort settles the call it reaches and sends nothing.
LEMMA AbortPreserves ==
  ASSUME NEW r \in Runs, IInv, Abort(r)
  PROVE  IInv'
<1>0. TypeOK /\ MaxRetries \in Nat /\ \A x \in Runs : LoopInv(x) /\ SentInv(x) /\ AnswerInv(x)
  BY MaxRetriesAssumption DEF IInv
<1>1. TypeOK'
  BY <1>0 DEF Abort, AbortReaches, Throw, TypeOK, Attempts, Verdicts, Failures, errorFromResponse, Settled, LoopInv
<1>2. ASSUME NEW x \in Runs PROVE LoopInv(x)'
  BY <1>0 DEF Abort, AbortReaches, Throw, TypeOK, Attempts, Verdicts, Failures, errorFromResponse, Settled, LoopInv
<1>3. ASSUME NEW x \in Runs PROVE SentInv(x)'
  BY <1>0 DEF Abort, AbortReaches, Throw, TypeOK, Attempts, Verdicts, Failures, errorFromResponse, Settled, LoopInv, SentInv
<1>4. ASSUME NEW x \in Runs PROVE AnswerInv(x)'
  BY <1>0 DEF Abort, AbortReaches, Throw, TypeOK, Attempts, Verdicts, Failures, errorFromResponse, Settled, LoopInv, SentInv, AnswerInv
<1> QED
  BY <1>1, <1>2, <1>3, <1>4 DEF IInv

\* A deadline abandons the request, which stays in the network.
LEMMA DeadlinePreserves ==
  ASSUME NEW r \in Runs, IInv, Deadline(r)
  PROVE  IInv'
<1>0. TypeOK /\ MaxRetries \in Nat /\ \A x \in Runs : LoopInv(x) /\ SentInv(x) /\ AnswerInv(x)
  BY MaxRetriesAssumption DEF IInv
<1>1. TypeOK'
  BY <1>0 DEF Deadline, Caught, Exhausted, shouldRetry, TypeOK, Attempts, Verdicts, Failures, errorFromResponse, Settled, LoopInv
<1>2. ASSUME NEW x \in Runs PROVE LoopInv(x)'
  BY <1>0 DEF Deadline, Caught, Exhausted, shouldRetry, TypeOK, Attempts, Verdicts, Failures, errorFromResponse, Settled, LoopInv
<1>3. ASSUME NEW x \in Runs PROVE SentInv(x)'
  BY <1>0 DEF Deadline, Caught, Exhausted, shouldRetry, TypeOK, Attempts, Verdicts, Failures, errorFromResponse, Settled, LoopInv, SentInv
<1>4. ASSUME NEW x \in Runs PROVE AnswerInv(x)'
  BY <1>0 DEF Deadline, Caught, Exhausted, shouldRetry, TypeOK, Attempts, Verdicts, Failures, errorFromResponse, Settled, LoopInv, SentInv, AnswerInv
<1> QED
  BY <1>1, <1>2, <1>3, <1>4 DEF IInv

\* A request that never left cannot be performed later.
LEMMA ConnectFailsPreserves ==
  ASSUME NEW r \in Runs, IInv, ConnectFails(r)
  PROVE  IInv'
<1>0. TypeOK /\ MaxRetries \in Nat /\ \A x \in Runs : LoopInv(x) /\ SentInv(x) /\ AnswerInv(x)
  BY MaxRetriesAssumption DEF IInv
<1>1. TypeOK'
  BY <1>0 DEF ConnectFails, Caught, Exhausted, shouldRetry, TypeOK, Attempts, Verdicts, Failures, errorFromResponse, Settled, LoopInv
<1>2. ASSUME NEW x \in Runs PROVE LoopInv(x)'
  BY <1>0 DEF ConnectFails, Caught, Exhausted, shouldRetry, TypeOK, Attempts, Verdicts, Failures, errorFromResponse, Settled, LoopInv
<1>3. ASSUME NEW x \in Runs PROVE SentInv(x)'
  BY <1>0 DEF ConnectFails, Caught, Exhausted, shouldRetry, TypeOK, Attempts, Verdicts, Failures, errorFromResponse, Settled, LoopInv, SentInv
<1>4. ASSUME NEW x \in Runs PROVE AnswerInv(x)'
  BY <1>0 DEF ConnectFails, Caught, Exhausted, shouldRetry, TypeOK, Attempts, Verdicts, Failures, errorFromResponse, Settled, LoopInv, SentInv, AnswerInv
<1> QED
  BY <1>1, <1>2, <1>3, <1>4 DEF IInv

\* A broken connection abandons the request like a deadline does.
LEMMA ResetPreserves ==
  ASSUME NEW r \in Runs, IInv, Reset(r)
  PROVE  IInv'
<1>0. TypeOK /\ MaxRetries \in Nat /\ \A x \in Runs : LoopInv(x) /\ SentInv(x) /\ AnswerInv(x)
  BY MaxRetriesAssumption DEF IInv
<1>1. TypeOK'
  BY <1>0 DEF Reset, Caught, Exhausted, shouldRetry, TypeOK, Attempts, Verdicts, Failures, errorFromResponse, Settled, LoopInv
<1>2. ASSUME NEW x \in Runs PROVE LoopInv(x)'
  BY <1>0 DEF Reset, Caught, Exhausted, shouldRetry, TypeOK, Attempts, Verdicts, Failures, errorFromResponse, Settled, LoopInv
<1>3. ASSUME NEW x \in Runs PROVE SentInv(x)'
  BY <1>0 DEF Reset, Caught, Exhausted, shouldRetry, TypeOK, Attempts, Verdicts, Failures, errorFromResponse, Settled, LoopInv, SentInv
<1>4. ASSUME NEW x \in Runs PROVE AnswerInv(x)'
  BY <1>0 DEF Reset, Caught, Exhausted, shouldRetry, TypeOK, Attempts, Verdicts, Failures, errorFromResponse, Settled, LoopInv, SentInv, AnswerInv
<1> QED
  BY <1>1, <1>2, <1>3, <1>4 DEF IInv

\* The verdict taken is the answer to the attempt in progress.
LEMMA HeadersPreserves ==
  ASSUME NEW r \in Runs, IInv, Headers(r)
  PROVE  IInv'
<1>0. TypeOK /\ MaxRetries \in Nat /\ \A x \in Runs : LoopInv(x) /\ SentInv(x) /\ AnswerInv(x)
  BY MaxRetriesAssumption DEF IInv
<1>1. TypeOK'
  BY <1>0 DEF Headers, TypeOK, Attempts, Verdicts, Failures, errorFromResponse, Settled, LoopInv
<1>2. ASSUME NEW x \in Runs PROVE LoopInv(x)'
  BY <1>0 DEF Headers, TypeOK, Attempts, Verdicts, Failures, errorFromResponse, Settled, LoopInv
<1>3. ASSUME NEW x \in Runs PROVE SentInv(x)'
  BY <1>0 DEF Headers, TypeOK, Attempts, Verdicts, Failures, errorFromResponse, Settled, LoopInv, SentInv
<1>4. ASSUME NEW x \in Runs PROVE AnswerInv(x)'
  BY <1>0 DEF Headers, TypeOK, Attempts, Verdicts, Failures, errorFromResponse, Settled, LoopInv, SentInv, AnswerInv
<1> QED
  BY <1>1, <1>2, <1>3, <1>4 DEF IInv

\* unwrap returns what the answer says, or hands it to the catch block.
LEMMA BodyPreserves ==
  ASSUME NEW r \in Runs, IInv, Body(r)
  PROVE  IInv'
<1>0. TypeOK /\ MaxRetries \in Nat /\ \A x \in Runs : LoopInv(x) /\ SentInv(x) /\ AnswerInv(x)
  BY MaxRetriesAssumption DEF IInv
<1>1. TypeOK'
  BY <1>0 DEF Body, Caught, Exhausted, shouldRetry, TypeOK, Attempts, Verdicts, Failures, errorFromResponse, Settled, LoopInv
<1>2. ASSUME NEW x \in Runs PROVE LoopInv(x)'
  BY <1>0 DEF Body, Caught, Exhausted, shouldRetry, TypeOK, Attempts, Verdicts, Failures, errorFromResponse, Settled, LoopInv
<1>3. ASSUME NEW x \in Runs PROVE SentInv(x)'
  BY <1>0 DEF Body, Caught, Exhausted, shouldRetry, TypeOK, Attempts, Verdicts, Failures, errorFromResponse, Settled, LoopInv, SentInv
<1>4. ASSUME NEW x \in Runs PROVE AnswerInv(x)'
  BY <1>0 DEF Body, Caught, Exhausted, shouldRetry, TypeOK, Attempts, Verdicts, Failures, errorFromResponse, Settled, LoopInv, SentInv, AnswerInv
<1> QED
  BY <1>1, <1>2, <1>3, <1>4 DEF IInv

\* The catch block leaves the call well typed.
LEMMA CaughtTyped ==
  ASSUME NEW r \in Runs, NEW f \in Failures \cup {"none"}, TypeOK, Caught(r, f),
         UNCHANGED <<requests, responses>>
  PROVE  TypeOK'
<1>1. PICK q \in {"rejected", "sleeping"} : pc' = [pc EXCEPT ![r] = q]
  BY DEF Caught
<1>2. pc' \in [Runs -> {"idle", "waiting", "body", "sleeping"} \cup Settled]
  BY <1>1 DEF TypeOK, Settled
<1>3. failure' \in [Runs -> Failures \cup {"none"}]
  <2>1. CASE UNCHANGED failure
    BY <2>1 DEF TypeOK
  <2>2. ASSUME NEW g \in {f, "aborted"}, failure' = [failure EXCEPT ![r] = g]
        PROVE  failure' \in [Runs -> Failures \cup {"none"}]
    BY <2>2 DEF TypeOK, Failures
  <2> QED
    BY <2>1, <2>2 DEF Caught
<1>4. verdict' \in [Runs -> Verdicts \cup {"none"}]
  BY DEF Caught, TypeOK
<1> QED
  BY <1>2, <1>3, <1>4 DEF Caught, TypeOK

\* So does a failure outside of it.
LEMMA ThrowTyped ==
  ASSUME NEW r \in Runs, NEW f \in Failures, TypeOK, Throw(r, f),
         UNCHANGED <<requests, responses, aborted>>
  PROVE  TypeOK'
<1>1. pc' \in [Runs -> {"idle", "waiting", "body", "sleeping"} \cup Settled]
  BY DEF Throw, TypeOK, Settled
<1>2. failure' \in [Runs -> Failures \cup {"none"}] /\ verdict' \in [Runs -> Verdicts \cup {"none"}]
  BY DEF Throw, TypeOK
<1> QED
  BY <1>1, <1>2 DEF Throw, TypeOK

\* A body that cannot be read is a failure of its attempt, whatever its
\* status said.
LEMMA BodyFailsPreserves ==
  ASSUME NEW r \in Runs, NEW f \in Failures \ {"denied"}, IInv, BodyFails(r, f)
  PROVE  IInv'
<1>0. TypeOK /\ MaxRetries \in Nat /\ \A x \in Runs : LoopInv(x) /\ SentInv(x) /\ AnswerInv(x)
  BY MaxRetriesAssumption DEF IInv
<1>1. UNCHANGED <<requests, responses>> /\ pc[r] = "body" /\ verdict[r] \in Verdicts \cup {"none"}
  BY <1>0 DEF BodyFails, TypeOK
<1>2. CASE Caught(r, f)
  <2>1. TypeOK'
    BY <1>0, <1>1, <1>2, CaughtTyped
  <2>2. ASSUME NEW x \in Runs PROVE LoopInv(x)'
    BY <1>0, <1>1, <1>2 DEF Caught, Exhausted, shouldRetry, TypeOK, Attempts, Verdicts, Failures, errorFromResponse, Settled, LoopInv
  <2>3. ASSUME NEW x \in Runs PROVE SentInv(x)'
    BY <1>0, <1>1, <1>2 DEF Caught, TypeOK, Attempts, Verdicts, Failures, errorFromResponse, Settled, SentInv
  <2>4. ASSUME NEW x \in Runs PROVE AnswerInv(x)'
    BY <1>0, <1>1, <1>2 DEF Caught, TypeOK, Attempts, Verdicts, Failures, errorFromResponse, Settled, AnswerInv
  <2> QED
    BY <2>1, <2>2, <2>3, <2>4 DEF IInv
<1>3. CASE Throw(r, f) /\ UNCHANGED aborted
  <2>1. TypeOK'
    BY <1>0, <1>1, <1>3, ThrowTyped
  <2>2. ASSUME NEW x \in Runs PROVE LoopInv(x)' /\ SentInv(x)'
    BY <1>0, <1>1, <1>3 DEF Throw, TypeOK, Attempts, Verdicts, Failures, errorFromResponse, Settled, LoopInv, SentInv
  <2>3. ASSUME NEW x \in Runs PROVE AnswerInv(x)'
    BY <1>0, <1>1, <1>3 DEF Throw, TypeOK, Attempts, Verdicts, Failures, errorFromResponse, Settled, AnswerInv
  <2> QED
    BY <2>1, <2>2, <2>3 DEF IInv
<1>4. CASE Caught(r, verdict[r]) /\ verdict[r] # "ok"
  <2>0. verdict[r] \in Failures \cup {"none"}
    BY <1>1, <1>4 DEF Verdicts, Failures
  <2>1. TypeOK'
    BY <1>0, <1>1, <1>4, <2>0, CaughtTyped
  <2>2. ASSUME NEW x \in Runs PROVE LoopInv(x)'
    BY <1>0, <1>1, <1>4 DEF Caught, Exhausted, shouldRetry, TypeOK, Attempts, Verdicts, Failures, errorFromResponse, Settled, LoopInv
  <2>3. ASSUME NEW x \in Runs PROVE SentInv(x)'
    BY <1>0, <1>1, <1>4 DEF Caught, TypeOK, Attempts, Verdicts, Failures, errorFromResponse, Settled, SentInv
  <2>4. ASSUME NEW x \in Runs PROVE AnswerInv(x)'
    BY <1>0, <1>1, <1>4 DEF Caught, TypeOK, Attempts, Verdicts, Failures, errorFromResponse, Settled, AnswerInv
  <2> QED
    BY <2>1, <2>2, <2>3, <2>4 DEF IInv
<1> QED
  BY <1>2, <1>3, <1>4 DEF BodyFails

\* The loop counter stays within the budget: a sleeping call has an
\* attempt left.
LEMMA WakePreserves ==
  ASSUME NEW r \in Runs, IInv, Wake(r)
  PROVE  IInv'
<1>0. TypeOK /\ MaxRetries \in Nat /\ \A x \in Runs : LoopInv(x) /\ SentInv(x) /\ AnswerInv(x)
  BY MaxRetriesAssumption DEF IInv
<1>1. TypeOK'
  BY <1>0 DEF Wake, TypeOK, Attempts, Verdicts, Failures, errorFromResponse, Settled, LoopInv
<1>2. ASSUME NEW x \in Runs PROVE LoopInv(x)'
  BY <1>0 DEF Wake, TypeOK, Attempts, Verdicts, Failures, errorFromResponse, Settled, LoopInv
<1>3. ASSUME NEW x \in Runs PROVE SentInv(x)'
  BY <1>0 DEF Wake, TypeOK, Attempts, Verdicts, Failures, errorFromResponse, Settled, LoopInv, SentInv
<1>4. ASSUME NEW x \in Runs PROVE AnswerInv(x)'
  BY <1>0 DEF Wake, TypeOK, Attempts, Verdicts, Failures, errorFromResponse, Settled, LoopInv, SentInv, AnswerInv
<1> QED
  BY <1>1, <1>2, <1>3, <1>4 DEF IInv

\* The platform performs attempts that were made, once each.
LEMMA ServePreserves ==
  ASSUME NEW r \in Runs, NEW n \in Attempts, IInv, Serve(r, n)
  PROVE  IInv'
<1>0. TypeOK /\ MaxRetries \in Nat /\ \A x \in Runs : LoopInv(x) /\ SentInv(x) /\ AnswerInv(x)
  BY MaxRetriesAssumption DEF IInv
<1>1. TypeOK'
  <2>1. requests' \in [Runs -> SUBSET Attempts] /\ applied' \in [Runs -> SUBSET Attempts]
    <3>1. requests \in [Runs -> SUBSET Attempts] /\ applied \in [Runs -> SUBSET Attempts]
      BY <1>0 DEF TypeOK
    <3>2. applied' = applied \/ applied' = [applied EXCEPT ![r] = @ \cup {n}]
      BY DEF Serve
    <3>3. requests' = [requests EXCEPT ![r] = @ \ {n}]
      BY DEF Serve
    <3> QED
      BY <3>1, <3>2, <3>3
  <2>2. responses' \in [Runs -> [Attempts -> Verdicts \cup {"none"}]]
    BY <1>0 DEF Serve, TypeOK
  <2> QED
    BY <1>0, <2>1, <2>2 DEF Serve, TypeOK
<1>2. ASSUME NEW x \in Runs PROVE LoopInv(x)'
  BY <1>0 DEF Serve, TypeOK, Attempts, Verdicts, Failures, errorFromResponse, Settled, LoopInv
<1>3. ASSUME NEW x \in Runs PROVE SentInv(x)'
  BY <1>0 DEF Serve, TypeOK, Attempts, Verdicts, Failures, errorFromResponse, Settled, LoopInv, SentInv
<1>4. ASSUME NEW x \in Runs PROVE AnswerInv(x)'
  BY <1>0 DEF Serve, TypeOK, Attempts, Verdicts, Failures, errorFromResponse, Settled, LoopInv, SentInv, AnswerInv
<1> QED
  BY <1>1, <1>2, <1>3, <1>4 DEF IInv

\* Losing a request or an answer makes no claim false.
LEMMA LosePreserves ==
  ASSUME NEW r \in Runs, NEW n \in Attempts, IInv, Lose(r, n)
  PROVE  IInv'
<1>0. TypeOK /\ MaxRetries \in Nat /\ \A x \in Runs : LoopInv(x) /\ SentInv(x) /\ AnswerInv(x)
  BY MaxRetriesAssumption DEF IInv
<1>1. CASE n \in requests[r] /\ requests' = [requests EXCEPT ![r] = @ \ {n}] /\ UNCHANGED responses
  <2>1. TypeOK'
    BY <1>0, <1>1 DEF Lose, TypeOK
  <2>2. ASSUME NEW x \in Runs PROVE LoopInv(x)' /\ SentInv(x)' /\ AnswerInv(x)'
    BY <1>0, <1>1, <2>1 DEF Lose, TypeOK, LoopInv, SentInv, AnswerInv
  <2> QED
    BY <2>1, <2>2 DEF IInv
<1>2. CASE responses' = [responses EXCEPT ![r][n] = "none"] /\ UNCHANGED requests
  <2>1. TypeOK'
    BY <1>0, <1>2 DEF Lose, TypeOK
  <2>2. ASSUME NEW x \in Runs PROVE LoopInv(x)' /\ SentInv(x)' /\ AnswerInv(x)'
    BY <1>0, <1>2, <2>1 DEF Lose, TypeOK, LoopInv, SentInv, AnswerInv
  <2> QED
    BY <2>1, <2>2 DEF IInv
<1> QED
  BY <1>1, <1>2 DEF Lose

\* How an answer arrives makes no claim false.
LEMMA TricklePreserves ==
  ASSUME NEW r \in Runs, IInv, Trickle(r)
  PROVE  IInv'
<1>0. TypeOK /\ \A x \in Runs : LoopInv(x) /\ SentInv(x) /\ AnswerInv(x)
  BY DEF IInv
<1>1. TypeOK'
  BY <1>0 DEF Trickle, TypeOK
<1>2. ASSUME NEW x \in Runs PROVE LoopInv(x)' /\ SentInv(x)' /\ AnswerInv(x)'
  BY <1>0 DEF Trickle, LoopInv, SentInv, AnswerInv
<1> QED
  BY <1>1, <1>2 DEF IInv

\* No call has been made.
LEMMA InitIInv == Init => IInv
<1> SUFFICES ASSUME Init PROVE IInv
  OBVIOUS
<1>1. sdk \in [Runs -> Profiles]
  BY ClientsAssumption DEF Init
<1>2. TypeOK
  BY <1>1, MaxRetriesAssumption DEF Init, TypeOK, Attempts, Verdicts, Failures, Settled
<1>3. ASSUME NEW r \in Runs PROVE LoopInv(r) /\ SentInv(r) /\ AnswerInv(r)
  BY MaxRetriesAssumption DEF Init, LoopInv, SentInv, AnswerInv, Attempts
<1> QED
  BY <1>2, <1>3 DEF IInv

\* Every step keeps the inductive invariant.
LEMMA NextIInv == IInv /\ [Next]_vars => IInv'
<1> SUFFICES ASSUME IInv, [Next]_vars PROVE IInv'
  OBVIOUS
<1>1. CASE UNCHANGED vars
  BY <1>1 DEF vars, IInv, TypeOK, LoopInv, SentInv, AnswerInv
<1>2. ASSUME NEW r \in Runs, Call(r) PROVE IInv'
  BY <1>2, StartPreserves, AbortPreserves, DeadlinePreserves, ConnectFailsPreserves,
     ResetPreserves, HeadersPreserves, BodyPreserves, BodyFailsPreserves, WakePreserves
     DEF Call, BodyBreaks, BodyDeadline, Failures
<1>3. ASSUME NEW r \in Runs, Environment(r) PROVE IInv'
  BY <1>3, TricklePreserves, ServePreserves, LosePreserves DEF Environment
<1> QED
  BY <1>1, <1>2, <1>3 DEF Next

\* The inductive invariant holds in every state of the pipeline.
THEOREM Invariance == Spec => []IInv
<1> QED
  BY InitIInv, NextIInv, PTL DEF Spec

\* The state of the loop is well typed; in particular the loop counter of
\* send never passes the retry budget.
THEOREM TypeCorrect == Spec => []TypeOK
<1>1. IInv => TypeOK
  BY DEF IInv
<1> QED
  BY <1>1, Invariance, PTL

\* A call that is not idempotent is performed at most once by the platform,
\* whatever budget shouldRetry is given and however late requests arrive.
THEOREM PerformedAtMostOnce == Spec => []AtMostOnce
<1>1. IInv => AtMostOnce
  <2> SUFFICES ASSUME IInv, NEW r \in Runs, ~idempotent[r], NEW m \in applied[r], NEW n \in applied[r]
               PROVE  m = n
    BY DEF AtMostOnce
  <2>1. m \in Attempts /\ n \in Attempts /\ attempt[r] = 0
    BY DEF IInv, TypeOK, LoopInv
  <2>2. m <= attempt[r] /\ n <= attempt[r]
    BY <2>1 DEF IInv, SentInv
  <2> QED
    BY <2>1, <2>2, MaxRetriesAssumption DEF Attempts
<1> QED
  BY <1>1, Invariance, PTL

\* send resolves with the answer to its last attempt, which the platform
\* performed: a late answer to an earlier attempt is never taken for it.
THEOREM AnsweredByOwnAttempt == Spec => []ResolvedByOwnAttempt
<1>1. IInv => ResolvedByOwnAttempt
  BY DEF IInv, AnswerInv, ResolvedByOwnAttempt
<1> QED
  BY <1>1, Invariance, PTL

\* After the caller's signal has fired, send and sleep put no further
\* request into the network.
THEOREM AbortsAreFinal == Spec => AbortIsFinal
<1>1. ASSUME IInv, [Next]_vars
      PROVE  \A r \in Runs : aborted[r] => requests'[r] \subseteq requests[r]
  <2> SUFFICES ASSUME NEW x \in Runs, aborted[x] PROVE requests'[x] \subseteq requests[x]
    OBVIOUS
  <2>0. pc[x] \notin {"waiting", "sleeping"} /\ requests \in [Runs -> SUBSET Attempts]
    BY <1>1 DEF IInv, LoopInv, TypeOK
  <2>1. CASE UNCHANGED vars
    BY <2>1 DEF vars
  <2>2. ASSUME NEW r \in Runs, Start(r) PROVE requests'[x] \subseteq requests[x]
    BY <2>0, <2>2 DEF Start
  <2>3. ASSUME NEW r \in Runs, Wake(r) PROVE requests'[x] \subseteq requests[x]
    BY <2>0, <2>3 DEF Wake
  <2>4. ASSUME NEW r \in Runs, ConnectFails(r) PROVE requests'[x] \subseteq requests[x]
    BY <2>0, <2>4 DEF ConnectFails
  <2>5. ASSUME NEW r \in Runs, NEW n \in Attempts, Serve(r, n) \/ Lose(r, n)
        PROVE  requests'[x] \subseteq requests[x]
    BY <2>0, <2>5 DEF Serve, Lose
  <2>6. ASSUME NEW r \in Runs,
               Abort(r) \/ Deadline(r) \/ Reset(r) \/ Headers(r) \/ Body(r)
               \/ BodyBreaks(r) \/ BodyDeadline(r) \/ Trickle(r)
        PROVE  requests' = requests
    BY <2>6 DEF Trickle, Abort, Deadline, Reset, Headers, Body, BodyBreaks, BodyDeadline, BodyFails
  <2> QED
    BY <1>1, <2>1, <2>2, <2>3, <2>4, <2>5, <2>6 DEF Next, Call, Environment
<1> QED
  BY <1>1, Invariance, PTL DEF Spec, AbortIsFinal

-----------------------------------------------------------------------------
(* The retry budget *)

\* No SDK replays an abort.
LEMMA AbortNotReplayed ==
  ASSUME TypeOK, NEW r \in Runs
  PROVE  "aborted" \notin sdk[r].retryable
<1>1. sdk[r] \in Profiles
  BY DEF TypeOK
<1>2. /\ "aborted" \notin TypeScript.retryable /\ "aborted" \notin TypeScriptBytes.retryable
      /\ "aborted" \notin Rust.retryable /\ "aborted" \notin Python.retryable
  BY DEF TypeScript, TypeScriptBytes, Rust, Python
<1> QED
  BY <1>1, <1>2, Zenon DEF Profiles

\* The catch block throws a failure it would replay only at the last attempt.
LEMMA CaughtSpends ==
  ASSUME IInv, BudgetSpent, NEW r \in Runs, NEW f, Caught(r, f)
  PROVE  BudgetSpent'
<1>0. TypeOK /\ MaxRetries \in Nat /\ UNCHANGED <<sdk, idempotent, attempt>>
  BY MaxRetriesAssumption DEF IInv, Caught
<1> SUFFICES ASSUME NEW x \in Runs, pc'[x] = "rejected", idempotent[x], failure'[x] \in sdk[x].retryable,
                    sdk[x].bodyRetried
             PROVE  attempt[x] = MaxRetries
  BY <1>0 DEF BudgetSpent
<1>1. CASE x # r
  BY <1>0, <1>1 DEF Caught, TypeOK, BudgetSpent
<1>2. CASE x = r
  <2>1. CASE Exhausted(r)
    BY <1>0, <1>2, <2>1 DEF Exhausted, TypeOK, Attempts
  <2>2. CASE ~Exhausted(r) /\ ~shouldRetry(r, f)
    BY <1>0, <1>2, <2>2 DEF Caught, TypeOK, shouldRetry
  <2>3. CASE ~Exhausted(r) /\ shouldRetry(r, f) /\ aborted[r]
    BY <1>0, <1>2, <2>3, AbortNotReplayed DEF Caught, TypeOK
  <2>4. CASE ~Exhausted(r) /\ shouldRetry(r, f) /\ ~aborted[r]
    BY <1>0, <1>2, <2>4 DEF Caught, TypeOK
  <2> QED
    BY <2>1, <2>2, <2>3, <2>4
<1> QED
  BY <1>1, <1>2

\* A failure outside of it is an abort, or of a body read after the loop.
LEMMA ThrowSpends ==
  ASSUME IInv, BudgetSpent, NEW r \in Runs, NEW f, Throw(r, f), f = "aborted" \/ ~sdk[r].bodyRetried
  PROVE  BudgetSpent'
<1>0. TypeOK /\ UNCHANGED <<sdk, idempotent, attempt>>
  BY DEF IInv, Throw
<1> SUFFICES ASSUME NEW x \in Runs, pc'[x] = "rejected", idempotent[x], failure'[x] \in sdk[x].retryable,
                    sdk[x].bodyRetried
             PROVE  attempt[x] = MaxRetries
  BY <1>0 DEF BudgetSpent
<1>1. CASE x # r
  BY <1>0, <1>1 DEF Throw, TypeOK, BudgetSpent
<1>2. CASE x = r
  BY <1>0, <1>2, AbortNotReplayed DEF Throw, TypeOK
<1> QED
  BY <1>1, <1>2

\* send begins with no failure to report but an abort.
LEMMA StartSpends ==
  ASSUME IInv, BudgetSpent, NEW r \in Runs, Start(r)
  PROVE  BudgetSpent'
<1>0. TypeOK /\ UNCHANGED <<sdk, attempt>>
  BY DEF IInv, Start
<1> SUFFICES ASSUME NEW x \in Runs, pc'[x] = "rejected", idempotent'[x], failure'[x] \in sdk[x].retryable,
                    sdk[x].bodyRetried
             PROVE  attempt[x] = MaxRetries
  BY <1>0 DEF BudgetSpent
<1>1. CASE x # r
  BY <1>0, <1>1 DEF Start, TypeOK, BudgetSpent
<1>2. CASE x = r
  BY <1>0, <1>2, AbortNotReplayed DEF Start, TypeOK
<1> QED
  BY <1>1, <1>2

\* Through an SDK that reads the body inside the loop, a replayable failure of
\* an idempotent call reaches the caller of send only once every retry has
\* been made, for any budget.
THEOREM BudgetIsSpent == Spec => []BudgetSpent
<1>1. Init => BudgetSpent
  BY DEF Init, BudgetSpent
<1>2. ASSUME IInv, BudgetSpent, [Next]_vars PROVE BudgetSpent'
  <2>0. TypeOK
    BY <1>2 DEF IInv
  <2>1. CASE UNCHANGED vars
    BY <1>2, <2>1 DEF vars, BudgetSpent
  <2>2. ASSUME NEW r \in Runs, Start(r) PROVE BudgetSpent'
    BY <1>2, <2>2, StartSpends
  <2>3. ASSUME NEW r \in Runs, Abort(r) PROVE BudgetSpent'
    <3>1. CASE AbortReaches(r)
      BY <1>2, <2>3, <3>1, ThrowSpends DEF Abort
    <3>2. CASE ~AbortReaches(r)
      BY <1>2, <2>3, <3>2 DEF Abort, BudgetSpent
    <3> QED
      BY <3>1, <3>2
  <2>4. ASSUME NEW r \in Runs, Deadline(r) \/ ConnectFails(r) \/ Reset(r) PROVE BudgetSpent'
    BY <1>2, <2>4, CaughtSpends DEF Deadline, ConnectFails, Reset
  <2>5. ASSUME NEW r \in Runs, Headers(r) PROVE BudgetSpent'
    BY <1>2, <2>0, <2>5 DEF Headers, TypeOK, BudgetSpent
  <2>6. ASSUME NEW r \in Runs, Body(r) PROVE BudgetSpent'
    <3>1. CASE verdict[r] = "ok"
      BY <1>2, <2>0, <2>6, <3>1 DEF Body, TypeOK, BudgetSpent
    <3>2. CASE verdict[r] # "ok"
      BY <1>2, <2>6, <3>2, CaughtSpends DEF Body
    <3> QED
      BY <3>1, <3>2
  <2>7. ASSUME NEW r \in Runs, NEW f, BodyFails(r, f) PROVE BudgetSpent'
    BY <1>2, <2>7, CaughtSpends, ThrowSpends DEF BodyFails
  <2>8. ASSUME NEW r \in Runs, Wake(r) PROVE BudgetSpent'
    BY <1>2, <2>0, <2>8 DEF Wake, TypeOK, BudgetSpent
  <2>9. ASSUME NEW r \in Runs, Environment(r) PROVE BudgetSpent'
    BY <1>2, <2>9 DEF Environment, Trickle, Serve, Lose, BudgetSpent
  <2> QED
    BY <1>2, <2>1, <2>2, <2>3, <2>4, <2>5, <2>6, <2>7, <2>8, <2>9
       DEF Next, Call, BodyBreaks, BodyDeadline
<1> QED
  BY <1>1, <1>2, Invariance, PTL DEF Spec

-----------------------------------------------------------------------------
(* Refinement of LogicalCall *)

\* No call has been made, in the abstract either.
LEMMA RefineInit == Init => LC!CallInit
  BY DEF Init, LC!CallInit, outcomeOf

\* The catch block: giving up, being denied, or another attempt that the
\* caller does not see.
LEMMA RefineCaught ==
  ASSUME NEW r \in Runs, NEW f \in Failures \cup {"none"}, IInv,
         pc[r] \in {"waiting", "body"}, Caught(r, f),
         f = "denied" => idempotent[r] \/ applied[r] = {}
  PROVE  LC!GiveUp(r) \/ LC!Deny(r) \/ UNCHANGED LC!callVars
<1>0. pc \in [Runs -> {"idle", "waiting", "body", "sleeping"} \cup Settled]
      /\ failure \in [Runs -> Failures \cup {"none"}]
  BY DEF IInv, TypeOK
<1>1. UNCHANGED <<idempotent, applied>>
  BY DEF Caught
<1>2. CASE pc' = [pc EXCEPT ![r] = "sleeping"] /\ UNCHANGED failure
  <2>1. \A x \in Runs : outcomeOf(x)' = outcomeOf(x)
    BY <1>0, <1>2 DEF outcomeOf
  <2> QED
    BY <1>1, <2>1 DEF LC!callVars
<1>3. ASSUME NEW g \in {f, "aborted"}, pc' = [pc EXCEPT ![r] = "rejected"],
             failure' = [failure EXCEPT ![r] = g]
      PROVE  LC!GiveUp(r) \/ LC!Deny(r)
  <2>1. outcomeOf(r) = "pending"
    BY DEF outcomeOf
  <2>2. outcomeOf(r)' = IF g = "denied" THEN "denied" ELSE "failed"
    BY <1>0, <1>3 DEF outcomeOf
  <2>3. \A x \in Runs : x # r => outcomeOf(x)' = outcomeOf(x)
    BY <1>0, <1>3 DEF outcomeOf
  <2> QED
    BY <1>1, <1>3, <2>1, <2>2, <2>3 DEF LC!GiveUp, LC!Deny
<1> QED
  BY <1>2, <1>3 DEF Caught

\* A failure outside the catch block is the end of the call.
LEMMA RefineThrow ==
  ASSUME NEW r \in Runs, NEW f \in Failures \ {"denied"}, IInv,
         pc[r] \in {"waiting", "body", "sleeping"}, Throw(r, f)
  PROVE  LC!GiveUp(r)
<1>0. pc \in [Runs -> {"idle", "waiting", "body", "sleeping"} \cup Settled]
      /\ failure \in [Runs -> Failures \cup {"none"}]
  BY DEF IInv, TypeOK
<1>1. outcomeOf(r) = "pending"
  BY DEF outcomeOf
<1>2. outcomeOf(r)' = "failed"
  BY <1>0 DEF outcomeOf, Throw
<1>3. \A x \in Runs : x # r => outcomeOf(x)' = outcomeOf(x)
  BY <1>0 DEF outcomeOf, Throw
<1> QED
  BY <1>1, <1>2, <1>3 DEF LC!GiveUp, Throw

\* Only a call that is idempotent, or was not performed, is ever denied.
LEMMA DeniedUnperformed ==
  ASSUME NEW r \in Runs, IInv, pc[r] = "body", verdict[r] = "denied", ~idempotent[r]
  PROVE  applied[r] = {}
<1>1. attempt[r] = 0 /\ attempt[r] \notin applied[r] /\ applied[r] \subseteq Attempts
  BY DEF IInv, TypeOK, LoopInv, AnswerInv
<1>2. \A n \in applied[r] : n <= attempt[r]
  BY <1>1 DEF IInv, SentInv
<1> QED
  BY <1>1, <1>2, MaxRetriesAssumption DEF Attempts

\* send begins the abstract call.
LEMMA RefineStart ==
  ASSUME NEW r \in Runs, IInv, Start(r)
  PROVE  LC!Begin(r)
<1>0. /\ pc \in [Runs -> {"idle", "waiting", "body", "sleeping"} \cup Settled]
      /\ failure \in [Runs -> Failures \cup {"none"}]
      /\ idempotent \in [Runs -> BOOLEAN]
  BY DEF IInv, TypeOK
<1>1. outcomeOf(r) = "none"
  BY DEF outcomeOf, Start
<1>2. outcomeOf(r)' \in {"pending", "failed"}
  BY <1>0 DEF outcomeOf, Start
<1>3. \A x \in Runs : x # r => outcomeOf(x)' = outcomeOf(x)
  BY <1>0 DEF outcomeOf, Start
<1>4. \E b \in BOOLEAN : idempotent' = [idempotent EXCEPT ![r] = b]
  BY DEF Start
<1>5. UNCHANGED applied
  BY DEF Start
<1> QED
  BY <1>1, <1>2, <1>3, <1>4, <1>5 DEF LC!Begin

\* An attempt is performed when the abstract call may be: late, but never
\* a second time unless the call is replayable.
LEMMA RefineServe ==
  ASSUME NEW r \in Runs, NEW n \in Attempts, IInv, Serve(r, n)
  PROVE  LC!Perform(r) \/ UNCHANGED LC!callVars
<1>0. /\ \A x \in Runs : outcomeOf(x)' = outcomeOf(x)
      /\ UNCHANGED idempotent
  BY DEF Serve, outcomeOf
<1>1. CASE UNCHANGED applied
  BY <1>0, <1>1 DEF LC!callVars
<1>2. CASE applied' = [applied EXCEPT ![r] = @ \cup {n}]
  <2>1. n \in requests[r] /\ n <= attempt[r] /\ pc[r] # "idle" /\ n \notin applied[r]
    BY DEF Serve, IInv, SentInv
  <2>2. outcomeOf(r) # "none"
    BY <2>1 DEF outcomeOf
  <2>3. ASSUME ~idempotent[r] PROVE applied[r] = {} /\ outcomeOf(r) # "denied"
    <3>1. attempt[r] = 0 /\ n = 0 /\ applied[r] \subseteq Attempts
      BY <2>1, <2>3, MaxRetriesAssumption DEF IInv, TypeOK, LoopInv, Attempts
    <3>2. \A m \in applied[r] : m <= attempt[r]
      BY <3>1 DEF IInv, SentInv
    <3>3. applied[r] = {}
      BY <2>1, <3>1, <3>2, MaxRetriesAssumption DEF Attempts
    <3>4. ~(pc[r] = "rejected" /\ failure[r] = "denied")
      BY <2>1, <3>1 DEF IInv, AnswerInv
    <3> QED
      BY <3>3, <3>4 DEF outcomeOf
  <2> QED
    BY <1>0, <1>2, <2>2, <2>3 DEF LC!Perform
<1> QED
  BY <1>1, <1>2 DEF Serve

\* Headers, waking up, slow answers and losing messages change nothing the
\* caller sees.
LEMMA RefineStutter ==
  ASSUME NEW r \in Runs, IInv,
         Headers(r) \/ Wake(r) \/ Trickle(r) \/ (\E n \in Attempts : Lose(r, n))
  PROVE  UNCHANGED LC!callVars
<1>0. /\ pc \in [Runs -> {"idle", "waiting", "body", "sleeping"} \cup Settled]
      /\ failure \in [Runs -> Failures \cup {"none"}]
  BY DEF IInv, TypeOK
<1>1. \A x \in Runs : outcomeOf(x)' = outcomeOf(x)
  BY <1>0 DEF Headers, Wake, Trickle, Lose, outcomeOf
<1> QED
  BY <1>1 DEF Headers, Wake, Trickle, Lose, LC!callVars

\* A complete body settles the call or costs an attempt.
LEMMA RefineBody ==
  ASSUME NEW r \in Runs, IInv, Body(r)
  PROVE  LC!Succeed(r) \/ LC!GiveUp(r) \/ LC!Deny(r) \/ UNCHANGED LC!callVars
<1>0. /\ pc \in [Runs -> {"idle", "waiting", "body", "sleeping"} \cup Settled]
      /\ verdict[r] \in Verdicts \cup {"none"}
  BY DEF IInv, TypeOK
<1>1. CASE verdict[r] = "ok"
  <2>1. pc' = [pc EXCEPT ![r] = "resolved"] /\ UNCHANGED <<failure, idempotent, applied>>
    BY <1>1 DEF Body
  <2>2. outcomeOf(r) = "pending" /\ outcomeOf(r)' = "ok"
    BY <1>0, <2>1 DEF Body, outcomeOf
  <2>3. \A x \in Runs : x # r => outcomeOf(x)' = outcomeOf(x)
    BY <1>0, <2>1 DEF outcomeOf
  <2>4. applied[r] # {}
    BY <1>1 DEF Body, IInv, AnswerInv
  <2> QED
    BY <2>1, <2>2, <2>3, <2>4 DEF LC!Succeed
<1>2. CASE verdict[r] # "ok"
  <2>1. Caught(r, verdict[r]) /\ pc[r] = "body"
    BY <1>2 DEF Body
  <2>2. verdict[r] \in Failures \cup {"none"}
    BY <1>0, <1>2 DEF Verdicts, Failures
  <2> QED
    BY <2>1, <2>2, RefineCaught, DeniedUnperformed
<1> QED
  BY <1>1, <1>2

\* A broken body never makes a success.
LEMMA RefineBodyFails ==
  ASSUME NEW r \in Runs, NEW f \in Failures \ {"denied"}, IInv, BodyFails(r, f)
  PROVE  LC!GiveUp(r) \/ LC!Deny(r) \/ UNCHANGED LC!callVars
<1>0. pc[r] = "body" /\ verdict[r] \in Verdicts \cup {"none"}
  BY DEF BodyFails, IInv, TypeOK
<1>1. CASE Caught(r, f)
  BY <1>0, <1>1, RefineCaught
<1>2. CASE Throw(r, f)
  BY <1>0, <1>2, RefineThrow
<1>3. CASE Caught(r, verdict[r]) /\ verdict[r] # "ok"
  <2>1. verdict[r] \in Failures \cup {"none"}
    BY <1>0, <1>3 DEF Verdicts, Failures
  <2> QED
    BY <1>0, <1>3, <2>1, RefineCaught, DeniedUnperformed
<1> QED
  BY <1>1, <1>2, <1>3 DEF BodyFails

\* An abort fails the call it reaches, and is not seen otherwise.
LEMMA RefineAbort ==
  ASSUME NEW r \in Runs, IInv, Abort(r)
  PROVE  LC!GiveUp(r) \/ UNCHANGED LC!callVars
<1>1. CASE AbortReaches(r)
  <2>1. Throw(r, "aborted") /\ pc[r] \in {"waiting", "body", "sleeping"}
    BY <1>1 DEF Abort, AbortReaches
  <2> QED
    BY <2>1, RefineThrow DEF Failures
<1>2. CASE ~AbortReaches(r)
  BY <1>2 DEF Abort, LC!callVars, outcomeOf
<1> QED
  BY <1>1, <1>2

\* Every step of the pipeline is a step of the abstract call or a stutter.
LEMMA RefineNext == IInv /\ [Next]_vars => [LC!CallNext]_LC!callVars
<1> SUFFICES ASSUME IInv, [Next]_vars PROVE LC!CallNext \/ UNCHANGED LC!callVars
  OBVIOUS
<1>1. CASE UNCHANGED vars
  BY <1>1 DEF vars, LC!callVars, outcomeOf
<1>2. ASSUME NEW r \in Runs, Call(r) PROVE LC!CallNext \/ UNCHANGED LC!callVars
  <2>1. CASE Start(r)
    BY <2>1, RefineStart DEF LC!CallNext
  <2>2. CASE Abort(r)
    BY <2>2, RefineAbort DEF LC!CallNext
  <2>3. CASE Deadline(r) \/ ConnectFails(r) \/ Reset(r)
    <3>1. PICK f \in Failures \ {"denied"} : Caught(r, f)
      BY <2>3 DEF Deadline, ConnectFails, Reset, Failures
    <3>2. pc[r] = "waiting"
      BY <2>3 DEF Deadline, ConnectFails, Reset
    <3> QED
      BY <3>1, <3>2, RefineCaught DEF LC!CallNext
  <2>4. CASE Headers(r) \/ Wake(r)
    BY <2>4, RefineStutter
  <2>5. CASE Body(r)
    BY <2>5, RefineBody DEF LC!CallNext
  <2>6. CASE BodyBreaks(r) \/ BodyDeadline(r)
    <3>1. PICK f \in Failures \ {"denied"} : BodyFails(r, f)
      BY <2>6 DEF BodyBreaks, BodyDeadline, Failures
    <3> QED
      BY <3>1, RefineBodyFails DEF LC!CallNext
  <2> QED
    BY <1>2, <2>1, <2>2, <2>3, <2>4, <2>5, <2>6 DEF Call
<1>3. ASSUME NEW r \in Runs, Environment(r) PROVE LC!CallNext \/ UNCHANGED LC!callVars
  BY <1>3, RefineServe, RefineStutter DEF Environment, LC!CallNext
<1> QED
  BY <1>1, <1>2, <1>3 DEF Next

\* The pipeline of each SDK, with its retries, deadlines, aborts and late
\* requests, implements the abstract call of LogicalCall.
THEOREM Refinement == Spec => ImplementsLogicalCall
<1> QED
  BY RefineInit, RefineNext, Invariance, PTL DEF Spec, ImplementsLogicalCall, LC!CallSpec
=============================================================================
