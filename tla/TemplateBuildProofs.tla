------------------------ MODULE TemplateBuildProofs -------------------------
(***************************************************************************)
(* Theorems about TemplateBuild: what wait reports is true of the build,   *)
(* and wait is punctual, for any number of calls on a handle of any SDK    *)
(* and any poll interval, latency and timeouts.                            *)
(***************************************************************************)
EXTENDS TemplateBuild, TLAPS

(***************************************************************************)
(* The inductive invariant                                                 *)
(***************************************************************************)

\* The platform knows when the build ended, and a status that says so, in the
\* handle, is the build's.
BuildInv ==
  /\ build \in Terminal => finishedAt <= clock
  /\ build \notin Terminal => finishedAt = Never
  /\ info \in Terminal => build = info

\* Where a call is and what it is: refresh does not sleep, a result is there
\* once the call is done.
StageInv(c) ==
  /\ pc[c] = "idle" <=> kind[c] = "none"
  /\ pc[c] = "sleeping" => kind[c] = "wait"
  /\ pc[c] = "done" <=> result[c] # "none"
  /\ result[c] = "timeout" => kind[c] = "wait"
  /\ pc[c] # "reading" => answer[c] = "none"

\* A timer is not overrun, and was set no further ahead than its interval.
TimerInv(c) ==
  /\ pc[c] = "reading" => since[c] <= clock /\ clock <= since[c] + Latency
  /\ pc[c] = "sleeping" => clock <= since[c] /\ since[c] <= clock + Poll

\* An answer says that the build is over only if it ended that way, and that
\* it is not only if it had not ended when the read began.
ReadInv(c) ==
  pc[c] = "reading" /\ answer[c] # "none" =>
    IF answer[c] \in Terminal THEN build = answer[c] ELSE since[c] <= finishedAt

\* How far the present turn of the loop may be behind the deadline, and behind
\* the end of the build: it began with a read or, in Rust and Python, with the
\* handle's representation.
TurnInv(c) ==
  /\ kind[c] = "wait" => began[c] <= deadline[c] /\ began[c] <= clock
  /\ kind[c] = "wait" /\ pc[c] \in {"reading", "sleeping"} =>
       /\ since[c] <= deadline[c] + Poll
       /\ \/ since[c] <= finishedAt + Latency + Poll
          \/ since[c] <= began[c] + Poll

\* A signal that has fired leaves a call no more than the rest of its read and
\* a sleep, and only where it is a signal that is listened to.
SignalInv(c) ==
  /\ pc[c] = "idle" => abortedAt[c] = Never
  /\ pc[c] \in {"reading", "sleeping"} /\ abortedAt[c] # Never => ~sdk.interrupts
  /\ pc[c] = "reading" => since[c] <= abortedAt[c]
  /\ pc[c] = "sleeping" => since[c] <= abortedAt[c] + Latency + Poll

\* What a wait has reported.
ReportInv(c) ==
  kind[c] = "wait" =>
    /\ result[c] \in Statuses => result[c] \in Terminal /\ build = result[c]
    /\ result[c] = "timeout" /\ (sdk.readsFirst \/ deadline[c] # began[c]) =>
         clock >= deadline[c] /\ finishedAt + Latency >= deadline[c]

CallInv(c) ==
  /\ StageInv(c) /\ TimerInv(c) /\ ReadInv(c) /\ TurnInv(c) /\ SignalInv(c) /\ ReportInv(c)

IInv == TypeOK /\ BuildInv /\ \A c \in Calls : CallInv(c)

-----------------------------------------------------------------------------
(* Arithmetic of the bounds, and what a step on one call leaves alone *)

LEMMA NeverIsLate ==
  /\ Never \in Nat /\ Horizon < Never
  /\ \A t \in Timeouts : t \in Nat /\ (t # Never => t <= Horizon)
BY BoundsAssumption DEF Never

LEMMA ClockIsTime == TypeOK => clock \in Times
BY BoundsAssumption, NeverIsLate DEF TypeOK, Times

\* A call that a step does not touch keeps its part of the invariant.
LEMMA Frame ==
  ASSUME NEW c \in Calls, CallInv(c),
         kind'[c] = kind[c], pc'[c] = pc[c], since'[c] = since[c], began'[c] = began[c],
         deadline'[c] = deadline[c], answer'[c] = answer[c], abortedAt'[c] = abortedAt[c],
         result'[c] = result[c],
         UNCHANGED <<clock, build, finishedAt, sdk>>
  PROVE  CallInv(c)'
BY DEF CallInv, StageInv, TimerInv, ReadInv, TurnInv, SignalInv, ReportInv

\* The fields of a call, read off the functions.
LEMMA CallTypes ==
  ASSUME TypeOK, NEW c \in Calls
  PROVE  /\ clock \in Nat /\ clock <= Horizon /\ finishedAt \in Nat /\ finishedAt <= Never
         /\ since[c] \in Nat /\ began[c] \in Nat /\ deadline[c] \in Nat
         /\ abortedAt[c] \in Nat /\ abortedAt[c] <= Never
         /\ kind[c] \in {"none", "wait", "refresh"}
         /\ pc[c] \in {"idle", "reading", "sleeping", "done"}
         /\ answer[c] \in Statuses \cup {"none"}
         /\ result[c] \in Statuses \cup {"none", "timeout", "error"}
BY NeverIsLate, BoundsAssumption DEF TypeOK, Times

LEMMA InitInv == Init => IInv
<1> SUFFICES ASSUME Init PROVE IInv
    OBVIOUS
<1>1. TypeOK
  BY NeverIsLate, BoundsAssumption, HandlesAssumption DEF Init, TypeOK, Times, Statuses
<1>2. BuildInv
  BY DEF Init, BuildInv, Terminal
<1>3. ASSUME NEW c \in Calls PROVE CallInv(c)
  BY NeverIsLate, BoundsAssumption
     DEF Init, CallInv, StageInv, TimerInv, ReadInv, TurnInv, SignalInv, ReportInv, Statuses, Terminal
<1> QED
  BY <1>1, <1>2, <1>3 DEF IInv

-----------------------------------------------------------------------------
(* One lemma per action *)

\* The steps of a call that leave the platform alone: the invariant of that
\* call and of the handle is all there is to show.
LEMMA OneCall ==
  ASSUME IInv, NEW c \in Calls, TypeOK', CallInv(c)',
         info' \in Terminal => build = info',
         UNCHANGED <<clock, build, finishedAt, sdk>>,
         \A d \in Calls \ {c} :
           /\ kind'[d] = kind[d] /\ pc'[d] = pc[d] /\ since'[d] = since[d]
           /\ began'[d] = began[d] /\ deadline'[d] = deadline[d] /\ answer'[d] = answer[d]
           /\ abortedAt'[d] = abortedAt[d] /\ result'[d] = result[d]
  PROVE  IInv'
<1>1. ASSUME NEW d \in Calls PROVE CallInv(d)'
  <2>1. CASE d = c
    BY <2>1
  <2>2. CASE d # c
    BY <2>2, Frame DEF IInv
  <2> QED
    BY <2>1, <2>2
<1>2. BuildInv'
  BY DEF IInv, BuildInv
<1> QED
  BY <1>1, <1>2 DEF IInv

\* A turn of the loop on a status that is true of the build (or was, when the
\* read in progress began).
LEMMA LookTells ==
  ASSUME IInv, NEW c \in Calls, NEW status \in Statuses, NEW limit \in Nat,
         Look(c, status, limit),
         UNCHANGED <<clock, build, finishedAt, sdk>>,
         kind' = [kind EXCEPT ![c] = "wait"],
         deadline' = [deadline EXCEPT ![c] = limit],
         began'[c] \in Nat, began'[c] <= limit, began'[c] <= clock,
         abortedAt' = abortedAt, clock <= abortedAt[c] + Latency,
         abortedAt[c] # Never => ~sdk.interrupts,
         result[c] = "none",
         status \in Terminal => build = status,
         status \notin Terminal =>
           \/ clock <= finishedAt + Latency
           \/ began'[c] = clock /\ ~sdk.readsFirst
  PROVE  CallInv(c)'
<1> USE DEF TypeOK
<1>0. kind'[c] = "wait" /\ deadline'[c] = limit
  BY DEF IInv
<1>1. CASE status \in Terminal
  <2>1. pc'[c] = "done" /\ result'[c] = status /\ answer'[c] = "none"
    BY <1>1 DEF Look, Return, IInv
  <2> QED
    BY <1>0, <1>1, <2>1, CallTypes
       DEF IInv, CallInv, StageInv, TimerInv, ReadInv, TurnInv, SignalInv, ReportInv, Statuses, Terminal
<1>2. CASE status \notin Terminal /\ clock >= limit
  <2>1. pc'[c] = "done" /\ result'[c] = "timeout" /\ answer'[c] = "none"
    BY <1>2 DEF Look, Return, IInv
  <2>2. clock \in Nat /\ finishedAt \in Nat /\ Latency \in Nat
    BY CallTypes, BoundsAssumption DEF IInv
  <2>3. StageInv(c)' /\ TimerInv(c)' /\ ReadInv(c)' /\ SignalInv(c)'
    BY <1>0, <2>1 DEF StageInv, TimerInv, ReadInv, SignalInv
  <2>4. TurnInv(c)'
    BY <1>0, <2>1 DEF TurnInv
  <2>5. clock >= limit /\ ((sdk.readsFirst \/ limit # began'[c]) => finishedAt + Latency >= limit)
    BY <1>2, <2>2
  <2>6. ReportInv(c)'
    BY <1>0, <2>1, <2>5 DEF ReportInv, Statuses, Terminal
  <2> QED
    BY <2>3, <2>4, <2>6 DEF CallInv
<1>3. CASE status \notin Terminal /\ ~(clock >= limit)
  <2>1. pc'[c] = "sleeping" /\ since'[c] = clock + Poll /\ answer'[c] = "none" /\ result'[c] = "none"
    BY <1>3 DEF Look, Sleep, IInv
  <2> QED
    BY <1>0, <1>3, <2>1, CallTypes, BoundsAssumption, NeverIsLate
       DEF IInv, CallInv, StageInv, TimerInv, ReadInv, TurnInv, SignalInv, ReportInv, Statuses, Terminal
<1> QED
  BY <1>1, <1>2, <1>3

\* Every way a turn ends keeps the types.
LEMMA StepTypes ==
  ASSUME TypeOK, NEW c \in Calls
  PROVE  /\ Read(c) =>
              /\ pc' \in [Calls -> {"idle", "reading", "sleeping", "done"}]
              /\ since' \in [Calls -> Nat]
              /\ answer' \in [Calls -> Statuses \cup {"none"}]
              /\ result' \in [Calls -> Statuses \cup {"none", "timeout", "error"}]
         /\ \A r \in Statuses \cup {"timeout", "error"} : Return(c, r) =>
              /\ pc' \in [Calls -> {"idle", "reading", "sleeping", "done"}]
              /\ since' \in [Calls -> Nat]
              /\ answer' \in [Calls -> Statuses \cup {"none"}]
              /\ result' \in [Calls -> Statuses \cup {"none", "timeout", "error"}]
         /\ \A status \in Statuses, limit \in Nat : Look(c, status, limit) =>
              /\ pc' \in [Calls -> {"idle", "reading", "sleeping", "done"}]
              /\ since' \in [Calls -> Nat]
              /\ answer' \in [Calls -> Statuses \cup {"none"}]
              /\ result' \in [Calls -> Statuses \cup {"none", "timeout", "error"}]
BY CallTypes, BoundsAssumption DEF TypeOK, Read, Return, Look, Sleep

\* And touches no other call.
LEMMA StepLocal ==
  ASSUME NEW c \in Calls, NEW status, NEW limit, NEW r,
         Read(c) \/ Return(c, r) \/ Look(c, status, limit), TypeOK
  PROVE  \A d \in Calls \ {c} :
           pc'[d] = pc[d] /\ since'[d] = since[d] /\ answer'[d] = answer[d] /\ result'[d] = result[d]
BY DEF Read, Return, Look, Sleep, TypeOK

LEMMA WaitInv ==
  ASSUME IInv, NEW c \in Calls, NEW t \in Timeouts, wait(c, t)
  PROVE  IInv'
<1> DEFINE limit == IF t = Never THEN Never + Never ELSE clock + t
<1>0. TypeOK /\ StageInv(c) /\ SignalInv(c) /\ pc[c] = "idle" /\ BuildInv
  BY DEF IInv, CallInv, wait
<1>1. limit \in Nat /\ clock <= limit
  BY <1>0, CallTypes, NeverIsLate, BoundsAssumption
<1>2. /\ kind' = [kind EXCEPT ![c] = "wait"]
      /\ began' = [began EXCEPT ![c] = clock]
      /\ deadline' = [deadline EXCEPT ![c] = limit]
      /\ IF sdk.readsFirst THEN Read(c) ELSE Look(c, info, limit)
      /\ UNCHANGED <<clock, build, finishedAt, sdk, info, abortedAt>>
  BY DEF wait
<1> HIDE DEF limit
<1>3. info \in Statuses
  BY <1>0 DEF TypeOK
<1>4. TypeOK'
  <2>1. /\ pc' \in [Calls -> {"idle", "reading", "sleeping", "done"}]
        /\ since' \in [Calls -> Nat]
        /\ answer' \in [Calls -> Statuses \cup {"none"}]
        /\ result' \in [Calls -> Statuses \cup {"none", "timeout", "error"}]
    BY <1>0, <1>1, <1>2, <1>3, StepTypes
  <2> QED
    BY <1>0, <1>1, <1>2, <2>1, ClockIsTime DEF TypeOK
<1>5. began'[c] = clock /\ deadline'[c] = limit /\ kind'[c] = "wait" /\ abortedAt[c] = Never /\ result[c] = "none"
  BY <1>0, <1>2 DEF TypeOK, StageInv, SignalInv
<1>6. CallInv(c)'
  <2>1. CASE sdk.readsFirst
    <3>1. pc'[c] = "reading" /\ since'[c] = clock /\ answer'[c] = "none" /\ result'[c] = "none"
      BY <1>0, <1>2, <1>5, <2>1 DEF Read, TypeOK
    <3> QED
      BY <1>0, <1>1, <1>2, <1>5, <3>1, CallTypes, BoundsAssumption, NeverIsLate
         DEF CallInv, StageInv, TimerInv, ReadInv, TurnInv, SignalInv, ReportInv, Statuses, Terminal
  <2>2. CASE ~sdk.readsFirst
    <3>1. /\ began'[c] \in Nat /\ began'[c] <= limit /\ began'[c] <= clock
          /\ clock <= abortedAt[c] + Latency
      BY <1>0, <1>1, <1>5, CallTypes, NeverIsLate, BoundsAssumption
    <3>2. Look(c, info, limit) /\ UNCHANGED <<clock, build, finishedAt, sdk>> /\ abortedAt' = abortedAt
      BY <1>2, <2>2
    <3>3. info \in Terminal => build = info
      BY <1>0 DEF BuildInv
    <3> QED
      BY <1>1, <1>2, <1>3, <1>5, <2>2, <3>1, <3>2, <3>3, LookTells
  <2> QED
    BY <2>1, <2>2
<1>7. \A d \in Calls \ {c} :
        /\ kind'[d] = kind[d] /\ began'[d] = began[d] /\ deadline'[d] = deadline[d]
        /\ pc'[d] = pc[d] /\ since'[d] = since[d] /\ answer'[d] = answer[d] /\ result'[d] = result[d]
  BY <1>0, <1>2, StepLocal DEF TypeOK
<1> QED
  BY <1>0, <1>2, <1>4, <1>6, <1>7, OneCall DEF BuildInv

LEMMA RefreshInv ==
  ASSUME IInv, NEW c \in Calls, refresh(c)
  PROVE  IInv'
<1>0. TypeOK /\ StageInv(c) /\ SignalInv(c) /\ pc[c] = "idle" /\ BuildInv
  BY DEF IInv, CallInv, refresh
<1>1. /\ kind' = [kind EXCEPT ![c] = "refresh"] /\ Read(c)
      /\ UNCHANGED <<clock, build, finishedAt, sdk, info, began, deadline, abortedAt>>
  BY DEF refresh
<1>2. TypeOK'
  BY <1>0, <1>1, StepTypes DEF TypeOK
<1>3. /\ kind'[c] = "refresh" /\ pc'[c] = "reading" /\ since'[c] = clock
      /\ answer'[c] = "none" /\ result'[c] = "none" /\ abortedAt[c] = Never
  BY <1>0, <1>1 DEF Read, TypeOK, StageInv, SignalInv
<1>4. CallInv(c)'
  BY <1>0, <1>1, <1>3, CallTypes, BoundsAssumption, NeverIsLate
     DEF CallInv, StageInv, TimerInv, ReadInv, TurnInv, SignalInv, ReportInv
<1>5. \A d \in Calls \ {c} :
        /\ kind'[d] = kind[d]
        /\ pc'[d] = pc[d] /\ since'[d] = since[d] /\ answer'[d] = answer[d] /\ result'[d] = result[d]
  BY <1>0, <1>1, StepLocal DEF TypeOK
<1> QED
  BY <1>0, <1>1, <1>2, <1>4, <1>5, OneCall DEF BuildInv

\* A call that ends with an error, whatever it was doing.
LEMMA ErrorInv ==
  ASSUME IInv, NEW c \in Calls, pc[c] \in {"reading", "sleeping"}, Return(c, "error"),
         UNCHANGED <<clock, build, finishedAt, sdk, info, kind, began, deadline>>,
         abortedAt' \in [Calls -> Times],
         \A d \in Calls \ {c} : abortedAt'[d] = abortedAt[d]
  PROVE  IInv'
<1>0. TypeOK /\ StageInv(c) /\ TurnInv(c) /\ BuildInv
  BY DEF IInv, CallInv
<1>1. TypeOK'
  BY <1>0, StepTypes DEF TypeOK
<1>2. pc'[c] = "done" /\ result'[c] = "error" /\ answer'[c] = "none"
  BY <1>0 DEF Return, TypeOK
<1>3. CallInv(c)'
  BY <1>0, <1>2, CallTypes
     DEF CallInv, StageInv, TimerInv, ReadInv, TurnInv, SignalInv, ReportInv, Statuses, Terminal
<1>4. \A d \in Calls \ {c} :
        pc'[d] = pc[d] /\ since'[d] = since[d] /\ answer'[d] = answer[d] /\ result'[d] = result[d]
  BY <1>0, StepLocal
<1> QED
  BY <1>0, <1>1, <1>3, <1>4, OneCall DEF BuildInv

LEMMA RefreshReturnsInv ==
  ASSUME IInv, NEW c \in Calls, RefreshReturns(c)
  PROVE  IInv'
<1>0. /\ TypeOK /\ CallInv(c) /\ BuildInv
      /\ pc[c] = "reading" /\ answer[c] # "none" /\ answer[c] \in Statuses
  BY CallTypes DEF IInv, RefreshReturns
<1>1. /\ info' = answer[c]
      /\ IF kind[c] = "wait" THEN Look(c, answer[c], deadline[c]) ELSE Return(c, answer[c])
      /\ UNCHANGED <<clock, build, finishedAt, sdk, kind, began, deadline, abortedAt>>
  BY DEF RefreshReturns
<1>2. TypeOK'
  <2>1. /\ pc' \in [Calls -> {"idle", "reading", "sleeping", "done"}]
        /\ since' \in [Calls -> Nat]
        /\ answer' \in [Calls -> Statuses \cup {"none"}]
        /\ result' \in [Calls -> Statuses \cup {"none", "timeout", "error"}]
    BY <1>0, <1>1, StepTypes, CallTypes
  <2> QED
    BY <1>0, <1>1, <2>1 DEF TypeOK
<1>3. CallInv(c)'
  <2>1. CASE kind[c] = "wait"
    <3>1. kind' = [kind EXCEPT ![c] = "wait"] /\ deadline' = [deadline EXCEPT ![c] = deadline[c]]
      BY <1>0, <1>1, <2>1 DEF TypeOK
    <3>2. /\ deadline[c] \in Nat /\ began'[c] \in Nat /\ began'[c] <= deadline[c] /\ began'[c] <= clock
          /\ result[c] = "none" /\ (abortedAt[c] # Never => ~sdk.interrupts)
      BY <1>0, <1>1, <2>1, CallTypes DEF CallInv, StageInv, TurnInv, SignalInv
    <3>4. clock <= abortedAt[c] + Latency
      BY <1>0, CallTypes, BoundsAssumption DEF CallInv, TimerInv, SignalInv
    <3>3. /\ answer[c] \in Terminal => build = answer[c]
          /\ answer[c] \notin Terminal => clock <= finishedAt + Latency
      BY <1>0, CallTypes, BoundsAssumption DEF CallInv, ReadInv, TimerInv
    <3> QED
      BY <1>0, <1>1, <2>1, <3>1, <3>2, <3>3, <3>4, LookTells
  <2>2. CASE kind[c] # "wait"
    <3>1. pc'[c] = "done" /\ result'[c] = answer[c] /\ answer'[c] = "none"
      BY <1>0, <1>1, <2>2 DEF Return, TypeOK
    <3> QED
      BY <1>0, <1>1, <2>2, <3>1
         DEF CallInv, StageInv, TimerInv, ReadInv, TurnInv, SignalInv, ReportInv, Statuses, Terminal
  <2> QED
    BY <2>1, <2>2
<1>4. \A d \in Calls \ {c} :
        pc'[d] = pc[d] /\ since'[d] = since[d] /\ answer'[d] = answer[d] /\ result'[d] = result[d]
  BY <1>0, <1>1, StepLocal
<1>5. info' \in Terminal => build = info'
  BY <1>0, <1>1 DEF CallInv, ReadInv
<1> QED
  BY <1>1, <1>2, <1>3, <1>4, <1>5, OneCall

LEMMA RefreshFailsInv ==
  ASSUME IInv, NEW c \in Calls, RefreshFails(c)
  PROVE  IInv'
BY ErrorInv DEF RefreshFails, IInv, TypeOK

LEMMA WakeInv ==
  ASSUME IInv, NEW c \in Calls, Wake(c)
  PROVE  IInv'
<1>0. /\ TypeOK /\ CallInv(c) /\ BuildInv /\ pc[c] = "sleeping" /\ clock >= since[c]
      /\ UNCHANGED <<clock, build, finishedAt, sdk, info, kind, began, deadline, abortedAt>>
  BY DEF IInv, Wake
<1>1. CASE abortedAt[c] # Never
  BY <1>0, <1>1, ErrorInv DEF Wake, TypeOK
<1>2. CASE abortedAt[c] = Never
  <2>0. Read(c)
    BY <1>2 DEF Wake
  <2>1. TypeOK'
    BY <1>0, <2>0, StepTypes DEF TypeOK
  <2>2. /\ pc'[c] = "reading" /\ since'[c] = clock /\ answer'[c] = "none" /\ result'[c] = result[c]
        /\ since[c] = clock
    BY <1>0, <2>0, CallTypes DEF Read, TypeOK, CallInv, TimerInv
  <2>3. CallInv(c)'
    BY <1>0, <1>2, <2>2, CallTypes, BoundsAssumption, NeverIsLate
       DEF CallInv, StageInv, TimerInv, ReadInv, TurnInv, SignalInv, ReportInv
  <2>4. \A d \in Calls \ {c} :
          pc'[d] = pc[d] /\ since'[d] = since[d] /\ answer'[d] = answer[d] /\ result'[d] = result[d]
    BY <1>0, <2>0, StepLocal
  <2> QED
    BY <1>0, <2>1, <2>3, <2>4, OneCall DEF BuildInv
<1> QED
  BY <1>1, <1>2

LEMMA AbortInv ==
  ASSUME IInv, NEW c \in Calls, Abort(c)
  PROVE  IInv'
<1>0. /\ TypeOK /\ CallInv(c) /\ BuildInv /\ pc[c] \in {"reading", "sleeping"}
      /\ abortedAt' = [abortedAt EXCEPT ![c] = clock]
      /\ UNCHANGED <<clock, build, finishedAt, sdk, info, kind, began, deadline>>
  BY DEF IInv, Abort
<1>1. /\ abortedAt' \in [Calls -> Times] /\ abortedAt'[c] = clock
      /\ \A d \in Calls \ {c} : abortedAt'[d] = abortedAt[d]
  BY <1>0, ClockIsTime DEF TypeOK
<1>2. CASE Return(c, "error")
  BY <1>0, <1>1, <1>2, ErrorInv
<1>3. CASE UNCHANGED <<pc, since, answer, result>> /\ ~sdk.interrupts
  <2>1. TypeOK'
    BY <1>0, <1>1, <1>3 DEF TypeOK
  <2>2. StageInv(c)' /\ TimerInv(c)' /\ ReadInv(c)' /\ TurnInv(c)' /\ ReportInv(c)'
    BY <1>0, <1>3 DEF CallInv, StageInv, TimerInv, ReadInv, TurnInv, ReportInv
  <2>3. SignalInv(c)'
    <3>1. /\ pc[c] = "reading" => since[c] <= clock
          /\ pc[c] = "sleeping" => since[c] <= clock + Latency + Poll
      BY <1>0, CallTypes, BoundsAssumption DEF CallInv, TimerInv
    <3> QED
      BY <1>0, <1>1, <1>3, <3>1 DEF SignalInv
  <2> QED
    BY <1>0, <1>1, <1>3, <2>1, <2>2, <2>3, OneCall DEF BuildInv, CallInv
<1> QED
  BY <1>2, <1>3 DEF Abort

LEMMA ServeInv ==
  ASSUME IInv, NEW c \in Calls, Serve(c)
  PROVE  IInv'
<1>0. /\ TypeOK /\ CallInv(c) /\ BuildInv /\ pc[c] = "reading"
      /\ answer' = [answer EXCEPT ![c] = build]
      /\ UNCHANGED <<clock, build, finishedAt, sdk, info, kind, pc, since, began, deadline, abortedAt, result>>
  BY DEF IInv, Serve
<1>1. TypeOK' /\ answer'[c] = build
  BY <1>0 DEF TypeOK
<1>2. CallInv(c)'
  <2>1. build \notin Terminal => since[c] <= finishedAt
    BY <1>0, CallTypes, NeverIsLate, BoundsAssumption DEF BuildInv, CallInv, TimerInv
  <2>2. ReadInv(c)'
    BY <1>0, <1>1, <2>1 DEF ReadInv
  <2> QED
    BY <1>0, <2>2 DEF CallInv, StageInv, TimerInv, TurnInv, SignalInv, ReportInv
<1>3. \A d \in Calls \ {c} : answer'[d] = answer[d]
  BY <1>0 DEF TypeOK
<1> QED
  BY <1>0, <1>1, <1>2, <1>3, OneCall DEF BuildInv

\* The end of the build comes no earlier than anything a call has been told.
LEMMA BuildProceedsInv ==
  ASSUME IInv, BuildProceeds
  PROVE  IInv'
<1>0. /\ TypeOK /\ BuildInv /\ UNCHANGED <<clock, handle>> /\ build \notin Terminal /\ finishedAt = Never
      /\ \/ build' = "building" /\ finishedAt' = finishedAt
         \/ build' \in Terminal /\ finishedAt' = clock
  BY DEF IInv, BuildProceeds, BuildInv, Terminal
<1>1. clock \in Nat /\ clock <= Horizon /\ clock < Never
  BY <1>0, BoundsAssumption, NeverIsLate DEF TypeOK
<1>2. TypeOK'
  BY <1>0, <1>1, NeverIsLate DEF TypeOK, Times, Statuses, Terminal, handle
<1>3. BuildInv'
  BY <1>0, <1>1 DEF BuildInv, handle, Terminal
<1>4. ASSUME NEW c \in Calls PROVE CallInv(c)'
  <2>1. CallInv(c)
    BY DEF IInv
  <2>2. /\ kind'[c] = kind[c] /\ pc'[c] = pc[c] /\ since'[c] = since[c] /\ began'[c] = began[c]
        /\ deadline'[c] = deadline[c] /\ answer'[c] = answer[c] /\ abortedAt'[c] = abortedAt[c]
        /\ result'[c] = result[c] /\ sdk' = sdk /\ clock' = clock
    BY <1>0 DEF handle
  <2>3. StageInv(c)' /\ TimerInv(c)' /\ SignalInv(c)'
    BY <2>1, <2>2 DEF CallInv, StageInv, TimerInv, SignalInv
  <2>4. ReadInv(c)'
    BY <1>0, <1>1, <2>1, <2>2, CallTypes DEF CallInv, ReadInv, TimerInv, Terminal
  <2>5. TurnInv(c)'
    BY <1>0, <1>1, <2>1, <2>2, CallTypes, BoundsAssumption DEF CallInv, TurnInv, TimerInv
  <2>6. ReportInv(c)'
    BY <1>0, <1>1, <2>1, <2>2, CallTypes, BoundsAssumption DEF CallInv, ReportInv
  <2> QED
    BY <2>3, <2>4, <2>5, <2>6 DEF CallInv
<1> QED
  BY <1>2, <1>3, <1>4 DEF IInv

\* Time passes only while no timer is due.
LEMMA TickInv ==
  ASSUME IInv, Tick
  PROVE  IInv'
<1>0. /\ TypeOK /\ BuildInv /\ clock < Horizon /\ clock' = clock + 1 /\ UNCHANGED <<build, finishedAt, handle>>
      /\ clock \in Nat /\ finishedAt \in Nat
  BY BoundsAssumption, NeverIsLate DEF IInv, Tick, TypeOK, Times
<1>1. TypeOK'
  BY <1>0, BoundsAssumption DEF TypeOK, handle
<1>2. BuildInv'
  BY <1>0 DEF BuildInv, handle
<1>3. ASSUME NEW c \in Calls PROVE CallInv(c)'
  <2>1. CallInv(c)
    BY DEF IInv
  <2>2. /\ kind'[c] = kind[c] /\ pc'[c] = pc[c] /\ since'[c] = since[c] /\ began'[c] = began[c]
        /\ deadline'[c] = deadline[c] /\ answer'[c] = answer[c] /\ abortedAt'[c] = abortedAt[c]
        /\ result'[c] = result[c] /\ sdk' = sdk
    BY <1>0 DEF handle
  <2>3. StageInv(c)' /\ ReadInv(c)' /\ SignalInv(c)'
    BY <1>0, <2>1, <2>2 DEF CallInv, StageInv, ReadInv, SignalInv
  <2>4. TimerInv(c)'
    BY <1>0, <2>1, <2>2, CallTypes, BoundsAssumption DEF CallInv, TimerInv, Tick
  <2>5. TurnInv(c)' /\ ReportInv(c)'
    BY <1>0, <2>1, <2>2, CallTypes DEF CallInv, TurnInv, ReportInv
  <2> QED
    BY <2>3, <2>4, <2>5 DEF CallInv
<1> QED
  BY <1>1, <1>2, <1>3 DEF IInv

-----------------------------------------------------------------------------

LEMMA Inductive == IInv /\ [Next]_vars => IInv'
<1> SUFFICES ASSUME IInv, [Next]_vars PROVE IInv'
    OBVIOUS
<1>1. ASSUME NEW c \in Calls, Call(c) PROVE IInv'
  BY <1>1, WaitInv, RefreshInv, RefreshReturnsInv, RefreshFailsInv, WakeInv, AbortInv, ServeInv DEF Call
<1>2. CASE UNCHANGED vars
  BY <1>2
     DEF vars, handle, IInv, TypeOK, BuildInv, CallInv, StageInv, TimerInv, ReadInv, TurnInv, SignalInv, ReportInv
<1> QED
  BY <1>1, <1>2, BuildProceedsInv, TickInv DEF Next

\* The inductive invariant: every call's timers, what its read was answered
\* with and what it reported are consistent with the platform's build.
THEOREM WaitInvariant == Spec => []IInv
BY InitInv, Inductive, PTL DEF Spec

\* wait reports success or failure only of a build that ended that way,
\* whatever other calls put into the handle.
THEOREM ReportsAreTrue == Spec => []WaitTruthful
<1>1. IInv => WaitTruthful
  BY DEF IInv, CallInv, ReportInv, WaitTruthful
<1> QED
  BY <1>1, WaitInvariant, PTL

\* wait reports a timeout only of a build that had not ended by the deadline,
\* give or take the read in progress.
THEOREM TimeoutsAreTrue == Spec => []TimedOutUnfinished
<1>1. IInv => TimedOutUnfinished
  BY DEF IInv, CallInv, StageInv, ReportInv, TimedOutUnfinished
<1> QED
  BY <1>1, WaitInvariant, PTL

\* A wait overruns its deadline by one sleep and one read at most.
THEOREM OverrunIsBounded == Spec => []OverrunBounded
<1>1. ASSUME IInv, NEW c \in Calls, Waiting(c) PROVE clock <= deadline[c] + Poll + Latency
  BY <1>1, CallTypes, BoundsAssumption DEF IInv, CallInv, StageInv, TimerInv, TurnInv, Waiting
<1>2. IInv => OverrunBounded
  BY <1>1 DEF OverrunBounded
<1> QED
  BY <1>2, WaitInvariant, PTL

\* Every wait notices the end of the build within the turn in progress and
\* the next.
THEOREM EndIsNoticed == Spec => []FinishNoticed
<1>1. ASSUME IInv, NEW c \in Calls, Waiting(c)
      PROVE  \/ clock <= finishedAt + Latency + Poll + Latency
             \/ clock <= began[c] + Poll + Latency
  BY <1>1, CallTypes, BoundsAssumption DEF IInv, CallInv, StageInv, TimerInv, TurnInv, Waiting
<1>2. IInv => FinishNoticed
  BY <1>1 DEF FinishNoticed
<1> QED
  BY <1>2, WaitInvariant, PTL

\* A wait that an abort did not end at once reads no more, and ends at the
\* latest when the read in progress and one sleep are over.
THEOREM AbortIsNoticed == Spec => []AbortNoticed
<1>1. ASSUME IInv, NEW c \in Calls, Waiting(c), abortedAt[c] # Never
      PROVE  /\ ~sdk.interrupts
             /\ pc[c] = "reading" => since[c] <= abortedAt[c]
             /\ clock <= abortedAt[c] + Latency + Poll
  <2>1. pc[c] \in {"reading", "sleeping"}
    BY <1>1 DEF IInv, TypeOK, CallInv, StageInv, Waiting
  <2> QED
    BY <1>1, <2>1, CallTypes, BoundsAssumption DEF IInv, CallInv, TimerInv, SignalInv
<1>2. IInv => AbortNoticed
  BY <1>1 DEF AbortNoticed
<1> QED
  BY <1>2, WaitInvariant, PTL
=============================================================================
