--------------------------- MODULE SdkCallsProofs ---------------------------
(***************************************************************************)
(* Theorems about SdkCalls, for any number of retries, tokens, sandboxes   *)
(* and any page size.  IInv follows the requests of a call that must not   *)
(* be repeated and the tokens of a call that was denied; IterInv follows   *)
(* an iteration from page to page.  That what must not be repeated is not  *)
(* declared idempotent is read off the table of the methods, row by row.   *)
(***************************************************************************)
EXTENDS SdkCalls, FiniteSetTheorems, TLAPS

-----------------------------------------------------------------------------
(* The table of the methods *)

\* What adds up each time, or takes its own precondition away, and has no key.
NotReplayable ==
  {"sandboxes.create", "sandbox.extendDeadline", "sandbox.mintToken", "templates.build",
   "commands.run", "commands.start", "sandbox.pause", "sandbox.resume", "files.move"}

\* A table of methods that declares none of them idempotent.
Sound(table) ==
  \A m \in DOMAIN table : m # "none" /\ (m \in NotReplayable => table[m].idempotent = FALSE)

LEMMA SoundMerge ==
  ASSUME NEW f, NEW g, Sound(f), Sound(g)
  PROVE  Sound(f @@ g)
<1> SUFFICES ASSUME NEW m \in DOMAIN (f @@ g)
             PROVE  m # "none" /\ (m \in NotReplayable => (f @@ g)[m].idempotent = FALSE)
  BY DEF Sound
<1>0. f @@ g = joined(f, g)
  BY DEF @@
<1>1. m \in DOMAIN f \cup DOMAIN g /\ (f @@ g)[m] = IF m \in DOMAIN f THEN f[m] ELSE g[m]
  BY <1>0 DEF joined
<1>2. CASE m \in DOMAIN f
  BY <1>1, <1>2 DEF Sound
<1>3. CASE m \notin DOMAIN f
  BY <1>1, <1>3 DEF Sound
<1> QED
  BY <1>2, <1>3

LEMMA SoundOther ==
  ASSUME NEW m, NEW row, m # "none", m \notin NotReplayable
  PROVE  Sound(m :> row)
BY DEF Sound, :>

LEMMA SoundMethod ==
  ASSUME NEW m, m # "none", NEW path, NEW verb, NEW sends, NEW may, NEW reads
  PROVE  Sound(m :> Method(path, verb, FALSE, sends, may, reads))
BY DEF Sound, :>, Method

LEMMA SoundSends ==
  ASSUME NEW m, m # "none", NEW path, NEW verb, NEW schema
  PROVE  Sound(m :> Sends(path, verb, FALSE, schema))
BY SoundMethod DEF Sends

LEMMA Others ==
  /\ "sandbox.refresh" \notin NotReplayable /\ "sandbox.delete" \notin NotReplayable
  /\ "sandboxes.createKeyed" \notin NotReplayable /\ "sandboxes.get" \notin NotReplayable
  /\ "sandboxes.list" \notin NotReplayable /\ "sandboxes.iterate" \notin NotReplayable
  /\ "ports.list" \notin NotReplayable /\ "ports.expose" \notin NotReplayable
  /\ "ports.unexpose" \notin NotReplayable
  /\ "build.refresh" \notin NotReplayable /\ "build.logs" \notin NotReplayable
  /\ "templates.list" \notin NotReplayable /\ "templates.get" \notin NotReplayable
  /\ "templates.getBuild" \notin NotReplayable /\ "templates.delete" \notin NotReplayable
  /\ "commands.get" \notin NotReplayable /\ "commands.logs" \notin NotReplayable
  /\ "commands.listProcesses" \notin NotReplayable /\ "commands.kill" \notin NotReplayable
  /\ "files.list" \notin NotReplayable /\ "files.stat" \notin NotReplayable
  /\ "files.makeDir" \notin NotReplayable /\ "files.remove" \notin NotReplayable
  /\ "files.read" \notin NotReplayable /\ "files.write" \notin NotReplayable
BY DEF NotReplayable

LEMMA SoundTables == Sound(methods)
<1>1. Sound(lifecycleMethods) /\ Sound(credentialMethods) /\ Sound(createMethods)
  BY SoundMerge, SoundOther, SoundMethod, SoundSends, Others, Zenon
     DEF lifecycleMethods, credentialMethods, createMethods
<1>2. Sound(listMethods) /\ Sound(portMethods) /\ Sound(buildMethods)
  BY SoundMerge, SoundOther, SoundMethod, SoundSends, Others, Zenon
     DEF listMethods, portMethods, buildMethods
<1>3. Sound(templateMethods) /\ Sound(templateRecordMethods)
  BY SoundMerge, SoundOther, SoundMethod, SoundSends, Others, Zenon
     DEF templateMethods, templateRecordMethods
<1>4. Sound(commandMethods) /\ Sound(processMethods)
  BY SoundMerge, SoundOther, SoundMethod, SoundSends, Others, Zenon
     DEF commandMethods, processMethods
<1>5. Sound(treeMethods) /\ Sound(contentMethods)
  BY SoundMerge, SoundOther, SoundMethod, SoundSends, Others, Zenon
     DEF treeMethods, contentMethods
<1> QED
  BY <1>1, <1>2, <1>3, <1>4, <1>5, SoundMerge, Zenon DEF methods

LEMMA UnkeyedNotReplayable == Unkeyed \subseteq NotReplayable
BY DEF Unkeyed, effectOf, NotReplayable

-----------------------------------------------------------------------------
(***************************************************************************)
(* The inductive invariant                                                 *)
(***************************************************************************)

\* The part of the types that the argument needs.
CallTypeOK ==
  /\ issued \in Nat /\ issued >= 1 /\ valid \in Nat
  /\ call \in Names \cup {"none"}
  /\ phase \in {"first", "mint", "replay"}
  /\ wire \in {"idle", "sent", "answered"}
  /\ strays \in Nat /\ performed \in Nat

\* Before a call nothing has happened, and an attempt that is under way has
\* not come to anything.
AttemptInv ==
  /\ call = "none" => wire = "idle" /\ phase = "first" /\ strays = 0 /\ performed = 0 /\ result = "none"
  /\ wire # "idle" => result = "none"

\* What the platform answers once it has performed a request.
Done == 200..299 \cup {408, 500, 502}

\* A call that must not be repeated is in one place: it has not been performed
\* and none of its requests is astray, unless this attempt was answered by the
\* platform that performed it, or the call is over and was not refused.
OnceInv ==
  call \in Unkeyed =>
    /\ wire = "sent" => performed = 0 /\ strays = 0
    /\ wire = "answered" =>
         strays = 0 /\ performed <= 1 /\ (performed = 0 \/ (phase # "mint" /\ answer.status \in Done))
    /\ wire = "idle" =>
         performed + strays <= 1 /\ (result \in Refusals => performed = 0 /\ strays = 0)

\* The key of a create makes one create of its attempts.
KeyInv == call = "sandboxes.createKeyed" => performed <= 1

\* After a mint the request carries the handle's token, the last one issued,
\* and is only denied once that has been invalidated.
TokenInv ==
  /\ phase = "replay" => cred = handle /\ cred = issued
  /\ call # "none" /\ onAgent(call) =>
       /\ wire = "answered" /\ phase = "replay" /\ answer.status = Unauthorized => cred # valid
       /\ result = "AuthenticationError" => phase = "mint" \/ (phase = "replay" /\ cred # valid)

IInv == CallTypeOK /\ AttemptInv /\ OnceInv /\ KeyInv /\ TokenInv

-----------------------------------------------------------------------------
(* What the proofs need of the table, the contract and the errors *)

\* What must not be repeated is never retried.
LEMMA NotRetried ==
  ASSUME call \in Unkeyed, NEW status, NEW verdict
  PROVE  ~mayRetry(status, verdict)
<1>1. call \in DOMAIN methods /\ call \in NotReplayable
  BY UnkeyedNotReplayable DEF Unkeyed, Names
<1> QED
  BY <1>1, SoundTables DEF Sound, mayRetry

\* The keyed create and the iteration are not among them.
LEMMA KeyedApart ==
  /\ "sandboxes.createKeyed" \notin Unkeyed /\ "sandboxes.iterate" \notin Unkeyed
  /\ "none" \notin Unkeyed
BY UnkeyedNotReplayable DEF NotReplayable

\* What has been performed is not answered like a refusal.
LEMMA DoneIsNotRefused ==
  ASSUME NEW status
  PROVE  /\ classOf(status) \in Refusals => status \notin Done
         /\ classOf(status) = "AuthenticationError" => status = Unauthorized
         /\ Unauthorized \notin Done
BY DEF classOf, Refusals, Done, Unauthorized

\* The status of a success, of the call and of the mint.
LEMMA SuccessStatus ==
  ASSUME IInv, wire = "sent"
  PROVE  request.ok \in 200..299
<1>1. CASE phase = "mint"
  BY <1>1 DEF request, mintSandboxToken, Operation
<1>2. CASE phase # "mint"
  <2>1. call \in Names
    BY DEF IInv, CallTypeOK, AttemptInv
  <2> QED
    BY <1>2, <2>1, ShapesAgree DEF request
<1> QED
  BY <1>1, <1>2

LEMMA AnswerStatus ==
  ASSUME NEW status, NEW verdict, Answers(status, verdict)
  PROVE  wire' = "answered" /\ answer'.status = status
BY DEF Answers

LEMMA InitInv == Init => IInv
<1> SUFFICES ASSUME Init PROVE IInv
    OBVIOUS
<1> QED
  BY KeyedApart
     DEF Init, IInv, CallTypeOK, AttemptInv, OnceInv, KeyInv, TokenInv, NoAnswer, Refusals

-----------------------------------------------------------------------------
(* The caller *)

LEMMA ConstructInv ==
  ASSUME IInv, NEW k, NEW e, NEW t, construct(k, e, t)
  PROVE  IInv'
BY DEF construct, platform, run, listing, IInv, CallTypeOK, AttemptInv, OnceInv, KeyInv, TokenInv, onAgent

LEMMA ObtainInv ==
  ASSUME IInv, obtain
  PROVE  IInv'
BY DEF obtain, platform, run, listing, IInv, CallTypeOK, AttemptInv, OnceInv, KeyInv, TokenInv, onAgent

LEMMA StartInv ==
  ASSUME IInv, NEW m \in Callable, start(m)
  PROVE  IInv'
<1>0. m \in Names /\ call' = m /\ performed = 0 /\ strays = 0 /\ phase = "first" /\ result = "none"
  BY CallableAssumption DEF start, IInv, AttemptInv
<1>1. UNCHANGED <<issued, valid, phase, answer, strays, performed, handle>>
  BY DEF start, platform
<1>2. \/ result' = "FissionPlaneError" /\ wire' = wire
      \/ result' = result /\ wire' = "sent"
  BY DEF start
<1>3. "none" \notin Names
  BY SoundTables DEF Names, Sound
<1>4. CallTypeOK'
  BY <1>0, <1>1, <1>2 DEF IInv, CallTypeOK
<1>5. AttemptInv'
  BY <1>0, <1>1, <1>2, <1>3 DEF IInv, AttemptInv, start
<1>6. OnceInv'
  BY <1>0, <1>1, <1>2 DEF IInv, AttemptInv, OnceInv, start, Refusals
<1>7. KeyInv'
  BY <1>0, <1>1 DEF KeyInv
<1>8. TokenInv'
  BY <1>0, <1>1, <1>2 DEF TokenInv
<1> QED
  BY <1>4, <1>5, <1>6, <1>7, <1>8 DEF IInv

-----------------------------------------------------------------------------
(* The platform *)

LEMMA ServeInv ==
  ASSUME IInv, serve
  PROVE  IInv'
<1>0. /\ wire = "sent" /\ phase # "mint" /\ Perform(call)
      /\ UNCHANGED <<issued, valid, handle, call, phase, cred, strays, result>>
  BY DEF serve, run
<1>1. wire' = "answered" /\ answer'.status \in Done
  <2>1. CASE Answers(request.ok, "silent")
    BY <1>0, <2>1, SuccessStatus, AnswerStatus DEF Done
  <2>2. ASSUME NEW s \in Faults \cup (request.errors \cap {408}), NEW v \in Verdicts, Answers(s, v)
        PROVE  wire' = "answered" /\ answer'.status \in Done
    BY <2>2, AnswerStatus DEF Done, Faults
  <2> QED
    BY <2>1, <2>2 DEF serve
<1>2. performed' = IF call = "sandboxes.createKeyed" /\ performed > 0 THEN performed ELSE performed + 1
  BY <1>0 DEF Perform
<1>3. CallTypeOK' /\ AttemptInv' /\ KeyInv'
  BY <1>0, <1>1, <1>2 DEF IInv, CallTypeOK, AttemptInv, KeyInv
<1>4. OnceInv'
  BY <1>0, <1>1, <1>2, KeyedApart DEF IInv, CallTypeOK, OnceInv
<1>5. TokenInv'
  BY <1>0, <1>1, DoneIsNotRefused DEF IInv, TokenInv, onAgent
<1> QED
  BY <1>3, <1>4, <1>5 DEF IInv

LEMMA ServeMintInv ==
  ASSUME IInv, serveMint
  PROVE  IInv'
<1>0. /\ wire = "sent" /\ phase = "mint" /\ issued' = issued + 1 /\ valid' = issued + 1 /\ wire' = "answered"
      /\ UNCHANGED <<handle, call, phase, cred, strays, performed, result>>
  BY AnswerStatus DEF serveMint, run
<1> QED
  BY <1>0 DEF IInv, CallTypeOK, AttemptInv, OnceInv, KeyInv, TokenInv, onAgent

LEMMA RefuseInv ==
  ASSUME IInv, NEW s, NEW v, refuse(s, v)
  PROVE  IInv'
<1>0. /\ wire = "sent" /\ wire' = "answered" /\ answer'.status = s
      /\ toAgent => (s = Unauthorized <=> cred # valid)
      /\ UNCHANGED <<issued, valid, handle, call, phase, cred, strays, performed, result>>
  BY AnswerStatus DEF refuse, platform, run
<1>1. TokenInv'
  BY <1>0 DEF IInv, AttemptInv, TokenInv, toAgent, onAgent
<1> QED
  BY <1>0, <1>1 DEF IInv, CallTypeOK, AttemptInv, OnceInv, KeyInv

\* A request that was given up on is performed after the call is over.
LEMMA ServeStrayInv ==
  ASSUME IInv, serveStray
  PROVE  IInv'
<1>0. /\ strays > 0 /\ strays' = strays - 1
      /\ UNCHANGED <<issued, valid, handle, call, phase, cred, wire, answer, result>>
  BY DEF serveStray, run
<1>1. \/ performed' = performed
      \/ performed' = IF call = "sandboxes.createKeyed" /\ performed > 0 THEN performed ELSE performed + 1
  BY DEF serveStray, Perform
<1>2. CallTypeOK' /\ AttemptInv' /\ KeyInv'
  BY <1>0, <1>1 DEF IInv, CallTypeOK, AttemptInv, KeyInv
<1>3. OnceInv'
  BY <1>0, <1>1, KeyedApart DEF IInv, CallTypeOK, OnceInv
<1>4. TokenInv'
  BY <1>0 DEF IInv, TokenInv, onAgent
<1> QED
  BY <1>2, <1>3, <1>4 DEF IInv

LEMMA ElsewhereInv ==
  ASSUME IInv, elsewhere
  PROVE  IInv'
<1>0. /\ UNCHANGED <<issued, handle, call, phase, cred, wire, answer, strays, performed, result>>
      /\ valid' = valid \/ valid' = 0
      /\ result = "none"
  BY DEF elsewhere, run
<1>1. TokenInv'
  BY <1>0 DEF IInv, CallTypeOK, TokenInv, onAgent
<1> QED
  BY <1>0, <1>1 DEF IInv, CallTypeOK, AttemptInv, OnceInv, KeyInv

-----------------------------------------------------------------------------
(* The SDK *)

\* The three ways on from a failed attempt.
LEMMA FailsCases ==
  ASSUME NEW status, NEW verdict, fails(status, verdict)
  PROVE  \/ mayRetry(status, verdict) /\ wire' = "sent" /\ phase' = phase /\ result' = result
         \/ /\ ~mayRetry(status, verdict) /\ status = Unauthorized /\ phase = "first" /\ onAgent(call)
            /\ phase' = "mint" /\ wire' = "sent" /\ result' = result
         \/ /\ ~mayRetry(status, verdict) /\ ~(status = Unauthorized /\ phase = "first" /\ onAgent(call))
            /\ result' = classOf(status) /\ wire' = "idle" /\ phase' = phase
BY DEF fails

LEMMA LoseInv ==
  ASSUME IInv, lose
  PROVE  IInv'
<1>0. /\ wire = "sent" /\ strays' = (IF phase = "mint" THEN strays ELSE strays + 1) /\ fails(0, "silent")
      /\ UNCHANGED <<issued, valid, handle, call, cred, performed>>
  BY DEF lose, platform
<1>1. \/ mayRetry(0, "silent") /\ wire' = "sent" /\ phase' = phase /\ result' = result
      \/ ~mayRetry(0, "silent") /\ result' = "TypeError" /\ wire' = "idle" /\ phase' = phase
  BY <1>0, FailsCases DEF Unauthorized, classOf
<1>2. CallTypeOK' /\ AttemptInv' /\ KeyInv'
  BY <1>0, <1>1 DEF IInv, CallTypeOK, AttemptInv, KeyInv
<1>3. OnceInv'
  BY <1>0, <1>1, NotRetried DEF IInv, CallTypeOK, OnceInv, Refusals
<1>4. TokenInv'
  BY <1>0, <1>1 DEF IInv, AttemptInv, TokenInv, onAgent
<1> QED
  BY <1>2, <1>3, <1>4 DEF IInv

LEMMA ReceiveErrorInv ==
  ASSUME IInv, receiveError
  PROVE  IInv'
<1>0. /\ wire = "answered" /\ fails(answer.status, answer.verdict)
      /\ UNCHANGED <<issued, valid, handle, call, cred, answer, strays, performed>>
  BY DEF receiveError, platform
<1>1. CASE mayRetry(answer.status, answer.verdict)
  <2>1. wire' = "sent" /\ phase' = phase /\ result' = result /\ call \notin Unkeyed
    BY <1>0, <1>1, FailsCases, NotRetried
  <2> QED
    BY <1>0, <2>1 DEF IInv, CallTypeOK, AttemptInv, OnceInv, KeyInv, TokenInv, onAgent
<1>2. CASE /\ ~mayRetry(answer.status, answer.verdict)
           /\ answer.status = Unauthorized /\ phase = "first" /\ onAgent(call)
  <2>1. phase' = "mint" /\ wire' = "sent" /\ result' = result
    BY <1>0, <1>2, FailsCases
  <2>2. OnceInv'
    BY <1>0, <1>2, <2>1, DoneIsNotRefused DEF IInv, OnceInv
  <2> QED
    BY <1>0, <2>1, <2>2 DEF IInv, CallTypeOK, AttemptInv, KeyInv, TokenInv, onAgent
<1>3. CASE /\ ~mayRetry(answer.status, answer.verdict)
           /\ ~(answer.status = Unauthorized /\ phase = "first" /\ onAgent(call))
  <2>1. result' = classOf(answer.status) /\ wire' = "idle" /\ phase' = phase
    BY <1>0, <1>3, FailsCases
  <2>2. OnceInv'
    BY <1>0, <2>1, DoneIsNotRefused DEF IInv, CallTypeOK, OnceInv
  <2>3. TokenInv'
    BY <1>0, <1>3, <2>1, DoneIsNotRefused DEF IInv, CallTypeOK, TokenInv, onAgent
  <2> QED
    BY <1>0, <2>1, <2>2, <2>3 DEF IInv, CallTypeOK, AttemptInv, KeyInv
<1> QED
  BY <1>1, <1>2, <1>3

LEMMA MintedInv ==
  ASSUME IInv, minted
  PROVE  IInv'
<1>0. /\ wire = "answered" /\ phase = "mint"
      /\ handle' = issued /\ phase' = "replay" /\ cred' = issued /\ wire' = "sent"
      /\ UNCHANGED <<issued, valid, call, answer, strays, performed, result>>
  BY DEF minted, platform, freshCred
<1>1. OnceInv'
  BY <1>0 DEF IInv, OnceInv
<1>2. TokenInv'
  BY <1>0 DEF IInv, AttemptInv, TokenInv
<1> QED
  BY <1>0, <1>1, <1>2 DEF IInv, CallTypeOK, AttemptInv, KeyInv

LEMMA ReceivePageInv ==
  ASSUME IInv, receivePage
  PROVE  IInv'
<1>0. /\ wire = "answered" /\ call \notin Unkeyed
      /\ \/ result' = "ok" /\ wire' = "idle"
         \/ result' = result /\ wire' = "sent"
      /\ UNCHANGED <<issued, valid, handle, call, phase, cred, answer, strays, performed>>
  BY KeyedApart DEF receivePage, platform
<1> QED
  BY <1>0 DEF IInv, CallTypeOK, AttemptInv, OnceInv, KeyInv, TokenInv, onAgent

LEMMA ReceiveInv ==
  ASSUME IInv, receive
  PROVE  IInv'
<1>0. /\ wire = "answered" /\ result' = "ok" /\ wire' = "idle"
      /\ UNCHANGED <<issued, valid, handle, call, phase, cred, answer, strays, performed>>
  BY DEF receive, platform, run
<1>1. OnceInv'
  BY <1>0 DEF IInv, CallTypeOK, OnceInv, Refusals
<1> QED
  BY <1>0, <1>1 DEF IInv, CallTypeOK, AttemptInv, KeyInv, TokenInv, onAgent

LEMMA AbortInv ==
  ASSUME IInv, abort
  PROVE  IInv'
<1>0. /\ wire = "sent" /\ strays' = (IF phase = "mint" THEN strays ELSE strays + 1)
      /\ result' = "AbortError" /\ wire' = "idle"
      /\ UNCHANGED <<issued, valid, handle, call, phase, cred, performed>>
  BY DEF abort, platform, run
<1>1. OnceInv'
  BY <1>0 DEF IInv, CallTypeOK, OnceInv, Refusals
<1> QED
  BY <1>0, <1>1 DEF IInv, CallTypeOK, AttemptInv, KeyInv, TokenInv, onAgent

-----------------------------------------------------------------------------

LEMMA Inductive == IInv /\ [Next]_vars => IInv'
<1> SUFFICES ASSUME IInv, [Next]_vars PROVE IInv'
    OBVIOUS
<1>1. CASE UNCHANGED vars
  BY <1>1 DEF vars, platform, run, listing, IInv, CallTypeOK, AttemptInv, OnceInv, KeyInv, TokenInv, onAgent
<1>2. CASE Answering
  BY <1>2, ServeInv, ServeMintInv, RefuseInv DEF Answering
<1>3. CASE Receiving
  BY <1>3, ReceiveInv, ReceivePageInv, ReceiveErrorInv, MintedInv DEF Receiving
<1> QED
  BY <1>1, <1>2, <1>3, ConstructInv, ObtainInv, StartInv, ServeStrayInv, ElsewhereInv, LoseInv, AbortInv
     DEF Next

\* The inductive invariant: where a request that must not be repeated can be,
\* and which token a replay carries.
THEOREM CallInvariant == Spec => []IInv
BY InitInv, Inductive, PTL DEF Spec

\* What cannot be done twice and was refused was not done, for any number of
\* retries and any of the methods that mayRetry is asked about.
THEOREM RefusalsAreTrue == Spec => []RefusedMeansUndone
<1>1. IInv => RefusedMeansUndone
  BY DEF IInv, CallTypeOK, AttemptInv, OnceInv, RefusedMeansUndone, Refusals
<1> QED
  BY <1>1, CallInvariant, PTL

\* What adds up is performed at most once in a call, through the retries, the
\* requests given up on and the replay of withFreshToken.
THEOREM AddedOnce == Spec => []AddsUpOnce
<1>1. ASSUME IInv, call # "none", effectOf(call) \in {"add", "take"} PROVE performed <= 1
  <2>1. CASE call = "sandboxes.createKeyed"
    BY <1>1, <2>1 DEF IInv, KeyInv
  <2>2. CASE call # "sandboxes.createKeyed"
    <3>1. call \in Unkeyed
      BY <1>1, <2>2 DEF IInv, CallTypeOK, Unkeyed
    <3> QED
      BY <1>1, <3>1 DEF IInv, CallTypeOK, OnceInv
  <2> QED
    BY <2>1, <2>2
<1>2. IInv => AddsUpOnce
  BY <1>1 DEF AddsUpOnce
<1> QED
  BY <1>2, CallInvariant, PTL

\* A method of the agent is denied only if the mint was, or with the token
\* that withFreshToken minted for it.
THEOREM DeniedWithFreshToken == Spec => []DeniedOnlyWithFreshToken
<1>1. IInv => DeniedOnlyWithFreshToken
  BY DEF IInv, TokenInv, DeniedOnlyWithFreshToken
<1> QED
  BY <1>1, CallInvariant, PTL

-----------------------------------------------------------------------------
(***************************************************************************)
(* The budget                                                              *)
(***************************************************************************)

\* The requests of the call that its runs may have sent so far: the first
\* run as many as it has made attempts, and what the replay has made on top
\* of a first run that is over.
Spent ==
  CASE phase = "first" -> attempt + 1
    [] phase = "mint" -> MaxRetries + 1
    [] phase = "replay" -> (MaxRetries + 1) + (attempt + 1)

\* The request that is under way and may be performed.
UnderWay == IF wire = "sent" /\ phase # "mint" THEN 1 ELSE 0

\* What was performed, may still be and is under way was sent.
BudgetInv ==
  /\ attempt \in Nat /\ attempt <= MaxRetries
  /\ call \notin {"none", "sandboxes.iterate"} => performed + strays + UnderWay <= Spent

\* Sums of counters.
LEMMA SumBelow ==
  ASSUME NEW a \in Nat, NEW b \in Nat, NEW c \in Nat, NEW n \in Nat, NEW s \in Nat,
         a + b + c <= n, n <= s
  PROVE  a + b + c <= s
OBVIOUS

LEMMA SumServed ==
  ASSUME NEW a \in Nat, NEW b \in Nat, NEW c \in Nat, NEW d \in Nat, a <= c + 1, b = d
  PROVE  a + b + 0 <= c + d + 1
OBVIOUS

LEMMA SumStray ==
  ASSUME NEW a \in Nat, NEW b \in Nat, NEW c \in Nat, NEW d \in Nat, NEW u \in Nat,
         a \in {c, c + 1}, b = d - 1
  PROVE  a + b + u <= c + d + u
OBVIOUS

\* The ways on from a failed attempt, with the count of the attempts.
LEMMA FailsCounts ==
  ASSUME NEW status, NEW verdict, fails(status, verdict)
  PROVE  \/ phase # "mint" /\ attempt < MaxRetries
              /\ attempt' = attempt + 1 /\ wire' = "sent" /\ phase' = phase
         \/ status = Unauthorized /\ phase = "first" /\ phase' = "mint" /\ attempt' = 0
         \/ wire' = "idle" /\ phase' = phase /\ attempt' = attempt
BY DEF fails, mayRetry

\* Steps that send nothing, and perform at most what is under way or astray.
LEMMA BudgetQuiet ==
  ASSUME IInv, IInv', BudgetInv, UNCHANGED <<call, phase, attempt>>,
         NEW u \in Nat, u = UnderWay, NEW v \in Nat, v = UnderWay',
         performed' + strays' + v <= performed + strays + u
  PROVE  BudgetInv'
<1>1. /\ performed \in Nat /\ strays \in Nat /\ performed' \in Nat /\ strays' \in Nat
      /\ phase \in {"first", "mint", "replay"}
  BY DEF IInv, CallTypeOK
<1>2. PICK s \in Nat : s = Spent /\ s = Spent'
  BY <1>1, SdkBounds DEF Spent, BudgetInv
<1>3. call \notin {"none", "sandboxes.iterate"} => performed + strays + u <= s
  BY <1>2, Zenon DEF BudgetInv
<1>6. performed + strays + u \in Nat
  BY <1>1
<1>4. call \notin {"none", "sandboxes.iterate"} => performed' + strays' + v <= s
  BY <1>1, <1>2, <1>3, <1>6, SumBelow, Zenon
<1>5. call' \notin {"none", "sandboxes.iterate"} => performed' + strays' + UnderWay' <= Spent'
  BY <1>2, <1>4, Zenon
<1> QED
  BY <1>5 DEF BudgetInv

\* No step spends more than the budget.
LEMMA BudgetNext == IInv /\ BudgetInv /\ [Next]_vars => BudgetInv'
<1> SUFFICES ASSUME IInv, BudgetInv, [Next]_vars PROVE BudgetInv'
    OBVIOUS
<1>0. IInv'
  BY Inductive
<1>1. /\ performed \in Nat /\ strays \in Nat /\ performed' \in Nat /\ strays' \in Nat
      /\ phase \in {"first", "mint", "replay"} /\ attempt \in Nat /\ attempt <= MaxRetries
      /\ MaxRetries \in Nat
  BY <1>0, SdkBounds DEF IInv, CallTypeOK, BudgetInv
<1>2. CASE \/ UNCHANGED vars \/ (\E k, e, t \in Credentials : construct(k, e, t)) \/ obtain
           \/ elsewhere
  <2>1. UNCHANGED <<call, phase, attempt, performed, strays, wire>>
    BY <1>2 DEF vars, construct, obtain, elsewhere, run
  <2>2. PICK u \in Nat : u = UnderWay /\ u = UnderWay'
    BY <2>1 DEF UnderWay
  <2>3. performed' + strays' + u <= performed + strays + u
    BY <1>1, <2>1
  <2> QED
    BY <1>0, <2>1, <2>2, <2>3, BudgetQuiet
<1>3. ASSUME NEW m \in Callable, start(m) PROVE BudgetInv'
  <2>1. /\ performed' = 0 /\ strays' = 0 /\ phase' = "first" /\ attempt' = attempt
    BY <1>3 DEF start, IInv, AttemptInv
  <2> QED
    BY <1>1, <2>1 DEF BudgetInv, UnderWay, Spent
<1>4. CASE serve
  <2>1. /\ wire = "sent" /\ phase # "mint" /\ wire' = "answered"
        /\ UNCHANGED <<call, phase, attempt, strays>> /\ performed' <= performed + 1
    BY <1>1, <1>4 DEF serve, run, Answers, Perform
  <2>2. 1 = UnderWay /\ 0 = UnderWay'
    BY <2>1 DEF UnderWay
  <2>3. performed' + strays' + 0 <= performed + strays + 1
    BY <1>1, <2>1, SumServed, Zenon
  <2> QED
    BY <1>0, <2>1, <2>2, <2>3, BudgetQuiet
<1>5. CASE serveMint \/ \E s \in Refusable, v \in Verdicts : refuse(s, v)
  <2>1. /\ wire = "sent" /\ wire' = "answered" /\ UNCHANGED <<call, phase, attempt, strays, performed>>
    BY <1>5 DEF serveMint, refuse, run, Answers
  <2>2. PICK u \in Nat : u = UnderWay
    BY <2>1 DEF UnderWay
  <2>3. 0 = UnderWay' /\ performed' + strays' + 0 <= performed + strays + u
    BY <1>1, <2>1 DEF UnderWay
  <2> QED
    BY <1>0, <2>1, <2>2, <2>3, BudgetQuiet
<1>6. CASE serveStray
  <2>1. strays' = strays - 1 /\ UNCHANGED <<call, phase, attempt, wire>>
    BY <1>6 DEF serveStray, run
  <2>2. performed' \in {performed, performed + 1}
    BY <1>6 DEF serveStray, Perform
  <2>3. PICK u \in Nat : u = UnderWay /\ u = UnderWay'
    BY <2>1 DEF UnderWay
  <2>4. performed' + strays' + u <= performed + strays + u
    BY <1>1, <2>1, <2>2, SumStray, Zenon
  <2> QED
    BY <1>0, <2>1, <2>3, <2>4, BudgetQuiet
<1>7. CASE lose
  <2>1. /\ wire = "sent" /\ strays' = (IF phase = "mint" THEN strays ELSE strays + 1)
        /\ UNCHANGED <<call, performed>> /\ fails(0, "silent")
    BY <1>7 DEF lose
  <2>2. \/ phase # "mint" /\ attempt < MaxRetries
             /\ attempt' = attempt + 1 /\ wire' = "sent" /\ phase' = phase
        \/ wire' = "idle" /\ phase' = phase /\ attempt' = attempt
    BY <2>1, FailsCounts DEF Unauthorized
  <2> QED
    BY <1>1, <2>1, <2>2 DEF BudgetInv, UnderWay, Spent
<1>8. CASE receiveError
  <2>1. /\ wire = "answered" /\ UNCHANGED <<call, performed, strays>>
        /\ fails(answer.status, answer.verdict)
    BY <1>8 DEF receiveError
  <2> QED
    BY <1>1, <2>1, FailsCounts DEF BudgetInv, UnderWay, Spent
<1>9. CASE minted
  BY <1>1, <1>9 DEF minted, BudgetInv, UnderWay, Spent
<1>10. CASE receivePage
  BY <1>1, <1>10 DEF receivePage, BudgetInv
<1>11. CASE receive
  <2>1. wire = "answered" /\ wire' = "idle" /\ UNCHANGED <<call, phase, attempt, strays, performed>>
    BY <1>11 DEF receive, run
  <2>2. 0 = UnderWay /\ 0 = UnderWay'
    BY <2>1 DEF UnderWay
  <2>3. performed' + strays' + 0 <= performed + strays + 0
    BY <1>1, <2>1
  <2> QED
    BY <1>0, <2>1, <2>2, <2>3, BudgetQuiet
<1>12. CASE abort
  <2>1. /\ wire = "sent" /\ wire' = "idle" /\ UNCHANGED <<call, phase, attempt, performed>>
        /\ strays' = (IF phase = "mint" THEN strays ELSE strays + 1)
    BY <1>12 DEF abort, run
  <2>2. PICK u \in Nat : u = UnderWay /\ u = (IF phase = "mint" THEN 0 ELSE 1)
    BY <2>1 DEF UnderWay
  <2>3. 0 = UnderWay' /\ performed' + strays' + 0 <= performed + strays + u
    BY <1>1, <2>1, <2>2 DEF UnderWay
  <2> QED
    BY <1>0, <2>1, <2>2, <2>3, BudgetQuiet
<1> QED
  BY <1>2, <1>3, <1>4, <1>5, <1>6, <1>7, <1>8, <1>9, <1>10, <1>11, <1>12 DEF Next, Answering, Receiving

\* However answers are lost, attempts abandoned and tokens rejected, a call
\* reaches the platform no more often than its budget of retries says, for
\* any budget and any method.
THEOREM BudgetHolds == Spec => []AttemptsBounded
<1>1. Init => BudgetInv
  BY SdkBounds DEF Init, BudgetInv
<1>2. IInv /\ BudgetInv => AttemptsBounded
  <2> SUFFICES ASSUME IInv, BudgetInv, call \notin {"none", "sandboxes.iterate"}
               PROVE  performed + strays
                        <= (MaxRetries + 1) + (IF phase = "replay" THEN MaxRetries + 1 ELSE 0)
    BY DEF AttemptsBounded
  <2> QED
    BY SdkBounds DEF IInv, CallTypeOK, BudgetInv, UnderWay, Spent
<1> QED
  BY <1>1, <1>2, CallInvariant, BudgetNext, PTL DEF Spec

-----------------------------------------------------------------------------
(***************************************************************************)
(* The iteration                                                           *)
(***************************************************************************)

\* In ascending order, without repetition.
Increasing(q) == \A i, j \in 1..Len(q) : i < j => q[i] < q[j]

\* The place of an element in its set.
rank(S, x) == Cardinality({y \in S : y <= x})

LEMMA RankMonotone ==
  ASSUME NEW S \in SUBSET Nat, IsFiniteSet(S), NEW x \in S, NEW y \in S
  PROVE  /\ rank(S, x) \in 1..Cardinality(S)
         /\ x < y => rank(S, x) < rank(S, y)
<1> DEFINE upto(z) == {w \in S : w <= z}
<1>1. \A z \in S : /\ IsFiniteSet(upto(z)) /\ Cardinality(upto(z)) \in Nat
                   /\ Cardinality(upto(z)) <= Cardinality(S)
  BY FS_Subset, FS_CardinalityType
<1>2. Cardinality(S) \in Nat
  BY FS_CardinalityType
<1>3. Cardinality(upto(x)) # 0
  <2>1. x \in upto(x)
    OBVIOUS
  <2> QED
    BY <1>1, <2>1, FS_EmptySet
<1>4. ASSUME x < y PROVE Cardinality(upto(x)) < Cardinality(upto(y))
  <2>0. x \in Nat /\ y \in Nat /\ \A w \in S : w \in Nat
    OBVIOUS
  <2>1a. y \in upto(y) /\ y \notin upto(x)
    BY <1>4, <2>0
  <2>1b. ASSUME NEW w \in S, w <= x PROVE w <= y
    BY <1>4, <2>0, <2>1b
  <2>1. upto(x) \subseteq upto(y) /\ y \in upto(y) /\ y \notin upto(x)
    BY <2>1a, <2>1b
  <2>2. Cardinality(upto(x)) <= Cardinality(upto(y)) /\ Cardinality(upto(x)) # Cardinality(upto(y))
    BY <1>1, <2>1, FS_Subset
  <2> QED
    BY <1>1, <2>2
<1> QED
  BY <1>1, <1>2, <1>3, <1>4 DEF rank

\* Every finite set of numbers can be listed in ascending order: the element
\* at i is the one of rank i.
LEMMA AscendingIs ==
  ASSUME NEW S \in SUBSET Nat, IsFiniteSet(S)
  PROVE  /\ Ascending(S) \in Seq(S) /\ Len(Ascending(S)) = Cardinality(S)
         /\ Increasing(Ascending(S))
         /\ Range(Ascending(S)) = S
<1> DEFINE n == Cardinality(S)
           place == [x \in S |-> rank(S, x)]
<1>1. n \in Nat /\ IsFiniteSet(1..n) /\ Cardinality(1..n) = n
  BY FS_CardinalityType, FS_Interval
<1>2. place \in Injection(S, 1..n)
  <2>1. place \in [S -> 1..n]
    BY RankMonotone
  <2>2. ASSUME NEW x \in S, NEW y \in S, place[x] = place[y] PROVE x = y
    BY <1>1, <2>2, RankMonotone
  <2> QED
    BY <2>1, <2>2 DEF Injection, IsInjective
<1>3. place \in Surjection(S, 1..n)
  BY <1>1, <1>2, FS_Injection
<1>4. \A i \in 1..n : \E x \in S : rank(S, x) = i
  BY <1>3 DEF Surjection
<1> DEFINE q == [i \in 1..n |-> CHOOSE x \in S : rank(S, x) = i]
<1>5. \A i \in 1..n : q[i] \in S /\ rank(S, q[i]) = i
  BY <1>4
<1>5q. q \in [1..n -> S]
  BY <1>4
<1> HIDE DEF q, n
<1>6. q \in [1..n -> S] /\ \A i, j \in 1..n : i < j => q[i] < q[j]
  <2>1. ASSUME NEW i \in 1..n, NEW j \in 1..n, i < j PROVE q[i] < q[j]
    <3>0. i \in Nat /\ j \in Nat /\ q[i] \in S /\ q[j] \in S
      BY <1>1, <1>5
    <3>1. q[i] \in Nat /\ q[j] \in Nat
      BY <3>0
    <3>2. q[j] < q[i] => rank(S, q[j]) < rank(S, q[i])
      BY <3>0, RankMonotone
    <3>3. rank(S, q[i]) = i /\ rank(S, q[j]) = j
      BY <1>5
    <3>4. q[i] # q[j]
      BY <2>1, <3>0, <3>3
    <3> QED
      BY <2>1, <3>0, <3>1, <3>2, <3>3, <3>4
  <2> QED
    BY <1>5q, <2>1
<1> DEFINE a == Ascending(S)
<1>7. a \in [1..n -> S] /\ \A i, j \in 1..n : i < j => a[i] < a[j]
  BY <1>6 DEF Ascending, n
<1> HIDE DEF a
<1>8. a \in Seq(S) /\ Len(a) = n /\ DOMAIN a = 1..n
  BY <1>1, <1>7
<1>9. a \in Injection(1..n, S)
  <2>1. ASSUME NEW i \in 1..n, NEW j \in 1..n, a[i] = a[j] PROVE i = j
    <3>0. a[i] \in S
      BY <1>7
    <3>1. i \in Nat /\ j \in Nat
      BY <1>1
    <3>2. a[i] \in Nat
      BY <3>0
    <3> QED
      BY <1>7, <2>1, <3>1, <3>2
  <2> QED
    BY <1>7, <2>1 DEF Injection, IsInjective
<1>10. a \in Surjection(1..n, S)
  BY <1>1, <1>9, FS_Injection DEF n
<1>11. Range(a) = S
  BY <1>7, <1>10 DEF Range, Surjection
<1> QED
  BY <1>7, <1>8, <1>11 DEF a, n, Increasing

\* The page an attempt was answered with: it begins after the cursor, ends at
\* the next one, and leaves out nothing between them that has stayed.
PageInv ==
  LET items == answer.items
      next == answer.next
  IN  /\ items \in Seq(Nat) /\ Increasing(items) /\ next \in Nat
      /\ \A i \in 1..Len(items) : cursor < items[i] /\ (next # 0 => items[i] <= next)
      /\ next # 0 => cursor < next
      /\ \A s \in stable : cursor < s /\ (next # 0 => s <= next) => s \in Range(items)

\* What has been yielded lies before the cursor, in order, and misses nothing
\* before it that has stayed.
IterInv ==
  /\ sandboxes \subseteq Ids /\ stable \subseteq sandboxes
  /\ cursor \in Nat /\ yielded \in Seq(Nat) /\ Increasing(yielded)
  /\ call # "sandboxes.iterate" => yielded = <<>> /\ cursor = 0
  /\ call = "sandboxes.iterate" =>
       /\ wire # "idle" =>
            /\ \A i \in 1..Len(yielded) : yielded[i] <= cursor
            /\ \A s \in stable : s <= cursor => s \in Range(yielded)
       /\ wire = "answered" /\ answer.status = 200 => PageInv
       /\ result = "ok" => stable \subseteq Range(yielded)

\* The page after a cursor.
LEMMA PageIs ==
  ASSUME NEW from \in Nat, sandboxes \subseteq Ids
  PROVE  LET items == page(from).items
             next == page(from).next
         IN  /\ items \in Seq(Nat) /\ Increasing(items) /\ next \in Nat
             /\ \A i \in 1..Len(items) : from < items[i] /\ (next # 0 => items[i] <= next)
             /\ next # 0 => from < next
             /\ \A s \in sandboxes : from < s /\ (next # 0 => s <= next) => s \in Range(items)
<1> DEFINE S == {i \in sandboxes : i > from}
           rest == Ascending(S)
           k == IF Len(rest) < PageSize THEN Len(rest) ELSE PageSize
           items == SubSeq(rest, 1, k)
           next == IF Len(rest) > PageSize THEN rest[PageSize] ELSE 0
<1>1. S \in SUBSET Nat /\ IsFiniteSet(S)
  <2>1. MaxIds \in Nat /\ \A s \in S : s \in 1..MaxIds
    BY SdkBounds DEF Ids
  <2>2. \A s \in S : s \in Nat /\ s <= MaxIds
    BY <2>1
  <2> QED
    BY <2>1, <2>2, FS_BoundedSetOfNaturals
<1>2. rest \in Seq(S) /\ Increasing(rest) /\ Range(rest) = S
  BY <1>1, AscendingIs
<1>3. page(from).items = items /\ page(from).next = next
  BY DEF page, Rest
<1>4. PageSize \in Nat /\ PageSize >= 1
  BY SdkBounds
<1> HIDE DEF rest
<1>5. /\ Len(rest) \in Nat /\ k \in Nat /\ k <= Len(rest) /\ k <= PageSize
      /\ \A i \in 1..Len(rest) : rest[i] \in S /\ rest[i] \in Nat /\ from < rest[i]
  BY <1>1, <1>2, <1>4
<1>6. /\ items \in Seq(Nat) /\ Len(items) = k /\ \A i \in 1..k : items[i] = rest[i]
  <2>1. rest \in Seq(Nat)
    BY <1>1, <1>2
  <2> QED
    BY <1>5, <2>1
<1>7. Increasing(items)
  BY <1>2, <1>5, <1>6 DEF Increasing
<1>8. next \in Nat /\ (next # 0 => from < next /\ k = PageSize /\ next = rest[PageSize] /\ PageSize <= Len(rest))
  BY <1>4, <1>5
<1>9. next = 0 => k = Len(rest)
  BY <1>4, <1>5
<1> HIDE DEF items, next, k, S
<1>10. ASSUME NEW i \in 1..Len(items) PROVE from < items[i] /\ (next # 0 => items[i] <= next)
  <2>1. i \in 1..Len(rest) /\ items[i] = rest[i] /\ i <= k /\ i \in Nat
    BY <1>5, <1>6
  <2>2. from < items[i] /\ items[i] \in Nat
    BY <1>5, <2>1
  <2>3. ASSUME next # 0 PROVE items[i] <= next
    <3>1. CASE i = PageSize
      BY <1>8, <2>1, <2>2, <2>3, <3>1
    <3>2. CASE i < PageSize
      BY <1>2, <1>4, <1>5, <1>8, <2>1, <2>2, <2>3, <3>2 DEF Increasing
    <3> QED
      BY <1>4, <1>5, <2>1, <3>1, <3>2
  <2> QED
    BY <2>2, <2>3
<1>11. ASSUME NEW s \in sandboxes, from < s, next # 0 => s <= next PROVE s \in Range(items)
  <2>1. s \in S /\ s \in Nat
    BY <1>11, SdkBounds DEF Ids, S
  <2>2. PICK j \in 1..Len(rest) : rest[j] = s
    BY <1>2, <2>1 DEF Range
  <2>3. j <= k
    <3>1. CASE next = 0
      BY <1>5, <1>9, <3>1
    <3>2. CASE next # 0 /\ PageSize < j
      BY <1>2, <1>4, <1>5, <1>8, <1>11, <2>1, <2>2, <3>2 DEF Increasing
    <3>3. CASE next # 0 /\ ~(PageSize < j)
      BY <1>4, <1>5, <1>8, <3>3
    <3> QED
      BY <3>1, <3>2, <3>3
  <2>4. j \in 1..k /\ items[j] = s
    BY <1>5, <1>6, <2>2, <2>3
  <2> QED
    BY <1>6, <2>4 DEF Range
<1> QED
  BY <1>3, <1>6, <1>7, <1>8, <1>10, <1>11

\* A page is appended: still ascending, and together they miss nothing.
LEMMA Appended ==
  ASSUME NEW p \in Seq(Nat), NEW q \in Seq(Nat), NEW c \in Nat,
         Increasing(p), Increasing(q),
         \A i \in 1..Len(p) : p[i] <= c,
         \A i \in 1..Len(q) : c < q[i]
  PROVE  /\ p \o q \in Seq(Nat) /\ Increasing(p \o q)
         /\ Range(p \o q) = Range(p) \cup Range(q)
<1>1. /\ p \o q \in Seq(Nat) /\ Len(p \o q) = Len(p) + Len(q) /\ Len(p) \in Nat /\ Len(q) \in Nat
      /\ \A i \in 1..Len(p) : (p \o q)[i] = p[i] /\ p[i] \in Nat
      /\ \A i \in 1..Len(q) : (p \o q)[Len(p) + i] = q[i] /\ q[i] \in Nat
  OBVIOUS
<1> DEFINE r == p \o q
<1> HIDE DEF r
<1>2. /\ r \in Seq(Nat) /\ Len(r) = Len(p) + Len(q)
      /\ \A i \in 1..Len(p) : r[i] = p[i]
      /\ \A i \in 1..Len(q) : r[Len(p) + i] = q[i]
  BY <1>1 DEF r
<1>3. \A i \in 1..Len(r) : i \in 1..Len(p) \/ (i - Len(p) \in 1..Len(q) /\ r[i] = q[i - Len(p)])
  <2> SUFFICES ASSUME NEW i \in 1..Len(r), i \notin 1..Len(p)
               PROVE  i - Len(p) \in 1..Len(q) /\ r[i] = q[i - Len(p)]
    OBVIOUS
  <2>1. i - Len(p) \in 1..Len(q) /\ Len(p) + (i - Len(p)) = i
    BY <1>1, <1>2
  <2> QED
    BY <1>2, <2>1
<1>4. Increasing(r)
  <2> SUFFICES ASSUME NEW i \in 1..Len(r), NEW j \in 1..Len(r), i < j PROVE r[i] < r[j]
    BY DEF Increasing
  <2>0. i \in Int /\ j \in Int /\ 1 <= i /\ 1 <= j /\ Len(p) \in Int
    BY <1>1, <1>2
  <2>1. CASE j \in 1..Len(p)
    <3>1. i \in 1..Len(p)
      BY <2>0, <2>1
    <3> QED
      BY <1>2, <2>1, <3>1 DEF Increasing
  <2>2. CASE i \in 1..Len(p) /\ j \notin 1..Len(p)
    <3>1. j - Len(p) \in 1..Len(q) /\ r[j] = q[j - Len(p)]
      BY <1>3, <2>2
    <3>2. p[i] <= c /\ c < q[j - Len(p)] /\ p[i] \in Nat /\ q[j - Len(p)] \in Nat /\ r[i] = p[i]
      BY <1>1, <1>2, <2>2, <3>1
    <3> QED
      BY <3>1, <3>2
  <2>3. CASE i \notin 1..Len(p)
    <3>1. /\ j \notin 1..Len(p) /\ i - Len(p) < j - Len(p)
          /\ i - Len(p) \in 1..Len(q) /\ j - Len(p) \in 1..Len(q)
      BY <1>3, <2>0, <2>3
    <3>2. q[i - Len(p)] < q[j - Len(p)]
      BY <3>1 DEF Increasing
    <3> QED
      BY <1>3, <2>3, <3>1, <3>2
  <2> QED
    BY <2>1, <2>2, <2>3
<1>5. DOMAIN p = 1..Len(p) /\ DOMAIN q = 1..Len(q) /\ DOMAIN r = 1..Len(r)
  BY <1>2
<1>6. Range(r) \subseteq Range(p) \cup Range(q)
  BY <1>2, <1>3, <1>5 DEF Range
<1>7. Range(p) \subseteq Range(r)
  <2>1. \A i \in 1..Len(p) : i \in 1..Len(r)
    BY <1>1, <1>2
  <2> QED
    BY <1>2, <1>5, <2>1 DEF Range
<1>8. Range(q) \subseteq Range(r)
  <2>1. \A i \in 1..Len(q) : Len(p) + i \in 1..Len(r)
    BY <1>1, <1>2
  <2> QED
    BY <1>2, <1>5, <2>1 DEF Range
<1> QED
  BY <1>1, <1>4, <1>6, <1>7, <1>8 DEF r

\* Steps that do not touch the listing and receive no page.
LEMMA IterQuiet ==
  ASSUME IterInv, UNCHANGED <<sandboxes, call, cursor, yielded, stable>>,
         wire' = "idle" \/ wire # "idle",
         wire' = "answered" => wire = "answered" /\ answer' = answer,
         call = "sandboxes.iterate" /\ result' = "ok" => result = "ok"
  PROVE  IterInv'
BY DEF IterInv, PageInv

\* An answer brings the page after the cursor.
LEMMA IterAnswers ==
  ASSUME IterInv, wire = "sent", UNCHANGED <<sandboxes, call, result, cursor, yielded, stable>>,
         NEW status, NEW verdict, Answers(status, verdict)
  PROVE  IterInv'
<1>1. cursor \in Nat /\ sandboxes \subseteq Ids /\ stable \subseteq sandboxes
  BY DEF IterInv
<1>2. ASSUME call = "sandboxes.iterate", answer'.status = 200 PROVE PageInv'
  <2>1. answer'.items = page(cursor).items /\ answer'.next = page(cursor).next
    BY <1>2 DEF Answers
  <2>2. LET items == page(cursor).items
            next == page(cursor).next
        IN  /\ items \in Seq(Nat) /\ Increasing(items) /\ next \in Nat
            /\ \A i \in 1..Len(items) : cursor < items[i] /\ (next # 0 => items[i] <= next)
            /\ next # 0 => cursor < next
            /\ \A s \in sandboxes : cursor < s /\ (next # 0 => s <= next) => s \in Range(items)
    <3> HIDE DEF page
    <3> QED
      BY <1>1, PageIs
  <2> DEFINE items == page(cursor).items
             next == page(cursor).next
  <2> HIDE DEF items, next
  <2>3. answer'.items = items /\ answer'.next = next /\ cursor' = cursor /\ stable' = stable
    BY <2>1 DEF items, next
  <2>4. /\ items \in Seq(Nat) /\ Increasing(items) /\ next \in Nat
        /\ \A i \in 1..Len(items) : cursor < items[i] /\ (next # 0 => items[i] <= next)
        /\ next # 0 => cursor < next
        /\ \A s \in stable : cursor < s /\ (next # 0 => s <= next) => s \in Range(items)
    BY <1>1, <2>2 DEF items, next
  <2> QED
    BY <2>3, <2>4 DEF PageInv
<1>3. wire' = "answered"
  BY DEF Answers
<1> QED
  BY <1>2, <1>3 DEF IterInv

LEMMA IterStart ==
  ASSUME IInv, IterInv, NEW m \in Callable, start(m)
  PROVE  IterInv'
<1>1. /\ call = "none" /\ call' = m /\ stable' = sandboxes /\ result = "none"
      /\ UNCHANGED <<sandboxes, cursor, yielded>> /\ wire' # "answered" /\ result' # "ok"
  BY DEF start, platform, IInv, AttemptInv
<1>2. yielded = <<>> /\ cursor = 0 /\ sandboxes \subseteq Ids
  BY <1>1 DEF IterInv
<1>3. \A s \in sandboxes : ~(s <= 0)
  BY <1>2, SdkBounds DEF Ids
<1>4. Len(yielded) = 0
  BY <1>2
<1> QED
  BY <1>1, <1>2, <1>3, <1>4 DEF IterInv

LEMMA IterElsewhere ==
  ASSUME IterInv, elsewhere
  PROVE  IterInv'
<1>1. /\ sandboxes' \subseteq Ids /\ stable' \subseteq sandboxes' /\ stable' \subseteq stable
      /\ UNCHANGED <<call, wire, answer, result, cursor, yielded>>
  BY DEF elsewhere, IterInv
<1>2. PageInv => PageInv'
  BY <1>1 DEF PageInv
<1> QED
  BY <1>1, <1>2 DEF IterInv

LEMMA IterPage ==
  ASSUME IInv, IterInv, receivePage
  PROVE  IterInv'
<1> DEFINE items == answer.items
           next == answer.next
<1>0. /\ wire = "answered" /\ call = "sandboxes.iterate" /\ answer.status = 200 /\ result = "none"
      /\ yielded' = yielded \o items /\ cursor' = next
      /\ \/ next = 0 /\ result' = "ok" /\ wire' = "idle"
         \/ next # 0 /\ wire' = "sent" /\ result' = result
      /\ UNCHANGED <<sandboxes, call, stable>>
  BY DEF receivePage, platform, IInv, AttemptInv
<1>1. /\ cursor \in Nat /\ yielded \in Seq(Nat) /\ Increasing(yielded)
      /\ \A i \in 1..Len(yielded) : yielded[i] <= cursor
      /\ \A s \in stable : s <= cursor => s \in Range(yielded)
      /\ \A s \in stable : s \in Nat
  BY <1>0, SdkBounds DEF IterInv, Ids
<1>2. /\ items \in Seq(Nat) /\ Increasing(items) /\ next \in Nat
      /\ \A i \in 1..Len(items) : cursor < items[i] /\ (next # 0 => items[i] <= next)
      /\ next # 0 => cursor < next
      /\ \A s \in stable : cursor < s /\ (next # 0 => s <= next) => s \in Range(items)
  BY <1>0 DEF IterInv, PageInv
<1> HIDE DEF items, next
<1>3. /\ yielded' \in Seq(Nat) /\ Increasing(yielded')
      /\ Range(yielded') = Range(yielded) \cup Range(items)
  <2>1. \A i \in 1..Len(items) : cursor < items[i]
    BY <1>2
  <2>2. /\ yielded \o items \in Seq(Nat) /\ Increasing(yielded \o items)
        /\ Range(yielded \o items) = Range(yielded) \cup Range(items)
    BY <1>1, <1>2, <2>1, Appended, Zenon
  <2> QED
    BY <1>0, <2>2, Zenon
<1>4. \A s \in stable : (next # 0 => s <= next) => s \in Range(yielded')
  BY <1>1, <1>2, <1>3
<1>5. CASE next = 0
  BY <1>0, <1>2, <1>3, <1>4, <1>5 DEF IterInv
<1>6. CASE next # 0
  <2>1. \A i \in 1..Len(yielded') : yielded'[i] <= next
    <3>1. \A x \in Range(yielded) : x <= next
      <4>1. \A i \in 1..Len(yielded) : yielded[i] \in Nat /\ yielded[i] <= next
        BY <1>1, <1>2, <1>6
      <4> QED
        BY <1>1, <4>1 DEF Range
    <3>2. \A x \in Range(items) : x <= next
      BY <1>2, <1>6 DEF Range
    <3>3. \A i \in 1..Len(yielded') : yielded'[i] \in Range(yielded')
      BY <1>3 DEF Range
    <3> QED
      BY <1>3, <3>1, <3>2, <3>3
  <2> QED
    BY <1>0, <1>2, <1>3, <1>4, <1>6, <2>1 DEF IterInv
<1> QED
  BY <1>5, <1>6

LEMMA IterInit == Init => IterInv
<1> SUFFICES ASSUME Init PROVE IterInv
    OBVIOUS
<1>1. sandboxes = Ids /\ stable = {} /\ cursor = 0 /\ yielded = <<>> /\ call = "none"
  BY DEF Init
<1>2. <<>> \in Seq(Nat) /\ Len(<<>>) = 0
  OBVIOUS
<1> QED
  BY <1>1, <1>2 DEF IterInv, Increasing

LEMMA IterNext == IInv /\ IterInv /\ [Next]_vars => IterInv'
<1> SUFFICES ASSUME IInv, IterInv, [Next]_vars PROVE IterInv'
    OBVIOUS
<1>0. (wire # "idle" => result = "none") /\ wire \in {"idle", "sent", "answered"}
  BY DEF IInv, AttemptInv, CallTypeOK
<1>1. CASE UNCHANGED vars
  BY <1>1, IterQuiet DEF vars, platform, listing
<1>2. CASE serve \/ serveMint \/ \E s \in Refusable, v \in Verdicts : refuse(s, v)
  <2>1. /\ wire = "sent" /\ UNCHANGED <<sandboxes, call, result, cursor, yielded, stable>>
        /\ \E s, v : Answers(s, v)
    BY <1>2 DEF serve, serveMint, refuse, platform, listing
  <2> QED
    BY <2>1, IterAnswers
<1>3. CASE (\E k, e, t \in Credentials : construct(k, e, t)) \/ obtain \/ serveStray
  BY <1>0, <1>3, IterQuiet DEF construct, obtain, serveStray, platform, listing
<1>4. CASE lose \/ receiveError
  <2>1. PICK s, v : fails(s, v)
    BY <1>4 DEF lose, receiveError
  <2>2. wire' \in {"sent", "idle"} /\ result' # "ok"
    BY <1>0, <1>4, <2>1, FailsCases DEF classOf, lose, receiveError
  <2>3. UNCHANGED <<sandboxes, call, cursor, yielded, stable>> /\ wire # "idle"
    BY <1>4 DEF lose, receiveError, platform, listing
  <2> QED
    BY <2>2, <2>3, IterQuiet
<1>5. CASE minted \/ receive \/ abort
  BY <1>0, <1>5, IterQuiet DEF minted, receive, abort, platform, listing
<1> QED
  BY <1>1, <1>2, <1>3, <1>4, <1>5, IterStart, IterElsewhere, IterPage DEF Next, Answering, Receiving

\* iterate yields every sandbox that stays, and none twice, for any number of
\* sandboxes, any page size, any changes between pages and any retries.
THEOREM IterationIsComplete == Spec => []IterationComplete
<1>1. ASSUME IterInv PROVE IterationComplete
  <2>1. ASSUME NEW i \in DOMAIN yielded, NEW j \in DOMAIN yielded, yielded[i] = yielded[j] PROVE i = j
    <3>1. i \in 1..Len(yielded) /\ j \in 1..Len(yielded) /\ yielded[i] \in Nat /\ i \in Int /\ j \in Int
      BY <1>1 DEF IterInv
    <3>2. ~(i < j) /\ ~(j < i)
      BY <1>1, <2>1, <3>1 DEF IterInv, Increasing
    <3> QED
      BY <3>1, <3>2
  <2> QED
    BY <1>1, <2>1 DEF IterInv, IterationComplete
<1>2. IterInv => IterationComplete
  BY <1>1
<1> QED
  BY <1>2, CallInvariant, IterInit, IterNext, PTL DEF Spec
=============================================================================
