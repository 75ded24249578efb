------------------------------ MODULE SdkCalls ------------------------------
(***************************************************************************)
(* Every method of the TypeScript SDK as a caller meets it: which request  *)
(* it sends under the Contract, whether the retry loop may send it again,  *)
(* what a rejected capability token leads to, how a page follows a page,   *)
(* and which error comes of which answer.                                  *)
(*                                                                         *)
(* One call is made at a time.  The platform and its other clients are     *)
(* external: what a method acts on is there or not, an answer is any the   *)
(* contract declares or a fault of something in between, and a request     *)
(* the SDK has given up on may still be served.                            *)
(***************************************************************************)
EXTENDS Contract, FiniteSets, Sequences, Functions

CONSTANTS
  Callable,                     \* the methods the caller may call
  MaxRetries,                   \* RequestDefaults.maxRetries
  MaxTokens,                    \* bound: capability tokens issued
  MaxIds,                       \* bound: sandboxes ever created, 1..MaxIds
  PageSize                      \* ListSandboxesOptions.limit

ASSUME SdkBounds ==
  /\ MaxRetries \in Nat /\ MaxTokens \in Nat \ {0} /\ MaxIds \in Nat
  /\ PageSize \in Nat \ {0}

-----------------------------------------------------------------------------
(***************************************************************************)
(* The methods.  sends and may are the fields of the request that are      *)
(* always there and those there when their option is given; reads are the  *)
(* fields of the body that are used without a default.                     *)
(***************************************************************************)
Method(path, verb, idempotent, sends, may, reads) ==
  [path |-> path, verb |-> verb, idempotent |-> idempotent,
   sends |-> sends, may |-> may, reads |-> reads]

Sends(path, verb, idempotent, schema) ==
  Method(path, verb, idempotent, schema.required, schema.optional, {})

lifecycleMethods ==
  "sandbox.refresh" :> Sends("/v1/sandboxes/{sandboxId}", "GET", TRUE, Empty)
  @@ "sandbox.pause" :> Sends("/v1/sandboxes/{sandboxId}/pause", "POST", FALSE, Empty)
  @@ "sandbox.resume" :> Method("/v1/sandboxes/{sandboxId}/resume", "POST", FALSE,
       {}, {"deadline_seconds"}, {"sandbox", "token"})
  @@ "sandbox.extendDeadline" :> Method("/v1/sandboxes/{sandboxId}/deadline", "POST", FALSE,
       {"deadline_seconds"}, {}, {})

credentialMethods ==
  "sandbox.mintToken" :> Method("/v1/sandboxes/{sandboxId}/token", "POST", FALSE,
       {}, {"ttl_seconds", "ports"}, {"token"})
  @@ "sandbox.delete" :> Sends("/v1/sandboxes/{sandboxId}", "DELETE", TRUE, Empty)

\* Mutant of createMethods: a create is retried with or without a key.
createMethodsRetried ==
  "sandboxes.create" :> Method("/v1/sandboxes", "POST", TRUE,
       CreateSandboxRequest.required, CreateSandboxRequest.optional, {"sandbox", "token"})
  @@ "sandboxes.createKeyed" :> Method("/v1/sandboxes", "POST", TRUE,
       CreateSandboxRequest.required \cup {"Idempotency-Key"}, CreateSandboxRequest.optional,
       {"sandbox", "token"})
  @@ "sandboxes.get" :> Sends("/v1/sandboxes/{sandboxId}", "GET", TRUE, Empty)

\* create without an idempotency key, and with one.
createMethods ==
  "sandboxes.create" :> Method("/v1/sandboxes", "POST", FALSE,
       CreateSandboxRequest.required, CreateSandboxRequest.optional, {"sandbox", "token"})
  @@ "sandboxes.createKeyed" :> Method("/v1/sandboxes", "POST", TRUE,
       CreateSandboxRequest.required \cup {"Idempotency-Key"}, CreateSandboxRequest.optional,
       {"sandbox", "token"})
  @@ "sandboxes.get" :> Sends("/v1/sandboxes/{sandboxId}", "GET", TRUE, Empty)

listMethods ==
  "sandboxes.list" :> Method("/v1/sandboxes", "GET", TRUE,
       {}, {"state", "name", "metadata", "limit", "cursor"}, {"items"})
  @@ "sandboxes.iterate" :> Method("/v1/sandboxes", "GET", TRUE,
       {}, {"state", "name", "metadata", "limit", "cursor"}, {"items"})

portMethods ==
  "ports.list" :> Method("/v1/sandboxes/{sandboxId}/ports", "GET", TRUE, {}, {}, {"items"})
  @@ "ports.expose" :> Method("/v1/sandboxes/{sandboxId}/ports/{port}", "PUT", TRUE,
       {"visibility"}, {}, {})
  @@ "ports.unexpose" :> Sends("/v1/sandboxes/{sandboxId}/ports/{port}", "DELETE", TRUE, Empty)

buildMethods ==
  "build.refresh" :> Sends("/v1/templates/builds/{buildId}", "GET", TRUE, Empty)
  @@ "build.logs" :> Method("/v1/templates/builds/{buildId}/logs", "GET", TRUE,
       {}, {"offset"}, {"entries", "next_offset"})

templateMethods ==
  "templates.list" :> Method("/v1/templates", "GET", TRUE, {}, {"limit", "cursor"}, {"items"})
  @@ "templates.get" :> Sends("/v1/templates/{template}", "GET", TRUE, Empty)
  @@ "templates.build" :> Sends("/v1/templates/builds", "POST", FALSE, CreateTemplateBuildRequest)

templateRecordMethods ==
  "templates.getBuild" :> Sends("/v1/templates/builds/{buildId}", "GET", TRUE, Empty)
  @@ "templates.delete" :> Sends("/v1/templates/{template}", "DELETE", TRUE, Empty)

commandMethods ==
  "commands.run" :> Sends("/commands", "POST", FALSE, RunCommandRequest)
  @@ "commands.start" :> Sends("/processes", "POST", FALSE, StartProcessRequest)

processMethods ==
  "commands.get" :> Sends("/processes/{pid}", "GET", TRUE, Empty)
  @@ "commands.logs" :> Method("/processes/{pid}/logs", "GET", TRUE, {}, {"after"}, {})
  @@ "commands.listProcesses" :> Method("/processes", "GET", TRUE, {}, {}, {"items"})
  @@ "commands.kill" :> Method("/processes/{pid}", "DELETE", TRUE, {}, {"signal"}, {})

\* Mutant of treeMethods: a move is declared safe to replay.
treeMethodsReplayed ==
  "files.list" :> Method("/files", "GET", TRUE, {"path"}, {}, {"items"})
  @@ "files.stat" :> Sends("/files/stat", "GET", TRUE, Path)
  @@ "files.makeDir" :> Method("/files/directories", "POST", TRUE, {"path", "parents"}, {"mode"}, {})
  @@ "files.move" :> Sends("/files/move", "POST", TRUE, MoveFileRequest)
  @@ "files.remove" :> Method("/files", "DELETE", TRUE, {"path"}, {"recursive"}, {})

treeMethods ==
  "files.list" :> Method("/files", "GET", TRUE, {"path"}, {}, {"items"})
  @@ "files.stat" :> Sends("/files/stat", "GET", TRUE, Path)
  @@ "files.makeDir" :> Method("/files/directories", "POST", TRUE, {"path", "parents"}, {"mode"}, {})
  @@ "files.move" :> Sends("/files/move", "POST", FALSE, MoveFileRequest)
  @@ "files.remove" :> Method("/files", "DELETE", TRUE, {"path"}, {"recursive"}, {})

contentMethods ==
  "files.read" :> Method("/files/content", "GET", TRUE, {"path"}, {}, {"bytes"})
  @@ "files.write" :> Method("/files/content", "PUT", TRUE, {"path", "bytes"}, {"mode"}, {})

methods ==
  lifecycleMethods @@ credentialMethods @@ createMethods @@ listMethods @@ portMethods
  @@ buildMethods @@ templateMethods @@ templateRecordMethods
  @@ commandMethods @@ processMethods @@ treeMethods @@ contentMethods

Names == DOMAIN methods

ASSUME CallableAssumption == Callable \subseteq Names

operation(m) == paths[methods[m].path][methods[m].verb]
onAgent(m) == methods[m].path \in DOMAIN dataPaths

\* What a method sends and reads is what its operation takes and returns,
\* whichever options are given and whichever optional fields are left out, and
\* the status of its success is one that unwrap takes for a success.
ASSUME ShapesAgree ==
  \A m \in Names :
    LET op == operation(m) IN
    /\ op.takes.required \subseteq methods[m].sends
    /\ methods[m].sends \cup methods[m].may \subseteq op.takes.required \cup op.takes.optional
    /\ methods[m].reads \subseteq op.returns.required
    /\ op.ok \in 200..299

(***************************************************************************)
(* What a method does to what it acts on, as the platform performs it.     *)
(*   add     something new each time          set   there, as asked        *)
(*   take    its own precondition goes        drop  not there any more     *)
(*   signal  delivered each time              read  nothing                *)
(***************************************************************************)
effectOf(m) ==
  CASE m \in {"sandboxes.create", "sandboxes.createKeyed", "sandbox.extendDeadline",
              "sandbox.mintToken", "templates.build", "commands.run", "commands.start"} -> "add"
    [] m \in {"sandbox.pause", "sandbox.resume", "files.move"} -> "take"
    [] m \in {"ports.expose", "files.makeDir", "files.write"} -> "set"
    [] m \in {"sandbox.delete", "ports.unexpose", "templates.delete", "files.remove"} -> "drop"
    [] m = "commands.kill" -> "signal"
    [] OTHER -> "read"

-----------------------------------------------------------------------------
VARIABLES
  sandboxes,                    \* platform: identifiers of the collection
  present,                      \* platform: what the call acts on is there
  issued, valid,                \* platform: tokens issued, the one accepted or 0
  client,                       \* the credential header the client sends
  handle,                       \* the token the sandbox handle holds, or 0
  call,                         \* the method being called
  phase,                        \* the run of the pipeline the call is in
  attempt,                      \* the attempt of that run, from 0
  cred,                         \* the token the run's requests carry
  wire,                         \* the attempt: "idle", "sent", or "answered" (headers in)
  answer,                       \* what it was answered
  strays,                       \* requests given up on, not served yet
  performed,                    \* times the platform performed the call
  result,                       \* what the call came to
  cursor, yielded,              \* iterate: where it is, what it has yielded
  stable                        \* sandboxes there since the call began

platform == <<sandboxes, present, issued, valid>>
run == <<phase, attempt, cred>>
listing == <<cursor, yielded, stable>>
vars == <<platform, client, handle, call, run, wire, answer, strays, performed, result, listing>>

Ids == 1..MaxIds
Tokens == 0..MaxTokens
Statuses == {0} \cup 200..503
Verdicts == {"yes", "no", "silent"}      \* the retryable field of an error body
Credentials == {"absent", "bad", "good"} \* bad: empty, or with whitespace

NoAnswer == [status |-> 0, verdict |-> "silent", items |-> <<>>, next |-> 0]

Results ==
  {"none", "ok", "AuthenticationError", "ForbiddenError", "NotFoundError", "CommandTimeoutError",
   "ConflictError", "SnapshotExpiredError", "RateLimitError", "FissionPlaneError", "TypeError",
   "AbortError"}

TypeOK ==
  /\ sandboxes \subseteq Ids /\ present \in BOOLEAN
  /\ issued \in Tokens /\ valid \in Tokens /\ handle \in Tokens /\ cred \in Tokens
  /\ client \in {"none", "rejected", "X-API-Key", "Authorization", "anonymous"}
  /\ call \in Names \cup {"none"}
  /\ phase \in {"first", "mint", "replay"} /\ attempt \in 0..MaxRetries
  /\ wire \in {"idle", "sent", "answered"}
  /\ answer \in [status : Statuses, verdict : Verdicts, items : Seq(Ids), next : {0} \cup Ids]
  /\ strays \in Nat /\ performed \in Nat /\ result \in Results
  /\ cursor \in {0} \cup Ids /\ yielded \in Seq(Ids) /\ stable \subseteq Ids

\* A collection that starts smaller is one that shrinks before the first page.
Init ==
  /\ sandboxes = Ids /\ present \in BOOLEAN
  /\ issued = 1 /\ valid = 1
  /\ client = "none" /\ handle = 0
  /\ call = "none" /\ phase = "first" /\ attempt = 0 /\ cred = 0
  /\ wire = "idle" /\ answer = NoAnswer /\ strays = 0 /\ performed = 0
  /\ result = "none"
  /\ cursor = 0 /\ yielded = <<>> /\ stable = {}

-----------------------------------------------------------------------------
(* The caller *)

\* The header createApiClient sets: an API key, from the options or from the
\* environment, goes before a token.
credentialHeader(apiKey, accessToken) ==
  IF apiKey # "absent" THEN "X-API-Key"
  ELSE IF accessToken # "absent" THEN "Authorization" ELSE "anonymous"

\* new FissionPlane: every credential that is given is checked, the one that
\* will not be used too.
construct(option, env, accessToken) ==
  LET apiKey == IF option # "absent" THEN option ELSE env IN
  /\ client = "none"
  /\ client' = IF "bad" \in {apiKey, accessToken} THEN "rejected"
               ELSE credentialHeader(apiKey, accessToken)
  /\ UNCHANGED <<platform, handle, call, run, wire, answer, strays, performed, result, listing>>

\* The handle comes from create, resume or mintToken with a token, from get
\* or list without one.
obtain ==
  /\ client \notin {"none", "rejected"} /\ handle = 0 /\ call = "none"
  /\ handle' = 1
  /\ UNCHANGED <<platform, client, call, run, wire, answer, strays, performed, result, listing>>

\* A method of the agent needs a token before anything is sent.
start(m) ==
  /\ client \notin {"none", "rejected"} /\ call = "none"
  /\ call' = m
  /\ stable' = sandboxes
  /\ IF onAgent(m) /\ handle = 0
     THEN result' = "FissionPlaneError" /\ UNCHANGED <<cred, wire>>
     ELSE cred' = handle /\ wire' = "sent" /\ UNCHANGED result
  /\ UNCHANGED <<platform, client, handle, phase, attempt, answer, strays, performed, cursor, yielded>>

-----------------------------------------------------------------------------
(* The platform *)

\* The operation of the run in progress: the mint is a call of its own.
request == IF phase = "mint" THEN mintSandboxToken ELSE operation(call)
toAgent == phase # "mint" /\ onAgent(call)

\* The agent goes by the token, the control plane by the credential.
Admitted == IF toAgent THEN cred = valid ELSE client # "anonymous"

\* The numbers of a set in ascending order.
Ascending(S) ==
  CHOOSE q \in [1..Cardinality(S) -> S] : \A i, j \in 1..Cardinality(S) : i < j => q[i] < q[j]

\* The collection after a cursor, a page at a time; the cursor of a page is
\* its last identifier, and the last page has none.
Rest(from) == Ascending({i \in sandboxes : i > from})
page(from) ==
  LET rest == Rest(from) IN
  [items |-> SubSeq(rest, 1, IF Len(rest) < PageSize THEN Len(rest) ELSE PageSize),
   next |-> IF Len(rest) > PageSize THEN rest[PageSize] ELSE 0]

NeedsPresence(m) ==
  effectOf(m) \in {"take", "drop", "signal", "read"} /\ NotFound \in operation(m).errors

\* The request is performed: what has to be there is there, and a key that
\* was seen before brings the first answer back.
Perform(m) ==
  /\ NeedsPresence(m) => present
  /\ present' \in CASE effectOf(m) \in {"take", "drop"} -> {FALSE}
                    [] effectOf(m) = "set" -> {TRUE}
                    [] effectOf(m) = "signal" -> {TRUE, FALSE}
                    [] OTHER -> {present}
  /\ performed' = IF m = "sandboxes.createKeyed" /\ performed > 0 THEN performed ELSE performed + 1

Answers(status, verdict) ==
  /\ wire' = "answered"
  /\ answer' = [status |-> status, verdict |-> verdict,
                items |-> IF call \in {"sandboxes.list", "sandboxes.iterate"} /\ status = 200
                          THEN page(cursor).items ELSE <<>>,
                next |-> IF call \in {"sandboxes.list", "sandboxes.iterate"} /\ status = 200
                         THEN page(cursor).next ELSE 0]

\* Whatever answers instead of the service once the request reached it.
Faults == {500, 502}

\* The call is performed; a command that outlives its own timeout has been
\* run as well, and a fault may hide that anything was.
serve ==
  /\ wire = "sent" /\ phase # "mint" /\ Admitted
  /\ Perform(call)
  /\ \/ Answers(request.ok, "silent")
     \/ \E s \in Faults \cup (request.errors \cap {408}), v \in Verdicts : Answers(s, v)
  /\ UNCHANGED <<sandboxes, issued, valid, client, handle, call, run, strays, result, listing>>

serveMint ==
  /\ wire = "sent" /\ phase = "mint" /\ Admitted /\ issued < MaxTokens
  /\ issued' = issued + 1 /\ valid' = issued + 1
  /\ Answers(request.ok, "silent")
  /\ UNCHANGED <<sandboxes, present, client, handle, call, run, strays, performed, result, listing>>

Refusable == IF wire = "sent" THEN (request.errors \cup Faults) \ {408} ELSE {}

\* Nothing is done: a declared refusal, or a fault.
refuse(status, verdict) ==
  /\ wire = "sent"
  /\ client = "anonymous" /\ ~toAgent => status = Unauthorized
  /\ toAgent => (status = Unauthorized <=> cred # valid)
  /\ Answers(status, verdict)
  /\ UNCHANGED <<platform, client, handle, call, run, strays, performed, result, listing>>

\* A request that was given up on is served all the same, or is lost.
serveStray ==
  /\ strays > 0
  /\ strays' = strays - 1
  /\ Perform(call) \/ UNCHANGED <<present, performed>>
  /\ UNCHANGED <<sandboxes, issued, valid, client, handle, call, run, wire, answer, result, listing>>

\* Other clients, and the clock.
elsewhere ==
  /\ call # "none" /\ result = "none"
  /\ \/ NeedsPresence(call) /\ present' = ~present /\ UNCHANGED <<sandboxes, valid, stable>>
     \/ valid # 0 /\ onAgent(call) /\ valid' = 0 /\ UNCHANGED <<sandboxes, present, stable>>
     \/ /\ call = "sandboxes.iterate"
        /\ \E i \in Ids :
             \/ i \notin sandboxes /\ sandboxes' = sandboxes \cup {i}
             \/ i \in sandboxes /\ sandboxes' = sandboxes \ {i}
        /\ stable' = stable \cap sandboxes'
        /\ UNCHANGED <<present, valid>>
  /\ UNCHANGED <<issued, client, handle, call, run, wire, answer, strays, performed, result, cursor, yielded>>

-----------------------------------------------------------------------------
(* The SDK *)

\* errorFromResponse: the class by status, the verdict by the body where the
\* body has one.
classOf(status) ==
  CASE status = 401 -> "AuthenticationError"
    [] status = 403 -> "ForbiddenError"
    [] status = 404 -> "NotFoundError"
    [] status = 408 -> "CommandTimeoutError"
    [] status = 409 -> "ConflictError"
    [] status = 410 -> "SnapshotExpiredError"
    [] status = 429 -> "RateLimitError"
    [] status = 0 -> "TypeError"
    [] OTHER -> "FissionPlaneError"

retryable(status, verdict) ==
  IF verdict = "silent" THEN status = 429 \/ status >= 500 ELSE verdict = "yes"

\* Mutant of mayRetry: one attempt more than the budget has.
mayRetryOnceMore(status, verdict) ==
  /\ phase # "mint" /\ methods[call].idempotent
  /\ attempt <= MaxRetries
  /\ status = 0 \/ retryable(status, verdict)

\* A failure in transit, or the timeout, is retryable: status 0.
mayRetry(status, verdict) ==
  /\ phase # "mint" /\ methods[call].idempotent
  /\ attempt < MaxRetries
  /\ status = 0 \/ retryable(status, verdict)

\* Mutant of freshCred: the client built for the first token is used again.
cachedCred(token) == IF cred # 0 THEN cred ELSE token

\* dataplane: the client is built anew when the handle's token has changed.
freshCred(token) == token

\* Mutant of fails: the mint is recovered like the call it is made for.
failsMintAgain(status, verdict) ==
  IF mayRetry(status, verdict)
  THEN attempt' = attempt + 1 /\ wire' = "sent" /\ UNCHANGED <<phase, result>>
  ELSE IF status = Unauthorized /\ phase \in {"first", "mint"} /\ onAgent(call)
  THEN phase' = "mint" /\ attempt' = 0 /\ wire' = "sent" /\ UNCHANGED result
  ELSE result' = classOf(status) /\ wire' = "idle" /\ UNCHANGED <<phase, attempt>>

\* The attempt failed: the loop goes on, or the run throws; what a rejected
\* token throws out of the first run of a method of the agent is met with a
\* mint, and after it with the run again.
fails(status, verdict) ==
  IF mayRetry(status, verdict)
  THEN attempt' = attempt + 1 /\ wire' = "sent" /\ UNCHANGED <<phase, result>>
  ELSE IF status = Unauthorized /\ phase = "first" /\ onAgent(call)
  THEN phase' = "mint" /\ attempt' = 0 /\ wire' = "sent" /\ UNCHANGED result
  ELSE result' = classOf(status) /\ wire' = "idle" /\ UNCHANGED <<phase, attempt>>

\* The connection broke or the deadline passed: nobody knows where the
\* request is.  An answer that breaks off in its body is a request lost here and
\* served astray.
lose ==
  /\ wire = "sent"
  /\ strays' = IF phase = "mint" THEN strays ELSE strays + 1
  /\ fails(0, "silent")
  /\ answer' = NoAnswer
  /\ UNCHANGED <<platform, client, handle, call, cred, performed, listing>>

receiveError ==
  /\ wire = "answered" /\ answer.status >= 400
  /\ fails(answer.status, answer.verdict)
  /\ UNCHANGED <<platform, client, handle, call, cred, answer, strays, performed, listing>>

\* mintToken arms the handle, and the request is made once more.
minted ==
  /\ wire = "answered" /\ phase = "mint" /\ answer.status = 201
  /\ handle' = issued
  /\ phase' = "replay" /\ cred' = freshCred(issued) /\ wire' = "sent"
  /\ UNCHANGED <<platform, client, call, attempt, answer, strays, performed, result, listing>>

\* Mutant of receivePage: the cursor is left where it was.
receivePageAgain ==
  /\ wire = "answered" /\ call = "sandboxes.iterate" /\ answer.status = 200
  /\ Len(yielded) <= MaxIds
  /\ yielded' = yielded \o answer.items
  /\ IF answer.next = 0
     THEN result' = "ok" /\ wire' = "idle" /\ UNCHANGED <<cursor, attempt>>
     ELSE wire' = "sent" /\ attempt' = 0 /\ UNCHANGED <<result, cursor>>
  /\ UNCHANGED <<platform, client, handle, call, phase, cred, answer, strays, performed, stable>>

\* iterate: a page is yielded, and the next one is asked for if there is one.
receivePage ==
  /\ wire = "answered" /\ call = "sandboxes.iterate" /\ answer.status = 200
  /\ yielded' = yielded \o answer.items
  /\ cursor' = answer.next
  /\ IF answer.next = 0
     THEN result' = "ok" /\ wire' = "idle" /\ UNCHANGED attempt
     ELSE wire' = "sent" /\ attempt' = 0 /\ UNCHANGED result
  /\ UNCHANGED <<platform, client, handle, call, phase, cred, answer, strays, performed, stable>>

receive ==
  /\ wire = "answered" /\ answer.status \in 200..299
  /\ phase # "mint" /\ call # "sandboxes.iterate"
  /\ result' = "ok" /\ wire' = "idle"
  /\ UNCHANGED <<platform, client, handle, call, run, answer, strays, performed, listing>>

\* The caller's signal: an AbortError is neither of the SDK's nor a TypeError.
abort ==
  /\ wire = "sent"
  /\ strays' = IF phase = "mint" THEN strays ELSE strays + 1
  /\ result' = "AbortError" /\ wire' = "idle"
  /\ answer' = NoAnswer
  /\ UNCHANGED <<platform, client, handle, call, run, performed, listing>>

-----------------------------------------------------------------------------

Answering ==
  serve \/ serveMint \/ \E s \in Refusable, v \in Verdicts : refuse(s, v)

Receiving == receive \/ receivePage \/ receiveError \/ minted

Next ==
  \/ \E k, e, t \in Credentials : construct(k, e, t)
  \/ obtain
  \/ \E m \in Callable : start(m)
  \/ Answering \/ serveStray \/ elsewhere
  \/ Receiving \/ lose \/ abort

Spec == Init /\ [][Next]_vars

\* Calls are made with a timeout, which is the default: an attempt gets its
\* headers or runs into it (RequestPipeline, DeadlineBounds).  Nothing makes an
\* answer complete: the timer is off while its body is read.
FairSpec == Spec /\ WF_vars(Answering \/ lose)

-----------------------------------------------------------------------------
(* Properties *)

Refusals == {"AuthenticationError", "ForbiddenError", "NotFoundError", "ConflictError",
             "SnapshotExpiredError", "RateLimitError"}

Unkeyed == {m \in Names : effectOf(m) \in {"add", "take"}} \ {"sandboxes.createKeyed"}

\* What cannot be done twice, and was refused, was not done: the retry loop
\* never turns the refusal of a second attempt into the outcome of a first
\* one that was performed and whose answer was lost.  (A delete is declared
\* idempotent and may report that nothing is there when it has removed it.)
RefusedMeansUndone ==
  call \in Unkeyed /\ result \in Refusals => performed = 0

\* What adds up is performed at most once in a call: through timeouts, lost
\* answers, late service of abandoned attempts, and the replay after a mint;
\* and a create that is retried is one create, by its key.
AddsUpOnce ==
  call # "none" /\ effectOf(call) \in {"add", "take"} => performed <= 1

\* The documentation of the client: it never replays a request whose outcome
\* the caller cannot deduplicate.  A signal is one: the second is delivered
\* like the first.
NothingReplayedBlindly ==
  call # "none" /\ effectOf(call) \in {"add", "take", "signal"} => performed <= 1

\* A method of the agent ends with AuthenticationError only when the mint
\* was refused as well, or when the token minted for it, which the handle
\* holds and the request carried, has been invalidated since.
DeniedOnlyWithFreshToken ==
  call # "none" /\ onAgent(call) /\ result = "AuthenticationError" =>
    phase = "mint" \/ (phase = "replay" /\ cred = handle /\ cred = issued /\ cred # valid)

\* A sandbox that is there from the first page to the last is yielded, no
\* sandbox is yielded twice, however many are created and deleted between
\* two pages and however many attempts a page takes.
IterationComplete ==
  /\ \A i, j \in DOMAIN yielded : yielded[i] = yielded[j] => i = j
  /\ call = "sandboxes.iterate" /\ result = "ok" => stable \subseteq Range(yielded)

\* A budget of retries is a budget of effects: counting what was performed
\* and what may still be, a call reaches the platform at most once for each
\* attempt of its run, and as often again for the replay after a mint, which
\* has a budget of its own.  (An iteration is a call for every page.)
AttemptsBounded ==
  call \notin {"none", "sandboxes.iterate"} =>
    performed + strays <= (MaxRetries + 1) + (IF phase = "replay" THEN MaxRetries + 1 ELSE 0)

\* Retries, the mint and the replay are bounded, whatever is answered: a call
\* comes to an end, unless it hangs in one body that is never complete.  Of an
\* iteration it is not claimed: a collection that keeps growing keeps it going.
CallSettles ==
  call \notin {"none", "sandboxes.iterate"} ~> (result # "none" \/ [](wire = "answered"))
=============================================================================
