# FissionPlane in TLA+

FissionPlane runs untrusted code in Firecracker sandboxes. A control plane creates, pauses, resumes and deletes
sandboxes; an agent inside each sandbox (vm-steward) runs commands and serves files over HTTP and WebSockets; SDKs for
TypeScript, Rust and Python talk to both. Two web consoles, one for tenants and one for operators, sit beside it, each
with an API host of its own, and the site's scripts draw the brand's images. This directory holds TLA+ models of the
parts of the repository that carry concurrent or failure-prone logic, the TLC configurations that check them on small
instances, and TLAPS proofs for all values of the constants.

`PROJECT.json` lists the components, the runs, the mutants that show that a property can fail, the source lines every
definition stands for, the findings, the hazards and the theorems.

## Inventory

| Component | State it keeps | Operations | What is hard |
|---|---|---|---|
| SDK request pipeline (`http.ts`; `http.rs`, `retry.rs`; `_retry.py`, `_http.py`) | loop counter, deadline timer, signal | one API call: attempt, classify, back off, replay | an attempt given up on is still in the network; deadline, signal and answer race; the body comes after the headers |
| Sandbox handle (`sandbox.ts`, `dataplane.ts`, `commands.ts`, `files.ts`; `sandboxes.rs`, `token.rs`, `dataplane.rs`; `sandboxes.py`, `commands.py`, `files.py`) | last representation, capability token | refresh, pause, resume, extend, mint, delete; data-plane calls that recover from a 401 by minting a token and replaying | concurrent calls share the handle; responses return in any order; a call is made of three exchanges |
| Data-plane streams (`streaming.ts`; `streaming.rs`; `streaming.py`) | event queue, waiting consumers, outbound buffer, handshake timer | open, message, close, error, next, send, close, abort | callbacks in any order, listeners that throw or close the stream they are called from |
| Template build handle (`templates.ts`, `templates.rs`, `templates.py`) | last representation | refresh, wait | deadlines that pass during a read or a sleep; concurrent waits |
| Steward session (`vm-steward/src/session.rs`, `main.rs`; `vm-protocol/src/codec.rs`, `epoch.rs`, `session.rs`) | one task per connection, the epoch held | accept: read Hello, check version and epoch, negotiate limits, answer | connections are cut at any byte; lengths come from the peer; epochs of concurrent handshakes |
| vm-init backoff (`vm-init/src/backoff.rs`) | delay, last start | record_start, child_exited | saturation, cap and reset over long histories |
| SDK methods (`index.ts`, `sandbox.ts`, `ports.ts`, `commands.ts`, `files.ts`, `templates.ts`; `*/schema.gen.ts`) | the client's credential, the cursor of an iteration | construct, every method, iterate | which methods may be sent twice; a mint and a replay inside a call; the collection changes between pages |
| API hosts (`console-api`, `backoffice-api`, `libs/typescript/api`) | none but the request's | dispatch, gate, middleware, use case, failure path | session, organization and role are read by separate awaits; the gate runs before the router and decides by itself |
| Names, roles and permissions (`libs/typescript/core`, `console-web/src/features`) | none | parse a name, make a slug, grant a permission | limits of different lengths that feed each other |
| Web applications (`console-web`, `backoffice-web`) | route, form, navigation in progress | sign in, sign up, onboard, sign out, links, reloads, route guards | nothing is disabled while a submit runs; tabs share the session; navigations supersede each other; a guard belongs to a layout and not to its pages |
| Asset scripts (`marketing-site/scripts`) | none | rasterise, write PNG and ZIP, read SVG and fonts, compose the card and the brand files | edges: partial pixels, clipping, winding, wrap-around, offsets, malformed input |
| control-plane, gateway, vm-host, template-builder | none yet | health probe | stubs |
| domain, artifact-store, db, capability bitset | none | validation, declarations | - |
| component library, marketing pages, docs, generated Rust and Python clients | - | rendering, content | - |

How they interact: every request of the SDKs goes through the request pipeline; the handle composes up to three
pipeline runs into one call; streams are opened by the handle's `attach` and `watch`, and from then on are on their
own; a build handle polls through the pipeline. The control plane and the agent are the other side of those requests.
The consoles' pages ask Better Auth, and their API host asks it again for every guarded request, so that a page and
the host may see different sessions. Inside the sandbox vm-init restarts vm-steward, which is connected to again after
every pause.

What makes each part correct:

* pipeline: a call that cannot be deduplicated is performed at most once; an answer belongs to its attempt; an
  abort is final; the budget is used exactly; a call with a timeout settles, which two of the SDKs do not keep.
* handle: the same promise for the whole of a recovered call; a token is not widened behind the caller's back.
* methods: what cannot be deduplicated is done once; a refusal means that nothing was done; a call is denied only with a
  fresh token; an iteration misses nothing that was there throughout; a call whose answers come to an end settles.
* streams: events in order, nobody left waiting, failures reported, frames sent once and in order, the end is final.
* build: results are true of the build, timeouts and aborts are noticed in time, an abort by the next request.
* session: bounded memory, a host that was answered and the agent agree, a cut connection ends its task.
* backoff: the capped exponential of the time since the last stable run.
* hosts: data goes to members only, whatever headers came in; answers are ones the contract declares.
* web applications: nobody gets into a guarded layout without a session that entitled to it; an accepted name makes a
  valid slug.
* asset scripts: each algorithm computes what its definition says, at the edges too.

## Modules

| Module | Models | Extends or instantiates |
|---|---|---|
| `LogicalCall` | abstract: what an API call promises its caller | - |
| `RequestPipeline` | the retry loop of the three SDKs | refines `LogicalCall` |
| `SandboxHandle` | handle, recovery, control plane (external) | its exchanges are `LogicalCall` runs; refines `LogicalCall` again |
| `EventQueue` | abstract: what a stream promises the one who iterates over it | - |
| `StreamingEvents` | the TypeScript stream | refines `EventQueue` |
| `TemplateBuild` | build handle of the three SDKs | - |
| `StewardSession` | accept, the codec, epochs and limits | - |
| `RestartBackoff` | vm-init's backoff | - |
| `Contract` | the two generated contracts: operations, statuses, schemas | - |
| `SdkCalls` | every method of the TypeScript SDK against the contract | `Contract` |
| `Tenancy` | names, slugs, roles, permissions, the consoles' API contract | - |
| `Console` | both web applications and both API hosts over Better Auth (external) | `Tenancy` |
| `Raster` | canvas, exact rasteriser, PNG and ZIP writers | - |
| `Outlines` | SVG paths and groups, character maps, glyphs, contours | - |
| `BrandAssets` | the card, the brand files, and the comparison of all of it with reference definitions | `Raster`, `Outlines` |
| `MC...` | an instance of each for TLC | the module of that name |
| `...Proofs` | theorems about `RequestPipeline`, `SandboxHandle`, `StreamingEvents`, `TemplateBuild`, `StewardSession`, `RestartBackoff`, `SdkCalls`, `Console` | the module of that name |

### LogicalCall and RequestPipeline

`LogicalCall` has five actions. A call begins, the platform performs it (again only if it is replayable; possibly
after the caller has been told that it failed; never after it was denied, unless replayable), and it ends in success,
failure or denial. Success needs a performed attempt.

`RequestPipeline` has a coroutine per call (`pc`: idle, waiting for headers, reading the body, sleeping, settled) and
a network of requests and responses. `Start` is `RequestPipeline.send` up to the first await, `Headers` and `Body` are
the two awaits of an attempt, `Caught` the catch block that every failure runs through, `Wake` the end of the backoff.
`Deadline`, `ConnectFails`, `Reset`, `BodyBreaks`, `BodyDeadline` and `Abort` are the ways an attempt ends early.
`Serve` and `Lose` are the platform and the network, and `Trickle` has some more of an answer arrive or come to a stop,
which matters where a timer starts again with every read. The SDKs have the same loop and differ in a profile, a record
that the variable `sdk` gives each call, chosen in `Init` from the constant `Clients`:

| | replayed failures | body of a success read | deadline and signal cover the body |
|---|---|---|---|
| `TypeScript` (`http.ts` 112-290, `api/index.ts` 60-70) | transient, timeout, connect, reset | inside the loop | no: released at `http.ts` 164-165 |
| `TypeScriptBytes` (`files.ts` 371-442) | the same | outside | no |
| `Rust` (`http.rs` 91-201) | transient, timeout, connect | outside (`send_json`) | yes, reqwest's one deadline |
| `Python` (`_retry.py` 80-200, `_http.py`) | transient, timeout, connect, reset | inside | per read: httpx's timeout starts again with every byte (`_http.py` 34-48) |

Responses are reduced to ok, transient (stated or presumed retryable), denied (401) and refused. Backoff durations do
not matter to the properties: a sleep lasts any time.

### SandboxHandle

The state is the platform's (epoch, status, tokens with their epoch, scope and expiry), the handle's (`armed`, `info`)
and that of every call. A lifecycle call is one exchange (`StartControl`, `ControlReturns`, `ControlFails`); a
data-plane call goes through `StartData`, perhaps `DataDenied`, `Remint`, `MintReturns`, `Replay`. The pipeline inside
each exchange is replaced by `LogicalCall`, which `RequestPipelineProofs!Refinement` justifies. One action stands for
the same step in the TypeScript, Rust, Python and asynchronous Python classes; the map names one of them for each
definition, so that between them the definitions name all four.

| | replay carries | mint asks for | token resolved | stream handshake re-minted | lifecycle methods |
|---|---|---|---|---|---|
| TypeScript | the handle's token | full scope | once per run | no | may overlap |
| Rust | the minted token | scope of the replaced token | once per run | yes | `&mut self` |
| Python | the handle's token | full scope | every attempt | yes | may overlap |

`TypeScriptLifecycle`, `RustCommands` and the others are the methods whose requests an SDK's pipeline may repeat,
class by class. Methods that differ neither in their effect on the handle nor in being retried share a name (`get` for
the reads). The platform is external: what it does is what the SDKs rely on (a resume advances the epoch and issues a
token, a token of another epoch or past its expiry is answered 401 before anything happens).

### StreamingEvents

One action per handler: `onOpen`, `onMessage`, `onError`, `onClose`, `HandshakeTimeout`, `abort`, and the caller's
`next`, `send` and `close`. `onMessage` runs a listener that returns, throws or closes the stream. Frames are
numbered, and are an event, of an unknown type, or malformed. Frames already on their way may be delivered after the
socket was told to close.

`EventQueue` is the promise behind it: one queue from the server to the calls of `next`. A frame is offered, may be
passed over if it is of an unknown type, and is served to the call whose turn it is; a call may wait; the end cuts
what was on its way down to a beginning, answers whoever waits, and is told to later calls once that beginning is
read. The mapping puts the events that were received and not read and the frames still on their way in one row.

### TemplateBuild

`wait` and `refresh` on one handle, with a discrete clock that does not pass over a timer that is due and a bound
`Latency` on a read. TypeScript reads before it looks; Rust and Python look at the representation they hold. Rust's
methods exclude each other; a dropped future or a cancelled task ends wherever it is. In TypeScript an abort ends a
read up to its headers; after them nobody listens (`http.ts` 163-165), and the sleep between two polls does not
either. `Abort` therefore has two outcomes in a read: heard, or missed with the answer on its way.

### StewardSession

A task per connection: `ReadPrefix`, `ReadBody` or `Eof`, `WriteRefusal`, `WriteAck` or `WriteAckFails`. `Currents` is
what accept may be given as `current_epoch`, an epoch or none. The host is external: it sends any first frame, and may
be cut off at any time.

### RestartBackoff

`record_start` and `child_exited` with the clock between them. `uncapped` is a history variable: the delay without cap
and saturation.

### Contract and SdkCalls

`Contract` has a definition per operation of the control plane and of the agent (fields of the request, success
status, returned schema, declared errors) and per schema. In `SdkCalls` each method is a row (path, verb, `idempotent`
as the source declares it, fields it sends, fields it reads from the answer); the assumption `ShapesAgree`, which TLC
evaluates, relates the two tables. A behaviour constructs a client, may obtain a handle, and makes one call: `start`,
then attempts that are served, refused with a declared status, faulted or lost, `fails` (the catch of the loop),
`receiveError` and `minted` (`withFreshToken`), `receivePage` (`iterate`). A request that was given up on may be
served later (`serveStray`), tokens expire and other clients create and delete (`elsewhere`). `effectOf` (external)
says what performing a method does: it reads, sets, adds, takes, drops or delivers a signal. Here the retry loop has
the effect of the contract and the methods on it, where `RequestPipeline` has its races.

### Tenancy and Console

A character is one of five classes (lower case, upper case, other, space, tab), a name is a sequence of them, and the
parsers and `createOrganizationSlug` do to it what the source does, with the source's limits (80, 100, 63, 38).
`replaceAll(/[^a-z0-9]+/g, '-')` is the row of the characters it keeps: every letter and digit, and the first of every
run of anything else, which becomes the hyphen.

A behaviour of `Console` is one of four programs: `console-web`, `backoffice-web`, `console-api`, `backoffice`. A flow
is one run of an async function; `Await` is its await, `authServes` the answer, and the step named after the code that
follows it acts on it. `Navigate`, `Redirect` and `Commit` are the router: the latest navigation of a tab wins. The
guard of the pages in a layout is the loader of the layout's route (`Guards`): it runs when a tab enters the layout,
and when the page shown is navigated to again, and not between two pages of the layout. `open` is a link or the
browser's back and forward; `load` is a reload or the address bar, which starts the application anew, guards included,
and leaves the calls of the old document unheard (`Left`, `unheard`): they may still have their effect. In a host a
request goes from `receive` over `dispatch`, the gate (`resolveSession`, `resolveMember`; `authorizeOperator`),
`handle` and `writeBody`, and `fails` from anywhere, which answers 500 if no head is out. `listAlias` is a spelling of
the route that the router resolves and the gate's matcher does not. `seen` is a history variable: what was true at
some moment since the flow began.

### Raster, Outlines and BrandAssets

Pure algorithms, written with folds. A state of `BrandAssets` is one computed task: its input and its output. Every
action is a family of inputs (`Paint`, `PlaceLockup`, `WriteZip`, `ReadGlyph`, ...) and the properties compare the
output with a definition of another kind: the winding number of a sample for a span, a decoder for an encoder, an
encoder for a decoder, every path down a composite glyph for the recursion. Coordinates are integers in units of a
pixel's subdivision; a machine word is the set of its bits; a colour is one channel. The font's numbers (cap height
698, ascender 1.0 and descender 0.275 of an em, 1000 units) are those of the font the script loads; the advance, 600
in that font, is varied.

## Runs

| Run | Question | Result |
|---|---|---|
| `pipeline_calls` | the retry loop of every SDK, two retries: the inductive invariant, at-most-once, answers of their own attempt, the budget, aborts, the implementation of `LogicalCall`, what the deadline bounds in each SDK: silence in Python, nothing after the headers in TypeScript | holds |
| `pipeline_timeouts` | of a TypeScript and a Python call with a timeout, one settles at the least | violated: one behaviour in which both hang |
| `handle_calls` | two concurrent calls through a handle of each SDK: recovery implements the call, a replay with its own token cannot be denied by someone else's, and where the lifecycle methods exclude each other the representation never goes back | holds |
| `handle_scope` | a re-mint never widens, Rust | violated |
| `stream_handlers` | every order of callbacks, consumers and sends, with listeners that return, throw or close the stream, and a signal that fires before or after; failures are reported, frames sent in order, the handshake ends; the implementation of `EventQueue` | holds |
| `build_waits` | `wait` of each SDK is truthful and punctual, aborts that are heard late included | holds |
| `steward_accept` | `accept` for every frame, epoch and cut: memory, agreement, an end | holds |
| `backoff_doubling` | the backoff's invariants | holds |
| `sdk_calls` | one call of every method: nothing added twice, no refusal of what was done, fresh tokens, complete iterations, effects within the budget of attempts, an end unless a body never comes | holds |
| `sdk_replayed_signal` | nothing is replayed that cannot be deduplicated, `kill` | violated |
| `console_flows` | the four programs while session and memberships change: members only, declared answers, guarded layouts, names, an end | holds |
| `brand_assets` | the scripts' algorithms against reference definitions | holds |

Four documented claims that the code does not keep have a run; each is quoted in PROJECT.json under "findings". A fifth,
of a stream's signal that fired before, is under the observations below.

1. TypeScript releases the deadline and the signal when the headers are in, so a stalled body outlives both.
2. Python's request timeout is applied to each read: an answer that trickles outlives any budget.
3. A Rust re-mint reads the scope before its await and replaces the token after it; a token attenuated meanwhile is
   widened.
4. A TypeScript `kill` is declared idempotent, and a lost answer delivers its signal twice (the other SDKs do not repeat
   it).

### Observations without a run

* A `refresh` answered before a concurrent `resume` and delivered after it puts the older epoch back into the handle
  (`sandbox.ts` 126; line 63 calls it "the latest known representation"). Python does the same. In Rust these methods
  take `&mut self` and cannot overlap: `RepresentationAdvances` is that difference, and its mutant is a Rust handle
  without the exclusion.
* A stream listener that closes its stream leaves the event in the queue, and `next` delivers it after the end
  (`streaming.ts` 122-131).
* A TypeScript stream opened with a signal that has fired already stays open: the constructor adds a listener for the
  event and does not look at `signal.aborted` (`streaming.ts` 71), where `streaming.ts` 15, `commands.ts` 88 and line
  116 of the SDK's README say that the signal closes the stream. `stream_handlers` has such streams among its
  behaviours (`PreAborted`), and no property says of them what the documentation does.
* A Rust re-mint may overwrite the token of a newer epoch that `resume` stored; the next call then mints again.
* A delete whose first answer was lost is sent again and reports that there is nothing to delete. `RefusedMeansUndone`
  leaves deletes out for that reason.
* An API key in the environment wins over an access token in the options (`index.ts` 112).
* vm-steward's `main` passes no current epoch to `accept` (`main.rs` 31), so that the refusal of a stale epoch, which
  `steward_accept` goes through, is not met in that binary yet.
* An acknowledgement that was written and did not arrive leaves the agent with a session its host does not know of.
* A page of a guarded layout is shown after the session has ended, if the tab gets to it from another page of the
  layout: with a sandbox's page open and the session ended in another tab, "Back to sandboxes" (`sandbox-page.tsx` 9)
  runs no guard, since the guard is the layout's loader (console `router.tsx` 57-60, backoffice `router.tsx` 52-54).
  The API host still gates the data, and nothing in the repository says that such a link is guarded; `GuardedPages`
  claims the guard for every way into the layout.
* Every role may read sandboxes, so that `ForbiddenError` is declared and cannot be answered yet.
* A failed `organization.list` sends a member to the onboarding form (`auth-client.ts` 27); a failed `signOut` shows
  the sign-in page over a session that stands (`authenticated-layout.tsx` 11); two submits make two organizations.
* The path reader drops a command letter it does not know, where its comment says that anything else throws
  (`shapes.mjs` 18, 20-23); after a close it keeps the current point instead of going back to the start of the
  subpath. `gridUnitOf` returns 1 as soon as a coordinate is not an integer, which lets a whole scale pass. The marks
  have neither.

### Bounds

| Module | Bound | Why it is enough |
|---|---|---|
| RequestPipeline | one call, `MaxRetries` 2; for `pipeline_timeouts` a call of each of two SDKs, no retries | calls share nothing; with two retries an attempt can be late by one and by two; a call hangs in its first attempt already |
| SandboxHandle | two calls whose exchanges are one attempt, nine kinds of methods; `MaxEpoch` 2, `MaxTokens` 3 | a race needs two calls; a token can be outdated by epoch, by expiry and by both; retries inside an exchange are the pipeline's business |
| StreamingEvents | 3 frames, 4 calls of `next`, 2 sends | two waiting, one queued and one late |
| TemplateBuild | two calls, a horizon of a few polls | a timeout, an abort and the end of the build fall before, in and after a read and a sleep |
| StewardSession | one connection | connections share nothing: accept is given the current epoch as a value |
| SdkCalls | one call, `MaxRetries` 1, two tokens, three sandboxes in pages of one | an abandoned attempt needs one retry; a token is stale or fresh; three pages leave room for a change before, at and after the cursor |
| Console | one tab, two flows, one organization, one sandbox's page, six names; in a host one request at a time | a race needs two flows; requests share nothing in a host; other tabs and members are `elsewhere`; the names lie on both sides of every limit. With one organization a request meets its end and the loss of the membership, and not a switch to a second one: that case is covered by the theorem `ListsAreForMembers`, for any set of organizations |
| BrandAssets | `SUBSAMPLES` 2 (16 in the code), a canvas of 2 by 2, glyphs of three points, composites nested up to six deep, the wordmark moved by 3 (56) | every way a span can begin, end and be clipped, and every partial coverage of a row, happens; flags, contours and cycles are all at their edges |
| RestartBackoff | small durations, a saturation point and a horizon | the delay reaches the cap, falls back and reaches it again |

Symmetry is used where calls are interchangeable and no liveness is checked. Deadlock checking is off where the system
really stops: calls, streams and connections settle, clocks end at their horizon.

### Fairness

* `RequestPipeline`: only the SDK's timers (`Deadline`, `BodyDeadline`, `Wake`), which the runtime fires. A timer that
  starts again with every read (Python) is not due while something arrives, and what keeps arriving can hold it off
  for ever. Nothing is assumed of the network, the platform or the caller.
* `SdkCalls`: a request that was sent is answered or runs into its timeout, which holds of calls with a timeout, up to
  the headers. Nothing is assumed of the body, which may never come (`pipeline_timeouts`), nor of what is answered:
  `CallSettles` says that a call gets its result unless it hangs in a body for ever. It is not claimed of an
  iteration, which goes on as long as there are pages.
* `Console`: Better Auth answers or fails, and what awaits it goes on. Nothing is assumed of the user, of what is
  answered, or of the other tabs and members.
* `StreamingEvents`: only the handshake timer.
* `StewardSession`: a task whose read or write is ready is polled.

## Proofs

Each `...Proofs` module has the same layout: the inductive invariant `IInv` as a conjunction of named parts, one lemma
per action, the theorem that `IInv` holds, and the theorems that follow from it. None of the properties is inductive by
itself. Where an invariant speaks of one call, connection or flow, a lemma says that a step of one leaves the others
alone, and each action is then looked at for one only. Every theorem is about `Spec`, without fairness, and so about
`FairSpec` too.

**RequestPipelineProofs**: for any calls, any `MaxRetries`, any mix of SDKs; from `MaxRetriesAssumption` and
`ClientsAssumption`.

* `Invariance`: `AtMostOnce` needs that a call that is not idempotent never leaves its first attempt and never sleeps,
  and that whatever is in the network belongs to an attempt that was made (`LoopInv`, `SentInv`);
  `ResolvedByOwnAttempt` needs that an answer tells the truth about its own attempt, on the way back and while its
  body is read (`AnswerInv`).
* `TypeCorrect`, `PerformedAtMostOnce`, `AnsweredByOwnAttempt` follow; `BudgetIsSpent`, of the clients that read the
  body inside the loop, is inductive once `Invariance` is known.
* `AbortsAreFinal`: after an abort nothing is sent, since a call that was aborted is neither waiting nor sleeping.
* `Refinement`: every step is a step of `LogicalCall` or leaves its variables unchanged. The interesting cases are
  `Serve` (an attempt performed after the call failed, and not after it was denied) and the failures that may be a
  denial.

**SandboxHandleProofs**: for any calls, epochs and tokens, and each kind of handle; from `BoundsAssumption` and
`HandlesAssumption`.

* `HandleInvariant`: the order of first try, mint and replay and what each may have done (`RunsInv`, `RetryInv`), that
  tokens only get stale (`PlatformInv`), and which token a replay was rejected for (`TokenInv`).
* `OwnTokenIsEnough`: a handle that replays with its own token is denied only if that token is stale.
* `RecoveryRefines`: the whole recovery implements `LogicalCall`, with the pieces it is made of being `LogicalCall` runs
  themselves. A first try that was denied and is replayed had no effect, unless the call may be repeated.
* `CommandsRunOnce`: a command that may not be repeated is performed at most once over first try, mint and replay. It is
  proved of `LogicalCall` and carried over by `RecoveryRefines`.
* `InfoOnlyAdvances`: where lifecycle methods exclude each other, the stored representation never goes back. `InfoInv`
  puts three stages in a row: what the handle holds, the answer of the one call in progress once it was performed, and
  what the platform is in now. Other clients move only the last, and forward.

**StreamingEventsProofs**: for any number of frames, consumers and sends, and any listener; from `BoundsAssumption`,
`ListenersAssumption` and `PreAbortedAssumption`.

* `StreamInvariant`: every frame is in one of inbox, queue and answered, which are in that order of number
  (`FramesInv`, `AnswerInv`); the consumers that wait are the last to have called, and nobody waits while there is
  something to read (`WaitInv`); frames wait exactly while the handshake lasts (`SendInv`).
* `EndReleasesConsumers`, `EventsInOrder`, `FailuresSurface`, `FramesSentInOrder`, and of steps `EndIsFinal`.
* `StreamIsQueue`: every handler is a step of `EventQueue` or leaves its variables unchanged. Handing an event to a
  waiting consumer is serving the head of the row, since nobody waits while there is something to read; putting it in
  the queue leaves the row as it is; a frame that is passed over leaves from the middle. The lemmas about sequences
  say how the row changes when an end of it does. `stream_handlers` checks the refinement, and not the three
  properties it implies of the model (`NobodyWaitsAfterEnd`, `AnsweredInOrder`, `NothingAfterEnd`), which the theorems
  above state on their own.

**TemplateBuildProofs**: for any intervals, timeouts and latencies, and each SDK's loop; from `BoundsAssumption` and
`HandlesAssumption`. `WaitInvariant` says of a call when the timer it sleeps on was set and when its last read was
served, relative to the deadline, the abort and the end of the build; the bounds `TimeoutsAreTrue`,
`OverrunIsBounded`, `EndIsNoticed`, `AbortIsNoticed` (a read that was begun before the signal, then one sleep) are
then arithmetic, and `ReportsAreTrue` needs that an ended build does not change.

**StewardSessionProofs**: for any connections, epochs, limits and frame ceiling; from `EpochsAssumption`,
`SizeAssumption` and `LimitsAssumption`. `SessionInvariant` follows a connection from its buffer over the verdict to
the reply and to what the host learnt of it. `HandshakeMemory` and `HandshakeAgreement` (the two sides compute the
limits from opposite arguments, so `negotiate` is shown to be symmetric) follow.

**RestartBackoffProofs**: for all durations, from `DurationsAssumption`: `BackoffInvariant`, `DelayIsCappedExponential`,
`RestartIsPaced`. The invariant relates the delay to come to the history variable: doubling and cutting off at each
step is cutting off the double.

**SdkCallsProofs**: for any `MaxRetries`, tokens, page size and collection; from `SdkBounds`, `CallableAssumption` and
`ShapesAgree`. The last one has no constant in it: TLC decides it, and it says that the two tables agree.

* `Sound` and `NotReplayable` go through the method table row by row: a method with an effect that adds up is not
  declared idempotent, or has a key. Everything after it speaks of a method by its effect only.
* `CallInvariant`: a call that must not be repeated is in one place, not performed and with no request astray unless
  this attempt was answered by the platform that performed it or the call is over (`OnceInv`); the attempts of a keyed
  create are one (`KeyInv`); a replay carries the last token issued (`TokenInv`). `RefusalsAreTrue`, `AddedOnce` and
  `DeniedWithFreshToken` follow.
* `BudgetHolds`: `BudgetInv` counts what was performed, what is astray and what is under way against the attempts made
  so far. A request that is lost moves from under way to astray, and a late one from astray to performed, so that the
  sum grows only with an attempt; the counter starts again at a replay, on top of a first run that is over.
* `IterationIsComplete`: the cursor is behind everything yielded and in front of everything that is stable and still
  to come. It needs that a page is an initial piece of the rest in ascending order; that such an order exists for a
  finite set is shown by counting what is below an element.

**ConsoleProofs**: for any tabs, flows, organizations and names, of the four programs at once; from `ConsoleBounds` and
`NamesAssumption` (a name is a sequence of characters).

* `ConsoleInvariant`: `PlaceInv` and `TabInv` keep the programs apart (no request in a tab, no form in a host, no page
  of the console in the backoffice); `GuardInv`: an answer that lets a navigation through was true when it came, and
  is in `seen`; `SubjectInv`: between the dispatch and the answer the subject is nobody or was resolved, and only the
  guarded route is at the gate; `AnswerInv`: the status of a head that is out, the catch's 500 included.
* `ListsAreForMembers`, `AnswersAreDeclared`, and of steps `PagesAreGuarded`: only a `Commit` gets into a layout from
  outside, since `Guards` lets a navigation pass only inside it and a reload starts from a blank tab.
* `AcceptedNamesFit`: for names of any length. Between one kept character and the next no character is kept, so that
  no two hyphens meet in the hyphenated name, and taking one off each end leaves a letter or digit there (or nothing,
  and then the prefix is `organization`). Cutting at 38 may leave a hyphen at the end, which the identifier's
  separator and its 24 characters follow: 38 + 1 + 24 is the 63 that a label may have. The organization's name made of
  a user's name is 15 longer, within 100 for the 80 of a user's name.

Only model-checked: everything under fairness (`TimedCallSettles`, `DeadlineBounds`, `CallSettles`, `FlowsEnd`,
`HandshakeEnds`, `SeveredEnds`), which is out of the prover's reach; and what the folds and parsers of the asset scripts
compute (`PixelsExact`, `FilesReadBack`, `OutlinesFaithful`), since that takes induction over data. Everything else that
a passing run checks is a theorem.

## Not modelled

* Delays and jitter of the retries, message texts, header names, logging.
* The encoding of frames and bodies: a frame is known by what the code finds in it.
* The Python modules' cached HTTP client (`commands.py` 128-148).
* Pull streams of Rust and Python: the WebSocket library's.
* The facades of Rust and Python beyond the pipeline and the handle, and their generated clients.
* Better Auth, the query cache and the lazy imports of the web applications, and what pages show.
* In the asset scripts: decompression of the font file, colour conversion, the arcs of the chip's corners, how finely a
  curve is divided.
* The services that are stubs, declarations, rendering and text: the database schema, the component library, the
  marketing pages, the documentation. PROJECT.json gives a reason for each.

## Plan

Modelling: the shutdown of the API hosts, and the Rust and Python facades as further columns of the method table.
Proofs: that a `TemplateBuild` wait and a stream's handshake settle, once liveness is in the prover's reach.

The runs are few and broad on purpose: a module that varies by SDK takes the SDK as a variable, so that one run asks its
question of all of them.
