--------------------------- MODULE SandboxHandle ---------------------------
(***************************************************************************)
(* A live handle on one sandbox, used by several calls at once.  The       *)
(* handle keeps the last representation it read and the capability token   *)
(* its data-plane calls carry; lifecycle calls overwrite both when their   *)
(* responses come back, and a data-plane call that is answered 401 mints a *)
(* token, arms the handle with it, and makes its request once more.        *)
(*                                                                         *)
(* Every HTTP exchange is a run of LogicalCall, which the request pipeline  *)
(* of each SDK implements (RequestPipeline): a data-plane call is made of  *)
(* up to three runs, its first try, the mint and the replay.  The control  *)
(* plane, which serves all clients of the sandbox, is external: it is      *)
(* modelled from the contract the SDK is written against.                  *)
(***************************************************************************)
EXTENDS Naturals

CONSTANTS
  Calls,                        \* calls made through the handle
  Methods,                      \* the methods they may call: DataOps, ControlOps
  RunAttempts,                  \* attempts a run of the pipeline may be made of
  MaxEpoch,                     \* bound: instances the sandbox goes through
  MaxTokens,                    \* bound: capability tokens issued for it
  Handles                       \* the SDKs the handle may be of, as below

ASSUME BoundsAssumption == MaxEpoch \in Nat \ {0} /\ MaxTokens \in Nat \ {0}

VARIABLES
  epoch,                        \* platform: instance the sandbox runs as
  status,                       \* platform: lifecycle state of the sandbox
  issued,                       \* platform: number of tokens issued
  epochOf,                      \* platform: the epoch each token is bound to
  scopeOf,                      \* platform: the ports each token reaches
  expired,                      \* platform: tokens past their expiry
  sdk,                          \* the SDK the handle is of
  armed,                        \* the handle's token, 0 when it has none
  info,                         \* the handle's representation of the sandbox
  op,                           \* the method each call runs
  pc,                           \* where each call is suspended
  cred,                         \* the token the call's request carries
  asks,                         \* the ports requested of the mint
  rejected,                     \* data-plane runs the agent answered 401
  answer,                       \* what a call's control-plane response says
  outcome, replayable, effects  \* the runs: see LogicalCall

platform == <<epoch, status, issued, epochOf, scopeOf, expired>>
handle == <<sdk, armed, info>>
calls == <<op, pc, cred, asks, rejected, answer>>
runs == <<outcome, replayable, effects>>
vars == <<platform, handle, calls, runs>>

Tokens == 1..MaxTokens
Epochs == 0..MaxEpoch
Scopes == {"full", "narrow"}
Infos == [epoch : Epochs, status : {"running", "paused", "terminated"}]

\* The exchanges a call is made of; a lifecycle call has only its first.
Phases == {"first", "mint", "replay"}
Runs == Calls \X Phases

LC == INSTANCE LogicalCall WITH Attempts <- RunAttempts

-----------------------------------------------------------------------------
(***************************************************************************)
(* Where the SDKs' handles differ.                                         *)
(*  ownToken     the replay carries the token minted for it, rather than   *)
(*               the one the handle holds by then                          *)
(*  keepsScope   the mint asks for the ports of the token it replaces      *)
(*  rereads      every attempt of a run resolves the token anew            *)
(*  remintStream a rejected WebSocket handshake is recovered like a call   *)
(*  exclusive    lifecycle methods borrow the handle mutably, so no two    *)
(*               are ever in progress                                      *)
(*  retried      the methods whose requests the pipeline may repeat        *)
(***************************************************************************)
\* The methods each class of an SDK declares idempotent, or for Rust sends
\* as a GET: the others are never repeated by its pipeline.
TypeScriptLifecycle == {"refresh", "delete"}
TypeScriptCommands == {"get", "kill"}
TypeScriptFiles == {"get", "put"}

RustLifecycle == {"refresh"}
RustCommands == {"get"}
RustFiles == {"get"}

PythonLifecycle == {"refresh"}
PythonCommands == {"get"}
PythonFiles == {"get"}

TypeScript ==
  [ownToken |-> FALSE, keepsScope |-> FALSE, rereads |-> FALSE,
   remintStream |-> FALSE, exclusive |-> FALSE,
   retried |-> TypeScriptLifecycle \cup TypeScriptCommands \cup TypeScriptFiles]

Rust ==
  [ownToken |-> TRUE, keepsScope |-> TRUE, rereads |-> FALSE,
   remintStream |-> TRUE, exclusive |-> TRUE,
   retried |-> RustLifecycle \cup RustCommands \cup RustFiles]

Python ==
  [ownToken |-> FALSE, keepsScope |-> FALSE, rereads |-> TRUE,
   remintStream |-> TRUE, exclusive |-> FALSE,
   retried |-> PythonLifecycle \cup PythonCommands \cup PythonFiles]

Profiles == {TypeScript, Rust, Python}

ASSUME HandlesAssumption == Handles \subseteq Profiles

\* Data-plane methods, by what tells their requests apart: run stands for
\* start and move too, get for the reads, put for the writes of files.write,
\* makeDir and remove, attach for the streams (attach, watch).
DataOps == {"run", "get", "put", "kill", "attach"}

ControlOps == {"refresh", "pause", "resume", "extend", "mintFull", "mintNarrow", "delete"}

Settled == {"ok", "failed", "denied"}

None == [epoch |-> 0, status |-> "terminated", token |-> 0]

TypeOK ==
  /\ epoch \in Epochs \ {0} /\ status \in {"running", "paused", "terminated"}
  /\ issued \in Tokens
  /\ epochOf \in [Tokens -> Epochs] /\ scopeOf \in [Tokens -> Scopes]
  /\ expired \in SUBSET Tokens
  /\ sdk \in Profiles /\ armed \in {0} \cup Tokens /\ info \in Infos
  /\ op \in [Calls -> DataOps \cup ControlOps \cup {"none"}]
  /\ pc \in [Calls -> {"idle", "control", "first", "reject", "mint", "armed", "replay"} \cup Settled]
  /\ cred \in [Calls -> {0} \cup Tokens]
  /\ asks \in [Calls -> Scopes]
  /\ rejected \in SUBSET Runs
  /\ answer \in [Calls -> [epoch : Epochs, status : {"running", "paused", "terminated"},
                          token : {0} \cup Tokens]]
  /\ LC!CallTypeOK

\* The handle comes from create, armed, or from get or list, without a token.
Init ==
  /\ epoch = 1 /\ status = "running" /\ expired = {}
  /\ issued = 1
  /\ epochOf = [t \in Tokens |-> IF t = 1 THEN 1 ELSE 0]
  /\ scopeOf = [t \in Tokens |-> "full"]
  /\ sdk \in Handles /\ armed \in {0, 1}
  /\ info = [epoch |-> 1, status |-> "running"]
  /\ op = [c \in Calls |-> "none"]
  /\ pc = [c \in Calls |-> "idle"]
  /\ cred = [c \in Calls |-> 0]
  /\ asks = [c \in Calls |-> "full"]
  /\ rejected = {}
  /\ answer = [c \in Calls |-> None]
  /\ LC!CallInit

-----------------------------------------------------------------------------
(* The platform: what the contract says of it, for every client it has *)

\* A token of another epoch or past its expiry is answered 401.
Stale(t) == t \in expired \/ epochOf[t] # epoch

\* A new token for epoch e.
Issue(scope, e) ==
  /\ issued < MaxTokens
  /\ issued' = issued + 1
  /\ epochOf' = [epochOf EXCEPT ![issued + 1] = e]
  /\ scopeOf' = [scopeOf EXCEPT ![issued + 1] = scope]

Expire(t) ==
  /\ t <= issued
  /\ expired' = expired \cup {t}
  /\ UNCHANGED <<epoch, status, issued, epochOf, scopeOf>>

PauseVm ==
  /\ status = "running"
  /\ status' = "paused"
  /\ UNCHANGED <<epoch, issued, epochOf, scopeOf, expired>>

\* The resumed instance has a new epoch, and a token for it comes with it.
ResumeVm ==
  /\ status = "paused"
  /\ epoch < MaxEpoch
  /\ status' = "running"
  /\ epoch' = epoch + 1
  /\ Issue("full", epoch + 1)
  /\ UNCHANGED expired

TerminateVm ==
  /\ status # "terminated"
  /\ status' = "terminated"
  /\ UNCHANGED <<epoch, issued, epochOf, scopeOf, expired>>

MintVm(scope) ==
  /\ status = "running"
  /\ Issue(scope, epoch)
  /\ UNCHANGED <<epoch, status, expired>>

\* What the control plane does for each method.
Serves(o, scope) ==
  CASE o = "refresh" -> UNCHANGED platform
    [] o = "extend" -> status # "terminated" /\ UNCHANGED platform
    [] o = "pause" -> PauseVm
    [] o = "resume" -> ResumeVm
    [] o = "delete" -> TerminateVm
    [] OTHER -> MintVm(scope)

\* Other clients of the same sandbox, and the clock.
Elsewhere ==
  /\ PauseVm \/ ResumeVm \/ TerminateVm \/ \E t \in Tokens \ expired : Expire(t)
  /\ UNCHANGED <<handle, calls, runs>>

-----------------------------------------------------------------------------
(* Runs, as the platform sees them *)

\* The control plane performs a run: its answer describes the sandbox after
\* it, and carries the token it issued.  When an earlier attempt was also
\* performed either answer may be the one that comes back.
ControlServes(c, k) ==
  /\ \/ k = "first" /\ op[c] \in ControlOps /\ Serves(op[c], asks[c])
     \/ k = "mint" /\ Serves("mint", asks[c])
  /\ LC!Perform(<<c, k>>)
  /\ \/ answer' = [answer EXCEPT ![c] =
           [epoch |-> epoch', status |-> status',
            token |-> IF issued' = issued THEN 0 ELSE issued']]
     \/ effects[<<c, k>>] # {} /\ UNCHANGED answer
  /\ UNCHANGED <<handle, op, pc, cred, asks, rejected>>

\* The agent checks the token before it does anything.
AgentServes(c, k) ==
  /\ op[c] \in DataOps /\ k # "mint" /\ outcome[<<c, k>>] # "none"
  /\ status = "running" /\ ~Stale(cred[c])
  /\ <<c, k>> \in rejected => replayable[<<c, k>>]
  /\ LC!Perform(<<c, k>>)
  /\ UNCHANGED <<platform, handle, calls>>

AgentRejects(c, k) ==
  /\ op[c] \in DataOps /\ k # "mint"
  /\ outcome[<<c, k>>] = "pending" /\ Stale(cred[c])
  /\ replayable[<<c, k>>] \/ effects[<<c, k>>] = {}
  /\ rejected' = rejected \cup {<<c, k>>}
  /\ UNCHANGED <<platform, handle, op, pc, cred, asks, answer, runs>>

-----------------------------------------------------------------------------
(* The caller's side *)

\* A run that was aborted before it was sent settles its call at once.
Begins(c, k, place) ==
  /\ LC!Begin(<<c, k>>)
  /\ replayable' = [replayable EXCEPT ![<<c, k>>] = k # "mint" /\ op'[c] \in sdk.retried]
  /\ pc' = [pc EXCEPT ![c] = IF outcome'[<<c, k>>] = "pending" THEN place ELSE "failed"]

\* Mutant of StartControl: the handle may be borrowed by several calls.
StartControlShared(c, o) ==
  /\ pc[c] = "idle"
  /\ op' = [op EXCEPT ![c] = o]
  /\ asks' = [asks EXCEPT ![c] = IF o = "mintNarrow" THEN "narrow" ELSE "full"]
  /\ Begins(c, "first", "control")
  /\ UNCHANGED <<platform, handle, cred, rejected, answer>>

\* refresh, pause, resume, extendDeadline, mintToken, delete: the request.
StartControl(c, o) ==
  /\ pc[c] = "idle"
  /\ sdk.exclusive => \A d \in Calls : pc[d] # "control"
  /\ op' = [op EXCEPT ![c] = o]
  /\ asks' = [asks EXCEPT ![c] = IF o = "mintNarrow" THEN "narrow" ELSE "full"]
  /\ Begins(c, "first", "control")
  /\ UNCHANGED <<platform, handle, cred, rejected, answer>>

Stored(c) == [epoch |-> answer[c].epoch, status |-> answer[c].status]

\* ... and the response: each method stores what its response carries, in
\* whatever order the responses come.
ControlReturns(c) ==
  /\ pc[c] = "control"
  /\ LC!Succeed(<<c, "first">>)
  /\ info' = IF op[c] \in {"refresh", "pause", "resume", "extend"}
             THEN Stored(c) ELSE info
  /\ armed' = IF op[c] \in {"resume", "mintFull", "mintNarrow"} THEN answer[c].token ELSE armed
  /\ pc' = [pc EXCEPT ![c] = "ok"]
  /\ UNCHANGED <<platform, sdk, op, cred, asks, rejected, answer>>

ControlFails(c) ==
  /\ pc[c] = "control"
  /\ LC!GiveUp(<<c, "first">>)
  /\ pc' = [pc EXCEPT ![c] = "failed"]
  /\ UNCHANGED <<platform, handle, op, cred, asks, rejected, answer>>

\* A data-plane call through a handle without a token fails before anything
\* is sent.
StartUnarmed(c, o) ==
  /\ pc[c] = "idle" /\ armed = 0
  /\ op' = [op EXCEPT ![c] = o]
  /\ pc' = [pc EXCEPT ![c] = "failed"]
  /\ UNCHANGED <<platform, handle, cred, asks, rejected, answer, runs>>

StartData(c, o) ==
  /\ pc[c] = "idle" /\ armed # 0
  /\ op' = [op EXCEPT ![c] = o]
  /\ cred' = [cred EXCEPT ![c] = armed]
  /\ Begins(c, "first", "first")
  /\ UNCHANGED <<platform, handle, asks, rejected, answer>>

\* An SDK whose retry loop builds the client inside the attempt picks up a
\* token armed in the meantime.
Reread(c) ==
  /\ sdk.rereads /\ pc[c] \in {"first", "replay"} /\ op[c] \in sdk.retried
  /\ cred[c] # armed
  /\ cred' = [cred EXCEPT ![c] = armed]
  /\ UNCHANGED <<platform, handle, op, pc, asks, rejected, answer, runs>>

DataReturns(c) ==
  /\ pc[c] \in {"first", "replay"}
  /\ LC!Succeed(<<c, pc[c]>>)
  /\ pc' = [pc EXCEPT ![c] = "ok"]
  /\ UNCHANGED <<platform, handle, op, cred, asks, rejected, answer>>

DataFails(c) ==
  /\ pc[c] \in {"first", "replay"}
  /\ LC!GiveUp(<<c, pc[c]>>)
  /\ pc' = [pc EXCEPT ![c] = "failed"]
  /\ UNCHANGED <<platform, handle, op, cred, asks, rejected, answer>>

\* Mutant of Recoverable: any failure of the first try is recovered from.
RecoverFromAny(c) == pc[c] = "first" /\ LC!GiveUp(<<c, "first">>)

\* The first try was answered 401.  An SDK that cannot tell a rejected
\* WebSocket handshake from a broken one does not get here with it.
Recoverable(c) ==
  /\ pc[c] = "first" /\ <<c, "first">> \in rejected
  /\ op[c] = "attach" => sdk.remintStream
  /\ LC!Deny(<<c, "first">>)

\* The scope of the mint is settled here, before its request is awaited.
DataDenied(c) ==
  /\ Recoverable(c)
  /\ asks' = [asks EXCEPT ![c] = IF sdk.keepsScope THEN scopeOf[armed] ELSE "full"]
  /\ pc' = [pc EXCEPT ![c] = "reject"]
  /\ UNCHANGED <<platform, handle, op, cred, rejected, answer>>

Remint(c) ==
  /\ pc[c] = "reject"
  /\ UNCHANGED op
  /\ Begins(c, "mint", "mint")
  /\ UNCHANGED <<platform, handle, cred, asks, rejected, answer>>

\* mintToken and TokenSource::refresh arm the handle, whatever it holds now.
MintReturns(c) ==
  /\ pc[c] = "mint"
  /\ LC!Succeed(<<c, "mint">>)
  /\ armed' = answer[c].token
  /\ pc' = [pc EXCEPT ![c] = "armed"]
  /\ UNCHANGED <<platform, sdk, info, op, cred, asks, rejected, answer>>

\* A mint that fails fails the call with it.
MintFails(c) ==
  /\ pc[c] = "mint"
  /\ LC!GiveUp(<<c, "mint">>)
  /\ pc' = [pc EXCEPT ![c] = "failed"]
  /\ UNCHANGED <<platform, handle, op, cred, asks, rejected, answer>>

\* Mutant of ReplayToken: the request is replayed as it was.
SameToken(c) == cred[c]

ReplayToken(c) == IF sdk.ownToken THEN answer[c].token ELSE armed

Replay(c) ==
  /\ pc[c] = "armed"
  /\ UNCHANGED op
  /\ cred' = [cred EXCEPT ![c] = ReplayToken(c)]
  /\ Begins(c, "replay", "replay")
  /\ UNCHANGED <<platform, handle, asks, rejected, answer>>

\* The replay is not recovered from: its 401 is the caller's.
ReplayDenied(c) ==
  /\ pc[c] = "replay" /\ <<c, "replay">> \in rejected
  /\ LC!Deny(<<c, "replay">>)
  /\ pc' = [pc EXCEPT ![c] = "denied"]
  /\ UNCHANGED <<platform, handle, op, cred, asks, rejected, answer>>

-----------------------------------------------------------------------------

Starts(c) ==
  \/ \E o \in ControlOps \cap Methods : StartControl(c, o)
  \/ \E o \in DataOps \cap Methods : StartUnarmed(c, o) \/ StartData(c, o)

Proceeds(c) ==
  \/ ControlReturns(c) \/ ControlFails(c)
  \/ Reread(c) \/ DataReturns(c) \/ DataFails(c) \/ DataDenied(c)
  \/ Remint(c) \/ MintReturns(c) \/ MintFails(c)
  \/ Replay(c) \/ ReplayDenied(c)

Serving(c) ==
  \E k \in Phases : ControlServes(c, k) \/ AgentServes(c, k) \/ AgentRejects(c, k)

Next == (\E c \in Calls : Starts(c) \/ Proceeds(c) \/ Serving(c)) \/ Elsewhere

Spec == Init /\ [][Next]_vars

-----------------------------------------------------------------------------
(* Properties *)

outcomeOf(c) ==
  CASE pc[c] = "idle" -> "none"
    [] pc[c] \in Settled -> pc[c]
    [] OTHER -> "pending"

Call == INSTANCE LogicalCall WITH
          Runs <- Calls,
          Attempts <- Phases \X RunAttempts,
          outcome <- [c \in Calls |-> outcomeOf(c)],
          replayable <- [c \in Calls |-> replayable[<<c, "first">>]],
          effects <- [c \in Calls |->
            {a \in {"first", "replay"} \X RunAttempts : a[2] \in effects[<<c, a[1]>>]}]

\* The first try, the mint and the replay together keep the promise a single
\* run makes: a command that was denied and made again is still run at most
\* once, and success is only reported of what was performed.
RecoveryImplementsCall == Call!CallSpec

\* Where the replay carries the token minted for it (Rust), a call that
\* recovered is answered 401 only if that very token has been invalidated
\* since: a stale token that another call armed in the meantime does not
\* count against it.
OwnTokenSuffices ==
  sdk.ownToken => \A c \in Calls : pc[c] = "denied" => Stale(answer[c].token)

\* The life of a sandbox: an instance runs, may be paused, may be terminated,
\* and one that is resumed is a later instance.
Stage == [running |-> 0, paused |-> 1, terminated |-> 2]
Precedes(a, b) ==
  a.epoch < b.epoch \/ (a.epoch = b.epoch /\ Stage[a.status] < Stage[b.status])

\* Where lifecycle methods borrow the handle mutably (Rust), what it says of
\* the sandbox never goes back to an earlier stage: not for a refresh that
\* is repeated, nor for a request given up and performed later, whatever the
\* sandbox's other clients do.  The handles of the other SDKs may go back:
\* they store responses in the order they come.
RepresentationAdvances == [][sdk.exclusive => ~Precedes(info', info)]_vars

\* The documentation of refresh: an attenuated token is never replaced by a
\* full one behind the caller's back, that is by a data-plane call.
RemintNeverWidens ==
  [][\A c \in Calls : pc[c] = "mint" /\ pc'[c] = "armed" /\ armed # 0 =>
       ~(scopeOf[armed] = "narrow" /\ scopeOf'[armed'] = "full")]_vars
=============================================================================
