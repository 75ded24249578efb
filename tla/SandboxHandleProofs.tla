------------------------ MODULE SandboxHandleProofs ------------------------
(***************************************************************************)
(* Proofs about SandboxHandle, for any number of calls through a handle of *)
(* any of the SDKs, any number of tokens and of instances.                 *)
(*                                                                         *)
(* The invariant relates the three runs of a call to each other (RunsInv), *)
(* to what the SDK lets the pipeline repeat (RetryInv) and to the tokens   *)
(* of the handle and the platform (TokenInv).  With it every step of the   *)
(* handle is a step of LogicalCall, or none.                               *)
(***************************************************************************)
EXTENDS SandboxHandle, TLAPS

\* The platform moves on: its epochs only grow, and so tokens only get stale.
PlatformInv == \A t \in 1..issued : epochOf[t] <= epoch

\* The mint begins when the first try was denied, the replay when the mint
\* succeeded, and nothing is performed or rejected before it begins.
RunsInv(c) ==
  /\ \A k \in Phases :
       outcome[<<c, k>>] = "none" => effects[<<c, k>>] = {} /\ <<c, k>> \notin rejected
  /\ pc[c] = "idle" => outcome[<<c, "first">>] = "none"
  /\ outcome[<<c, "first">>] # "denied" =>
       /\ outcome[<<c, "mint">>] = "none"
       /\ pc[c] \notin {"reject", "mint", "armed", "replay", "denied"}
  /\ outcome[<<c, "mint">>] # "ok" =>
       outcome[<<c, "replay">>] = "none" /\ pc[c] \notin {"armed", "replay", "denied"}
  /\ outcome[<<c, "mint">>] = "ok" => effects[<<c, "mint">>] # {}
  /\ pc[c] = "denied" => outcome[<<c, "replay">>] = "denied" /\ <<c, "replay">> \in rejected
  /\ outcome[<<c, "first">>] = "denied" \/ pc[c] = "first" => op[c] \in DataOps

\* Both tries are repeated by the pipeline or neither is, the mint never is,
\* and a first try that was denied and may not be repeated had no effect.
RetryInv(c) ==
  /\ \A k \in {"first", "replay"} :
       outcome[<<c, k>>] # "none" => (replayable[<<c, k>>] <=> op[c] \in sdk.retried)
  /\ outcome[<<c, "mint">>] # "none" => ~replayable[<<c, "mint">>]
  /\ outcome[<<c, "first">>] = "denied" =>
       replayable[<<c, "first">>] \/ effects[<<c, "first">>] = {}

\* A mint that was performed is answered with its token, and a handle that
\* carries its own token into the replay is rejected for that one only.
TokenInv(c) ==
  /\ answer[c].token \in 0..issued
  /\ effects[<<c, "mint">>] # {} => answer[c].token # 0
  /\ op[c] \in {"resume", "mintFull", "mintNarrow"} /\ effects[<<c, "first">>] # {}
       => answer[c].token # 0
  /\ op[c] \in DataOps /\ outcome[<<c, "first">>] # "none" => armed # 0
  /\ sdk.ownToken /\ outcome[<<c, "replay">>] # "none" => cred[c] = answer[c].token
  /\ sdk.ownToken /\ <<c, "replay">> \in rejected => Stale(answer[c].token)

CallInv(c) == RunsInv(c) /\ RetryInv(c) /\ TokenInv(c)

IInv == TypeOK /\ PlatformInv /\ \A c \in Calls : CallInv(c)

-----------------------------------------------------------------------------
(* The platform *)

\* Anything the platform may do by itself or for a request.
PlatformStep ==
  \/ UNCHANGED platform
  \/ PauseVm \/ ResumeVm \/ TerminateVm
  \/ \E scope \in Scopes : MintVm(scope)
  \/ \E t \in Tokens : Expire(t)

\* The platform's part of the type invariant.
PlatformTypeOK ==
  /\ epoch \in Epochs \ {0} /\ status \in {"running", "paused", "terminated"}
  /\ issued \in Tokens
  /\ epochOf \in [Tokens -> Epochs] /\ scopeOf \in [Tokens -> Scopes]
  /\ expired \in SUBSET Tokens

\* A token is bound to an epoch once, epochs only grow and expiry is final,
\* so a stale token stays stale.
LEMMA PlatformMoves ==
  ASSUME PlatformTypeOK, PlatformInv, PlatformStep
  PROVE  /\ PlatformTypeOK' /\ PlatformInv'
         /\ issued' \in {issued, issued + 1}
         /\ \A t \in 1..issued : Stale(t) => Stale(t)'
<1> USE BoundsAssumption
<1>1. ASSUME NEW scope \in Scopes, NEW e \in Epochs, Issue(scope, e), epoch' \in {epoch, epoch + 1},
             epoch' <= MaxEpoch, e = epoch', status' \in {"running", "paused", "terminated"},
             expired' = expired
      PROVE  /\ PlatformTypeOK' /\ PlatformInv'
             /\ issued' = issued + 1
             /\ \A t \in 1..issued : Stale(t) => Stale(t)'
  <2>1. /\ issued \in Nat /\ issued + 1 \in Tokens /\ issued' = issued + 1
        /\ epochOf' = [epochOf EXCEPT ![issued + 1] = e]
        /\ epoch \in Nat /\ epoch' \in Epochs \ {0}
    BY <1>1 DEF Issue, PlatformTypeOK, Tokens, Epochs
  <2>2. PlatformTypeOK'
    BY <1>1, <2>1 DEF Issue, PlatformTypeOK
  <2>3. \A t \in 1..issued : t \in Tokens /\ epochOf'[t] = epochOf[t] /\ epochOf[t] \in Nat
    BY <2>1 DEF PlatformTypeOK, Tokens, Epochs
  <2>4. epochOf'[issued + 1] = epoch'
    BY <1>1, <2>1 DEF PlatformTypeOK
  <2>5. PlatformInv'
    BY <1>1, <2>1, <2>3, <2>4 DEF PlatformInv
  <2>6. \A t \in 1..issued : Stale(t) => Stale(t)'
    BY <1>1, <2>1, <2>3 DEF PlatformInv, Stale
  <2> QED
    BY <2>1, <2>2, <2>5, <2>6
<1>2. CASE UNCHANGED platform
  BY <1>2 DEF platform, PlatformTypeOK, PlatformInv, Stale
<1>3. CASE PauseVm
  BY <1>3 DEF PauseVm, PlatformTypeOK, PlatformInv, Stale
<1>4. CASE ResumeVm
  <2>1. epoch + 1 \in Epochs /\ epoch' = epoch + 1 /\ epoch' <= MaxEpoch /\ "full" \in Scopes
    BY <1>4 DEF ResumeVm, PlatformTypeOK, Epochs, Scopes
  <2> QED
    BY <1>1, <1>4, <2>1 DEF ResumeVm
<1>5. CASE TerminateVm
  BY <1>5 DEF TerminateVm, PlatformTypeOK, PlatformInv, Stale
<1>6. ASSUME NEW scope \in Scopes, MintVm(scope)
      PROVE  /\ PlatformTypeOK' /\ PlatformInv'
             /\ issued' = issued + 1
             /\ \A t \in 1..issued : Stale(t) => Stale(t)'
  <2>1. epoch \in Epochs /\ epoch' = epoch /\ epoch <= MaxEpoch
    BY <1>6 DEF MintVm, PlatformTypeOK, Epochs
  <2> QED
    BY <1>1, <1>6, <2>1 DEF MintVm, PlatformTypeOK
<1>7. ASSUME NEW t \in Tokens, Expire(t)
      PROVE  /\ PlatformTypeOK' /\ PlatformInv' /\ issued' = issued
             /\ \A u \in 1..issued : Stale(u) => Stale(u)'
  BY <1>7 DEF Expire, PlatformTypeOK, PlatformInv, Stale
<1> QED
  BY <1>2, <1>3, <1>4, <1>5, <1>6, <1>7 DEF PlatformStep

-----------------------------------------------------------------------------
(* The runs *)

RunStep(r) ==
  LC!Begin(r) \/ LC!Perform(r) \/ LC!Succeed(r) \/ LC!GiveUp(r) \/ LC!Deny(r)

\* A step of one run leaves the others alone.
LEMMA RunMoves ==
  ASSUME LC!CallTypeOK, NEW r \in Runs, RunStep(r)
  PROVE  /\ LC!CallTypeOK'
         /\ \A s \in Runs : s # r =>
              /\ outcome'[s] = outcome[s]
              /\ replayable'[s] = replayable[s]
              /\ effects'[s] = effects[s]
<1>1. CASE LC!Begin(r)
  <2>1. PICK o \in {"pending", "failed"}, b \in BOOLEAN :
          /\ outcome' = [outcome EXCEPT ![r] = o]
          /\ replayable' = [replayable EXCEPT ![r] = b] /\ effects' = effects
    BY <1>1 DEF LC!Begin
  <2> QED
    BY <2>1 DEF LC!CallTypeOK, LC!Outcomes
<1>2. CASE LC!Perform(r)
  <2>1. PICK n \in RunAttempts :
          effects' = [effects EXCEPT ![r] = @ \cup {n}] /\ UNCHANGED <<outcome, replayable>>
    BY <1>2 DEF LC!Perform
  <2> QED
    BY <2>1 DEF LC!CallTypeOK
<1>3. CASE LC!Succeed(r) \/ LC!GiveUp(r) \/ LC!Deny(r)
  BY <1>3 DEF LC!Succeed, LC!GiveUp, LC!Deny, LC!CallTypeOK, LC!Outcomes
<1> QED
  BY <1>1, <1>2, <1>3 DEF RunStep

\* The runs of different calls, and of different phases, are different.
LEMMA RunsDiffer ==
  ASSUME NEW c \in Calls, NEW d \in Calls, NEW k \in Phases, NEW l \in Phases
  PROVE  <<c, k>> \in Runs /\ (<<c, k>> = <<d, l>> <=> c = d /\ k = l)
BY DEF Runs

-----------------------------------------------------------------------------
(* What an action leaves alone *)

\* The platform and the handle move on in ways that no call's invariant sees.
Around ==
  /\ issued' \in {issued, issued + 1}
  /\ \A t \in 1..issued : Stale(t) => Stale(t)'
  /\ sdk' = sdk
  /\ armed # 0 => armed' # 0

\* Nothing happens to call d or to its runs.
Untouched(d) ==
  /\ op'[d] = op[d] /\ pc'[d] = pc[d] /\ cred'[d] = cred[d] /\ answer'[d] = answer[d]
  /\ \A k \in Phases :
       /\ outcome'[<<d, k>>] = outcome[<<d, k>>]
       /\ replayable'[<<d, k>>] = replayable[<<d, k>>]
       /\ effects'[<<d, k>>] = effects[<<d, k>>]
       /\ <<d, k>> \in rejected' <=> <<d, k>> \in rejected

\* A call that nothing happens to keeps its invariant.
LEMMA Frame ==
  ASSUME IInv, NEW d \in Calls, Around, Untouched(d)
  PROVE  CallInv(d)'
<1>1. RunsInv(d) /\ RetryInv(d) /\ TokenInv(d) /\ issued \in Nat
  BY DEF IInv, CallInv, TypeOK, Tokens
<1>2. RunsInv(d)'
  BY <1>1 DEF RunsInv, Untouched, Phases
<1>3. RetryInv(d)'
  BY <1>1 DEF RetryInv, Untouched, Around, Phases
<1>4. TokenInv(d)'
  <2>1. answer'[d].token \in 0..issued'
    BY <1>1 DEF TokenInv, Untouched, Around
  <2>2. <<d, "replay">> \in rejected => answer[d].token \in 1..issued
    BY <1>1 DEF TokenInv, RunsInv, Phases
  <2>3. (sdk.ownToken /\ <<d, "replay">> \in rejected => Stale(answer[d].token))'
    <3> SUFFICES ASSUME sdk.ownToken, <<d, "replay">> \in rejected
                 PROVE  Stale(answer[d].token)'
      BY DEF Untouched, Around, Phases
    <3>1. PICK t \in 1..issued : t = answer[d].token
      BY <2>2
    <3>2. Stale(t)
      BY <1>1, <3>1 DEF TokenInv
    <3>3. Stale(t)' /\ answer'[d].token = t
      BY <3>1, <3>2 DEF Around, Untouched
    <3> QED
      BY <3>3 DEF Stale
  <2>4. /\ (effects[<<d, "mint">>] # {} => answer[d].token # 0)'
        /\ (op[d] \in {"resume", "mintFull", "mintNarrow"} /\ effects[<<d, "first">>] # {}
              => answer[d].token # 0)'
        /\ (op[d] \in DataOps /\ outcome[<<d, "first">>] # "none" => armed # 0)'
        /\ (sdk.ownToken /\ outcome[<<d, "replay">>] # "none" => cred[d] = answer[d].token)'
    BY <1>1 DEF TokenInv, Untouched, Around, Phases
  <2> QED
    BY <2>1, <2>3, <2>4 DEF TokenInv
<1> QED
  BY <1>2, <1>3, <1>4 DEF CallInv

\* An action of call c that moves at most its run k.
Own(c, k) ==
  /\ RunStep(<<c, k>>) \/ UNCHANGED runs
  /\ rejected' \in {rejected, rejected \cup {<<c, k>>}}
  /\ \A d \in Calls : d # c =>
       op'[d] = op[d] /\ pc'[d] = pc[d] /\ cred'[d] = cred[d] /\ answer'[d] = answer[d]

\* It is enough to look at the call that moves.
LEMMA OneCall ==
  ASSUME IInv, NEW c \in Calls, NEW k \in Phases, Own(c, k), Around,
         TypeOK', PlatformInv', CallInv(c)'
  PROVE  IInv'
<1>1. LC!CallTypeOK /\ <<c, k>> \in Runs
  BY DEF IInv, TypeOK, Runs
<1>2. ASSUME NEW d \in Calls, d # c PROVE Untouched(d)
  <2> SUFFICES ASSUME NEW l \in Phases
               PROVE  /\ outcome'[<<d, l>>] = outcome[<<d, l>>]
                      /\ replayable'[<<d, l>>] = replayable[<<d, l>>]
                      /\ effects'[<<d, l>>] = effects[<<d, l>>]
                      /\ <<d, l>> \in rejected' <=> <<d, l>> \in rejected
    BY <1>2 DEF Untouched, Own
  <2>1. <<d, l>> \in Runs /\ <<d, l>> # <<c, k>>
    BY <1>2, RunsDiffer
  <2> QED
    BY <1>1, <2>1, RunMoves DEF Own, runs
<1>3. ASSUME NEW d \in Calls PROVE CallInv(d)'
  BY <1>2, Frame
<1> QED
  BY <1>3 DEF IInv

\* When the platform stands still so do the tokens.
LEMMA PlatformStill ==
  ASSUME IInv, UNCHANGED <<platform, sdk>>, armed # 0 => armed' # 0
  PROVE  Around /\ PlatformInv'
BY DEF IInv, Around, Stale, platform, PlatformInv

-----------------------------------------------------------------------------
(* Every action keeps IInv. *)

\* What beginning a run does.
LEMMA BeginsDoes ==
  ASSUME IInv, NEW c \in Calls, NEW k \in Phases, NEW place, Begins(c, k, place)
  PROVE  /\ RunStep(<<c, k>>) /\ LC!CallTypeOK'
         /\ outcome[<<c, k>>] = "none" /\ outcome'[<<c, k>>] \in {"pending", "failed"}
         /\ (replayable'[<<c, k>>] <=> (k # "mint" /\ op'[c] \in sdk.retried))
         /\ effects' = effects
         /\ \A l \in Phases : l # k =>
              /\ outcome'[<<c, l>>] = outcome[<<c, l>>]
              /\ replayable'[<<c, l>>] = replayable[<<c, l>>]
         /\ \A d \in Calls : d # c => pc'[d] = pc[d]
         /\ pc'[c] \in {place, "failed"}
<1>1. LC!CallTypeOK /\ <<c, k>> \in Runs /\ pc \in [Calls -> {"idle", "control", "first", "reject",
        "mint", "armed", "replay"} \cup Settled]
  BY DEF IInv, TypeOK, Runs
<1>2. RunStep(<<c, k>>) /\ LC!CallTypeOK'
  BY <1>1, RunMoves DEF Begins, RunStep
<1>3. outcome[<<c, k>>] = "none" /\ outcome'[<<c, k>>] \in {"pending", "failed"}
      /\ effects' = effects
  BY <1>1 DEF Begins, LC!Begin, LC!CallTypeOK
<1>4. (replayable'[<<c, k>>] <=> (k # "mint" /\ op'[c] \in sdk.retried))
  BY <1>1 DEF Begins, LC!CallTypeOK
<1>5. ASSUME NEW l \in Phases, l # k
      PROVE  outcome'[<<c, l>>] = outcome[<<c, l>>] /\ replayable'[<<c, l>>] = replayable[<<c, l>>]
  <2>1. <<c, l>> \in Runs /\ <<c, l>> # <<c, k>>
    BY <1>5, RunsDiffer
  <2> QED
    BY <1>1, <1>2, <2>1, RunMoves
<1>6. /\ \A d \in Calls : d # c => pc'[d] = pc[d]
      /\ pc'[c] \in {place, "failed"}
  BY <1>1 DEF Begins
<1> QED
  BY <1>2, <1>3, <1>4, <1>5, <1>6

\* A lifecycle request goes out: its call has made no other.
LEMMA StartControlPreserves ==
  ASSUME IInv, NEW c \in Calls, NEW o \in ControlOps, StartControl(c, o)
  PROVE  IInv'
<1>1. /\ pc[c] = "idle" /\ op' = [op EXCEPT ![c] = o] /\ Begins(c, "first", "control")
      /\ asks' = [asks EXCEPT ![c] = IF o = "mintNarrow" THEN "narrow" ELSE "full"]
      /\ UNCHANGED <<platform, handle, cred, rejected, answer>>
  BY DEF StartControl
<1>2. Around /\ PlatformInv'
  BY <1>1, PlatformStill DEF handle
<1>3. /\ RunStep(<<c, "first">>) /\ LC!CallTypeOK'
      /\ outcome[<<c, "first">>] = "none" /\ outcome'[<<c, "first">>] \in {"pending", "failed"}
      /\ (replayable'[<<c, "first">>] <=> op'[c] \in sdk.retried)
      /\ effects' = effects
      /\ \A l \in Phases : l # "first" =>
           outcome'[<<c, l>>] = outcome[<<c, l>>] /\ replayable'[<<c, l>>] = replayable[<<c, l>>]
      /\ \A d \in Calls : d # c => pc'[d] = pc[d]
      /\ pc'[c] \in {"control", "failed"}
  BY <1>1, BeginsDoes DEF Phases
<1>4. TypeOK'
  <2>1. pc' \in [Calls -> {"idle", "control", "first", "reject", "mint", "armed", "replay"} \cup Settled]
    BY <1>1 DEF IInv, TypeOK, Begins, Settled
  <2>2. op' \in [Calls -> DataOps \cup ControlOps \cup {"none"}] /\ asks' \in [Calls -> Scopes]
    BY <1>1 DEF IInv, TypeOK, Scopes
  <2> QED
    BY <1>1, <1>3, <2>1, <2>2 DEF IInv, TypeOK, platform, handle
<1>5. Own(c, "first")
  BY <1>1, <1>3 DEF Own, IInv, TypeOK
<1>6. CallInv(c)'
  <2>1. CallInv(c) /\ op'[c] = o /\ o \notin DataOps /\ sdk' = sdk /\ answer' = answer
    BY <1>1 DEF IInv, TypeOK, DataOps, ControlOps, handle
  <2>2. \A l \in Phases : outcome[<<c, l>>] = "none" /\ effects[<<c, l>>] = {} /\ <<c, l>> \notin rejected
    BY <1>3, <2>1 DEF CallInv, RunsInv, Phases
  <2>3. RunsInv(c)'
    BY <1>1, <1>3, <2>1, <2>2 DEF RunsInv, Phases
  <2>4. RetryInv(c)'
    BY <1>1, <1>3, <2>1, <2>2 DEF RetryInv, Phases
  <2>5. TokenInv(c)'
    BY <1>1, <1>3, <2>1, <2>2 DEF CallInv, TokenInv, Phases, platform
  <2> QED
    BY <2>3, <2>4, <2>5 DEF CallInv
<1> QED
  BY <1>2, <1>4, <1>5, <1>6, OneCall DEF Phases

\* A call through a handle without a token fails and sends nothing.
LEMMA StartUnarmedPreserves ==
  ASSUME IInv, NEW c \in Calls, NEW o \in DataOps, StartUnarmed(c, o)
  PROVE  IInv'
<1>1. Around /\ PlatformInv'
  BY PlatformStill DEF StartUnarmed, handle
<1>2. TypeOK'
  BY DEF StartUnarmed, IInv, TypeOK, Settled, platform, handle, runs, LC!CallTypeOK
<1>3. Own(c, "first")
  BY DEF StartUnarmed, Own, IInv, TypeOK
<1>4. CallInv(c)'
  <2>1. CallInv(c) /\ pc[c] = "idle" /\ pc'[c] = "failed" /\ op'[c] = o
        /\ UNCHANGED <<platform, handle, cred, rejected, answer, runs>>
    BY DEF StartUnarmed, IInv, TypeOK
  <2>2. \A l \in Phases : outcome[<<c, l>>] = "none" /\ effects[<<c, l>>] = {} /\ <<c, l>> \notin rejected
    BY <2>1 DEF CallInv, RunsInv, Phases
  <2> QED
    BY <2>1, <2>2 DEF CallInv, RunsInv, RetryInv, TokenInv, Phases, platform, handle, runs
<1> QED
  BY <1>1, <1>2, <1>3, <1>4, OneCall DEF Phases

\* A data-plane request goes out with the handle's token.
LEMMA StartDataPreserves ==
  ASSUME IInv, NEW c \in Calls, NEW o \in DataOps, StartData(c, o)
  PROVE  IInv'
<1>1. /\ pc[c] = "idle" /\ op' = [op EXCEPT ![c] = o] /\ Begins(c, "first", "first")
      /\ cred' = [cred EXCEPT ![c] = armed] /\ armed # 0
      /\ UNCHANGED <<platform, handle, asks, rejected, answer>>
  BY DEF StartData
<1>2. Around /\ PlatformInv'
  BY <1>1, PlatformStill DEF handle
<1>3. /\ RunStep(<<c, "first">>) /\ LC!CallTypeOK'
      /\ outcome[<<c, "first">>] = "none" /\ outcome'[<<c, "first">>] \in {"pending", "failed"}
      /\ (replayable'[<<c, "first">>] <=> op'[c] \in sdk.retried)
      /\ effects' = effects
      /\ \A l \in Phases : l # "first" =>
           outcome'[<<c, l>>] = outcome[<<c, l>>] /\ replayable'[<<c, l>>] = replayable[<<c, l>>]
      /\ \A d \in Calls : d # c => pc'[d] = pc[d]
      /\ pc'[c] \in {"first", "failed"}
  BY <1>1, BeginsDoes DEF Phases
<1>4. TypeOK'
  <2>1. pc' \in [Calls -> {"idle", "control", "first", "reject", "mint", "armed", "replay"} \cup Settled]
    BY <1>1 DEF IInv, TypeOK, Begins, Settled
  <2>2. op' \in [Calls -> DataOps \cup ControlOps \cup {"none"}] /\ cred' \in [Calls -> {0} \cup Tokens]
    BY <1>1 DEF IInv, TypeOK
  <2> QED
    BY <1>1, <1>3, <2>1, <2>2 DEF IInv, TypeOK, platform, handle
<1>5. Own(c, "first")
  BY <1>1, <1>3 DEF Own, IInv, TypeOK
<1>6. CallInv(c)'
  <2>1. CallInv(c) /\ op'[c] = o /\ o \notin {"resume", "mintFull", "mintNarrow"}
        /\ sdk' = sdk /\ answer' = answer /\ armed' = armed
    BY <1>1 DEF IInv, TypeOK, DataOps, handle
  <2>2. \A l \in Phases : outcome[<<c, l>>] = "none" /\ effects[<<c, l>>] = {} /\ <<c, l>> \notin rejected
    BY <1>3, <2>1 DEF CallInv, RunsInv, Phases
  <2>3. RunsInv(c)'
    BY <1>1, <1>3, <2>1, <2>2 DEF RunsInv, Phases
  <2>4. RetryInv(c)'
    BY <1>1, <1>3, <2>1, <2>2 DEF RetryInv, Phases
  <2>5. TokenInv(c)'
    BY <1>1, <1>3, <2>1, <2>2 DEF CallInv, TokenInv, Phases, platform
  <2> QED
    BY <2>3, <2>4, <2>5 DEF CallInv
<1> QED
  BY <1>2, <1>4, <1>5, <1>6, OneCall DEF Phases

\* A run that settles is answered once; what it did stays done.
LEMMA SettlesDoes ==
  ASSUME IInv, NEW c \in Calls, NEW k \in Phases,
         LC!Succeed(<<c, k>>) \/ LC!GiveUp(<<c, k>>) \/ LC!Deny(<<c, k>>)
  PROVE  /\ RunStep(<<c, k>>) /\ LC!CallTypeOK'
         /\ outcome[<<c, k>>] = "pending"
         /\ LC!Succeed(<<c, k>>) => outcome'[<<c, k>>] = "ok" /\ effects[<<c, k>>] # {}
         /\ LC!GiveUp(<<c, k>>) => outcome'[<<c, k>>] = "failed"
         /\ LC!Deny(<<c, k>>) => outcome'[<<c, k>>] = "denied"
                                   /\ (replayable[<<c, k>>] \/ effects[<<c, k>>] = {})
         /\ replayable' = replayable /\ effects' = effects
         /\ \A l \in Phases : l # k => outcome'[<<c, l>>] = outcome[<<c, l>>]
<1>1. LC!CallTypeOK /\ <<c, k>> \in Runs
  BY DEF IInv, TypeOK, Runs
<1>2. RunStep(<<c, k>>) /\ LC!CallTypeOK'
  BY <1>1, RunMoves DEF RunStep
<1>3. ASSUME NEW l \in Phases, l # k PROVE outcome'[<<c, l>>] = outcome[<<c, l>>]
  <2>1. <<c, l>> \in Runs /\ <<c, l>> # <<c, k>>
    BY <1>3, RunsDiffer
  <2> QED
    BY <1>1, <1>2, <2>1, RunMoves
<1> QED
  BY <1>1, <1>2, <1>3 DEF LC!Succeed, LC!GiveUp, LC!Deny, LC!CallTypeOK

\* A lifecycle response stores what it carries; a token it carries is one.
LEMMA ControlReturnsPreserves ==
  ASSUME IInv, NEW c \in Calls, ControlReturns(c)
  PROVE  IInv'
<1>1. /\ pc[c] = "control" /\ pc' = [pc EXCEPT ![c] = "ok"]
      /\ UNCHANGED <<platform, sdk, op, cred, asks, rejected, answer>>
  BY DEF ControlReturns
<1>2. /\ RunStep(<<c, "first">>) /\ LC!CallTypeOK' /\ outcome[<<c, "first">>] = "pending"
      /\ outcome'[<<c, "first">>] = "ok" /\ effects[<<c, "first">>] # {}
      /\ replayable' = replayable /\ effects' = effects
      /\ \A l \in Phases : l # "first" => outcome'[<<c, l>>] = outcome[<<c, l>>]
  BY SettlesDoes DEF ControlReturns, Phases
<1>3. CallInv(c) /\ answer[c].token \in {0} \cup Tokens
  BY DEF IInv, TypeOK
<1>4. armed' = armed \/ (armed' = answer[c].token /\ answer[c].token # 0)
  BY <1>2, <1>3 DEF ControlReturns, CallInv, TokenInv
<1>5. Around /\ PlatformInv'
  BY <1>1, <1>4, PlatformStill
<1>6. TypeOK'
  <2>1. info' \in Infos
    BY DEF ControlReturns, Stored, Infos, IInv, TypeOK
  <2>2. pc' \in [Calls -> {"idle", "control", "first", "reject", "mint", "armed", "replay"} \cup Settled]
    BY <1>1 DEF IInv, TypeOK, Settled
  <2> QED
    BY <1>1, <1>2, <1>3, <1>4, <2>1, <2>2 DEF IInv, TypeOK, platform
<1>7. Own(c, "first")
  BY <1>1, <1>2 DEF Own, IInv, TypeOK
<1>8. CallInv(c)'
  <2>1. pc'[c] = "ok"
    BY <1>1 DEF IInv, TypeOK
  <2>2. RunsInv(c)'
    BY <1>1, <1>2, <1>3, <2>1 DEF CallInv, RunsInv, Phases
  <2>3. RetryInv(c)'
    BY <1>1, <1>2, <1>3, <2>1 DEF CallInv, RetryInv, Phases
  <2>4. TokenInv(c)'
    BY <1>1, <1>2, <1>3, <1>4, <2>1 DEF CallInv, TokenInv, Phases, platform, Stale
  <2> QED
    BY <2>2, <2>3, <2>4 DEF CallInv
<1> QED
  BY <1>5, <1>6, <1>7, <1>8, OneCall DEF Phases

\* A lifecycle call that fails leaves the handle as it was.
LEMMA ControlFailsPreserves ==
  ASSUME IInv, NEW c \in Calls, ControlFails(c)
  PROVE  IInv'
<1>1. /\ pc[c] = "control" /\ pc' = [pc EXCEPT ![c] = "failed"]
      /\ LC!GiveUp(<<c, "first">>)
      /\ UNCHANGED <<platform, handle, op, cred, asks, rejected, answer>>
  BY DEF ControlFails
<1>2. /\ RunStep(<<c, "first">>) /\ LC!CallTypeOK' /\ outcome[<<c, "first">>] = "pending"
      /\ outcome'[<<c, "first">>] = "failed"
      /\ replayable' = replayable /\ effects' = effects
      /\ \A l \in Phases : l # "first" => outcome'[<<c, l>>] = outcome[<<c, l>>]
  BY <1>1, SettlesDoes DEF Phases
<1>3. Around /\ PlatformInv' /\ CallInv(c)
  BY <1>1, PlatformStill DEF handle, IInv
<1>4. TypeOK'
  <2>1. pc' \in [Calls -> {"idle", "control", "first", "reject", "mint", "armed", "replay"} \cup Settled]
    BY <1>1 DEF IInv, TypeOK, Settled
  <2> QED
    BY <1>1, <1>2, <2>1 DEF IInv, TypeOK, platform, handle
<1>5. Own(c, "first")
  BY <1>1, <1>2 DEF Own, IInv, TypeOK
<1>6. CallInv(c)'
  <2>1. pc'[c] = "failed"
    BY <1>1 DEF IInv, TypeOK
  <2>2. RunsInv(c)'
    BY <1>1, <1>2, <1>3, <2>1 DEF CallInv, RunsInv, Phases, ControlOps, DataOps
  <2>3. RetryInv(c)'
    BY <1>1, <1>2, <1>3, <2>1 DEF CallInv, RetryInv, Phases, handle
  <2>4. TokenInv(c)'
    BY <1>1, <1>2, <1>3, <2>1 DEF CallInv, TokenInv, Phases, platform, handle, Stale
  <2> QED
    BY <2>2, <2>3, <2>4 DEF CallInv
<1> QED
  BY <1>3, <1>4, <1>5, <1>6, OneCall DEF Phases

\* A mint that fails takes its call with it and arms nothing.
LEMMA MintFailsPreserves ==
  ASSUME IInv, NEW c \in Calls, MintFails(c)
  PROVE  IInv'
<1>1. /\ pc[c] = "mint" /\ pc' = [pc EXCEPT ![c] = "failed"]
      /\ LC!GiveUp(<<c, "mint">>)
      /\ UNCHANGED <<platform, handle, op, cred, asks, rejected, answer>>
  BY DEF MintFails
<1>2. /\ RunStep(<<c, "mint">>) /\ LC!CallTypeOK' /\ outcome[<<c, "mint">>] = "pending"
      /\ outcome'[<<c, "mint">>] = "failed"
      /\ replayable' = replayable /\ effects' = effects
      /\ \A l \in Phases : l # "mint" => outcome'[<<c, l>>] = outcome[<<c, l>>]
  BY <1>1, SettlesDoes DEF Phases
<1>3. Around /\ PlatformInv' /\ CallInv(c)
  BY <1>1, PlatformStill DEF handle, IInv
<1>4. TypeOK'
  <2>1. pc' \in [Calls -> {"idle", "control", "first", "reject", "mint", "armed", "replay"} \cup Settled]
    BY <1>1 DEF IInv, TypeOK, Settled
  <2> QED
    BY <1>1, <1>2, <2>1 DEF IInv, TypeOK, platform, handle
<1>5. Own(c, "mint")
  BY <1>1, <1>2 DEF Own, IInv, TypeOK
<1>6. CallInv(c)'
  <2>1. pc'[c] = "failed"
    BY <1>1 DEF IInv, TypeOK
  <2>2. RunsInv(c)'
    BY <1>1, <1>2, <1>3, <2>1 DEF CallInv, RunsInv, Phases, ControlOps, DataOps
  <2>3. RetryInv(c)'
    BY <1>1, <1>2, <1>3, <2>1 DEF CallInv, RetryInv, Phases, handle
  <2>4. TokenInv(c)'
    BY <1>1, <1>2, <1>3, <2>1 DEF CallInv, TokenInv, Phases, platform, handle, Stale
  <2> QED
    BY <2>2, <2>3, <2>4 DEF CallInv
<1> QED
  BY <1>3, <1>4, <1>5, <1>6, OneCall DEF Phases

\* A data-plane call is answered, by its first try or by its replay.
LEMMA DataSettles ==
  ASSUME IInv, NEW c \in Calls, DataReturns(c) \/ DataFails(c)
  PROVE  IInv'
<1>1. PICK k \in {"first", "replay"} : k = pc[c]
  BY DEF DataReturns, DataFails
<1>2. /\ LC!Succeed(<<c, k>>) \/ LC!GiveUp(<<c, k>>)
      /\ \E p \in {"ok", "failed"} : pc' = [pc EXCEPT ![c] = p]
      /\ UNCHANGED <<platform, handle, op, cred, asks, rejected, answer>>
  BY <1>1 DEF DataReturns, DataFails
<1>3. /\ RunStep(<<c, k>>) /\ LC!CallTypeOK' /\ outcome[<<c, k>>] = "pending"
      /\ outcome'[<<c, k>>] \in {"ok", "failed"}
      /\ replayable' = replayable /\ effects' = effects
      /\ \A l \in Phases : l # k => outcome'[<<c, l>>] = outcome[<<c, l>>]
  BY <1>2, SettlesDoes DEF Phases
<1>4. Around /\ PlatformInv' /\ CallInv(c)
  BY <1>2, PlatformStill DEF handle, IInv
<1>5. TypeOK'
  <2>1. pc' \in [Calls -> {"idle", "control", "first", "reject", "mint", "armed", "replay"} \cup Settled]
    BY <1>2 DEF IInv, TypeOK, Settled
  <2> QED
    BY <1>2, <1>3, <2>1 DEF IInv, TypeOK, platform, handle
<1>6. Own(c, k)
  BY <1>2, <1>3 DEF Own, IInv, TypeOK
<1>7. CallInv(c)'
  <2>1. pc'[c] \in {"ok", "failed"}
    BY <1>2 DEF IInv, TypeOK
  <2>2. RunsInv(c)'
    BY <1>1, <1>2, <1>3, <1>4, <2>1 DEF CallInv, RunsInv, Phases
  <2>3. RetryInv(c)'
    BY <1>2, <1>3, <1>4 DEF CallInv, RetryInv, Phases, handle
  <2>4. TokenInv(c)'
    BY <1>2, <1>3, <1>4 DEF CallInv, TokenInv, Phases, platform, handle, Stale
  <2> QED
    BY <2>2, <2>3, <2>4 DEF CallInv
<1> QED
  BY <1>4, <1>5, <1>6, <1>7, OneCall DEF Phases

\* A retry that picks up the handle's token does not do so where the replay
\* has a token of its own.
LEMMA RereadPreserves ==
  ASSUME IInv, NEW c \in Calls, Reread(c)
  PROVE  IInv'
<1>1. /\ sdk.rereads /\ cred' = [cred EXCEPT ![c] = armed]
      /\ UNCHANGED <<platform, handle, op, pc, asks, rejected, answer, runs>>
  BY DEF Reread
<1>2. Around /\ PlatformInv' /\ CallInv(c)
  BY <1>1, PlatformStill DEF handle, IInv
<1>3. TypeOK'
  BY <1>1 DEF IInv, TypeOK, platform, handle, runs, LC!CallTypeOK
<1>4. Own(c, "first")
  BY <1>1 DEF Own, IInv, TypeOK
<1>5. ~sdk.ownToken
  BY <1>1 DEF IInv, TypeOK, Profiles, TypeScript, Rust, Python
<1>6. CallInv(c)'
  BY <1>1, <1>2, <1>5
  DEF CallInv, RunsInv, RetryInv, TokenInv, Phases, platform, handle, runs
<1> QED
  BY <1>2, <1>3, <1>4, <1>6, OneCall DEF Phases

\* The first try was denied: it had no effect, unless it may be repeated.
LEMMA DataDeniedPreserves ==
  ASSUME IInv, NEW c \in Calls, DataDenied(c)
  PROVE  IInv'
<1>1. /\ pc[c] = "first" /\ pc' = [pc EXCEPT ![c] = "reject"] /\ LC!Deny(<<c, "first">>)
      /\ asks' = [asks EXCEPT ![c] = IF sdk.keepsScope THEN scopeOf[armed] ELSE "full"]
      /\ UNCHANGED <<platform, handle, op, cred, rejected, answer>>
  BY DEF DataDenied, Recoverable
<1>2. /\ RunStep(<<c, "first">>) /\ LC!CallTypeOK' /\ outcome[<<c, "first">>] = "pending"
      /\ outcome'[<<c, "first">>] = "denied"
      /\ replayable[<<c, "first">>] \/ effects[<<c, "first">>] = {}
      /\ replayable' = replayable /\ effects' = effects
      /\ \A l \in Phases : l # "first" => outcome'[<<c, l>>] = outcome[<<c, l>>]
  BY <1>1, SettlesDoes DEF Phases
<1>3. Around /\ PlatformInv' /\ CallInv(c)
  BY <1>1, PlatformStill DEF handle, IInv
<1>4. TypeOK'
  <2>1. pc' \in [Calls -> {"idle", "control", "first", "reject", "mint", "armed", "replay"} \cup Settled]
    BY <1>1 DEF IInv, TypeOK, Settled
  <2>2. armed \in Tokens
    BY <1>1, <1>2, <1>3 DEF CallInv, RunsInv, TokenInv, IInv, TypeOK
  <2>3. asks' \in [Calls -> Scopes]
    BY <1>1, <2>2 DEF IInv, TypeOK, Scopes
  <2> QED
    BY <1>1, <1>2, <2>1, <2>3 DEF IInv, TypeOK, platform, handle
<1>5. Own(c, "first")
  BY <1>1, <1>2 DEF Own, IInv, TypeOK
<1>6. CallInv(c)'
  <2>1. pc'[c] = "reject"
    BY <1>1 DEF IInv, TypeOK
  <2>2. RunsInv(c)'
    BY <1>1, <1>2, <1>3, <2>1 DEF CallInv, RunsInv, Phases
  <2>3. RetryInv(c)'
    BY <1>1, <1>2, <1>3 DEF CallInv, RetryInv, Phases, handle
  <2>4. TokenInv(c)'
    BY <1>1, <1>2, <1>3 DEF CallInv, TokenInv, Phases, platform, handle, Stale
  <2> QED
    BY <2>2, <2>3, <2>4 DEF CallInv
<1> QED
  BY <1>3, <1>4, <1>5, <1>6, OneCall DEF Phases

\* The mint begins after a first try that was denied.
LEMMA RemintPreserves ==
  ASSUME IInv, NEW c \in Calls, Remint(c)
  PROVE  IInv'
<1>1. /\ pc[c] = "reject" /\ Begins(c, "mint", "mint")
      /\ UNCHANGED <<platform, handle, op, cred, asks, rejected, answer>>
  BY DEF Remint
<1>2. Around /\ PlatformInv' /\ CallInv(c)
  BY <1>1, PlatformStill DEF handle, IInv
<1>3. /\ RunStep(<<c, "mint">>) /\ LC!CallTypeOK'
      /\ outcome[<<c, "mint">>] = "none" /\ outcome'[<<c, "mint">>] \in {"pending", "failed"}
      /\ ~replayable'[<<c, "mint">>]
      /\ effects' = effects
      /\ \A l \in Phases : l # "mint" =>
           outcome'[<<c, l>>] = outcome[<<c, l>>] /\ replayable'[<<c, l>>] = replayable[<<c, l>>]
      /\ \A d \in Calls : d # c => pc'[d] = pc[d]
      /\ pc'[c] \in {"mint", "failed"}
  BY <1>1, BeginsDoes DEF Phases
<1>4. TypeOK'
  <2>1. pc' \in [Calls -> {"idle", "control", "first", "reject", "mint", "armed", "replay"} \cup Settled]
    BY <1>1 DEF IInv, TypeOK, Begins, Settled
  <2> QED
    BY <1>1, <1>3, <2>1 DEF IInv, TypeOK, platform, handle
<1>5. Own(c, "mint")
  BY <1>1, <1>3 DEF Own, IInv, TypeOK
<1>6. CallInv(c)'
  <2>1. RunsInv(c)'
    BY <1>1, <1>2, <1>3 DEF CallInv, RunsInv, Phases
  <2>2. RetryInv(c)'
    BY <1>1, <1>2, <1>3 DEF CallInv, RetryInv, Phases, handle
  <2>3. TokenInv(c)'
    BY <1>1, <1>2, <1>3 DEF CallInv, TokenInv, Phases, platform, handle, Stale
  <2> QED
    BY <2>1, <2>2, <2>3 DEF CallInv
<1> QED
  BY <1>2, <1>4, <1>5, <1>6, OneCall DEF Phases

\* The handle is armed with a token that was issued.
LEMMA MintReturnsPreserves ==
  ASSUME IInv, NEW c \in Calls, MintReturns(c)
  PROVE  IInv'
<1>1. /\ pc[c] = "mint" /\ pc' = [pc EXCEPT ![c] = "armed"] /\ LC!Succeed(<<c, "mint">>)
      /\ armed' = answer[c].token
      /\ UNCHANGED <<platform, sdk, info, op, cred, asks, rejected, answer>>
  BY DEF MintReturns
<1>2. /\ RunStep(<<c, "mint">>) /\ LC!CallTypeOK' /\ outcome[<<c, "mint">>] = "pending"
      /\ outcome'[<<c, "mint">>] = "ok" /\ effects[<<c, "mint">>] # {}
      /\ replayable' = replayable /\ effects' = effects
      /\ \A l \in Phases : l # "mint" => outcome'[<<c, l>>] = outcome[<<c, l>>]
  BY <1>1, SettlesDoes DEF Phases
<1>3. CallInv(c) /\ answer[c].token # 0 /\ answer[c].token \in {0} \cup Tokens
  BY <1>2 DEF IInv, TypeOK, CallInv, TokenInv
<1>4. Around /\ PlatformInv'
  BY <1>1, <1>3, PlatformStill
<1>5. TypeOK'
  <2>1. pc' \in [Calls -> {"idle", "control", "first", "reject", "mint", "armed", "replay"} \cup Settled]
    BY <1>1 DEF IInv, TypeOK, Settled
  <2> QED
    BY <1>1, <1>2, <1>3, <2>1 DEF IInv, TypeOK, platform
<1>6. Own(c, "mint")
  BY <1>1, <1>2 DEF Own, IInv, TypeOK
<1>7. CallInv(c)'
  <2>1. pc'[c] = "armed"
    BY <1>1 DEF IInv, TypeOK
  <2>2. RunsInv(c)'
    BY <1>1, <1>2, <1>3, <2>1 DEF CallInv, RunsInv, Phases
  <2>3. RetryInv(c)'
    BY <1>1, <1>2, <1>3 DEF CallInv, RetryInv, Phases
  <2>4. TokenInv(c)'
    BY <1>1, <1>2, <1>3 DEF CallInv, TokenInv, Phases, platform, Stale
  <2> QED
    BY <2>2, <2>3, <2>4 DEF CallInv
<1> QED
  BY <1>4, <1>5, <1>6, <1>7, OneCall DEF Phases

\* The request is made once more, as repeatable as it was the first time.
LEMMA ReplayPreserves ==
  ASSUME IInv, NEW c \in Calls, Replay(c)
  PROVE  IInv'
<1>1. /\ pc[c] = "armed" /\ Begins(c, "replay", "replay")
      /\ cred' = [cred EXCEPT ![c] = ReplayToken(c)]
      /\ UNCHANGED <<platform, handle, op, asks, rejected, answer>>
  BY DEF Replay
<1>2. Around /\ PlatformInv' /\ CallInv(c)
  BY <1>1, PlatformStill DEF handle, IInv
<1>3. /\ RunStep(<<c, "replay">>) /\ LC!CallTypeOK'
      /\ outcome[<<c, "replay">>] = "none" /\ outcome'[<<c, "replay">>] \in {"pending", "failed"}
      /\ (replayable'[<<c, "replay">>] <=> op'[c] \in sdk.retried)
      /\ effects' = effects
      /\ \A l \in Phases : l # "replay" =>
           outcome'[<<c, l>>] = outcome[<<c, l>>] /\ replayable'[<<c, l>>] = replayable[<<c, l>>]
      /\ \A d \in Calls : d # c => pc'[d] = pc[d]
      /\ pc'[c] \in {"replay", "failed"}
  BY <1>1, BeginsDoes DEF Phases
<1>4. ReplayToken(c) \in {0} \cup Tokens
  BY DEF ReplayToken, IInv, TypeOK
<1>5. TypeOK'
  <2>1. pc' \in [Calls -> {"idle", "control", "first", "reject", "mint", "armed", "replay"} \cup Settled]
    BY <1>1 DEF IInv, TypeOK, Begins, Settled
  <2>2. cred' \in [Calls -> {0} \cup Tokens]
    BY <1>1, <1>4 DEF IInv, TypeOK
  <2> QED
    BY <1>1, <1>3, <2>1, <2>2 DEF IInv, TypeOK, platform, handle
<1>6. Own(c, "replay")
  BY <1>1, <1>3 DEF Own, IInv, TypeOK
<1>7. CallInv(c)'
  <2>1. RunsInv(c)'
    BY <1>1, <1>2, <1>3 DEF CallInv, RunsInv, Phases
  <2>2. RetryInv(c)'
    BY <1>1, <1>2, <1>3 DEF CallInv, RetryInv, Phases, handle
  <2>3. sdk.ownToken => cred'[c] = answer[c].token
    BY <1>1 DEF ReplayToken, IInv, TypeOK
  <2>4. <<c, "replay">> \notin rejected
    BY <1>2, <1>3 DEF CallInv, RunsInv, Phases
  <2>5. TokenInv(c)'
    BY <1>1, <1>2, <1>3, <2>3, <2>4 DEF CallInv, TokenInv, Phases, platform, handle
  <2> QED
    BY <2>1, <2>2, <2>5 DEF CallInv
<1> QED
  BY <1>2, <1>5, <1>6, <1>7, OneCall DEF Phases

\* The replay's rejection is the caller's.
LEMMA ReplayDeniedPreserves ==
  ASSUME IInv, NEW c \in Calls, ReplayDenied(c)
  PROVE  IInv'
<1>1. /\ pc[c] = "replay" /\ pc' = [pc EXCEPT ![c] = "denied"] /\ LC!Deny(<<c, "replay">>)
      /\ <<c, "replay">> \in rejected
      /\ UNCHANGED <<platform, handle, op, cred, asks, rejected, answer>>
  BY DEF ReplayDenied
<1>2. /\ RunStep(<<c, "replay">>) /\ LC!CallTypeOK' /\ outcome[<<c, "replay">>] = "pending"
      /\ outcome'[<<c, "replay">>] = "denied"
      /\ replayable' = replayable /\ effects' = effects
      /\ \A l \in Phases : l # "replay" => outcome'[<<c, l>>] = outcome[<<c, l>>]
  BY <1>1, SettlesDoes DEF Phases
<1>3. Around /\ PlatformInv' /\ CallInv(c)
  BY <1>1, PlatformStill DEF handle, IInv
<1>4. TypeOK'
  <2>1. pc' \in [Calls -> {"idle", "control", "first", "reject", "mint", "armed", "replay"} \cup Settled]
    BY <1>1 DEF IInv, TypeOK, Settled
  <2> QED
    BY <1>1, <1>2, <2>1 DEF IInv, TypeOK, platform, handle
<1>5. Own(c, "replay")
  BY <1>1, <1>2 DEF Own, IInv, TypeOK
<1>6. CallInv(c)'
  <2>1. pc'[c] = "denied"
    BY <1>1 DEF IInv, TypeOK
  <2>2. RunsInv(c)'
    BY <1>1, <1>2, <1>3, <2>1 DEF CallInv, RunsInv, Phases
  <2>3. RetryInv(c)'
    BY <1>1, <1>2, <1>3 DEF CallInv, RetryInv, Phases, handle
  <2>4. TokenInv(c)'
    BY <1>1, <1>2, <1>3 DEF CallInv, TokenInv, Phases, platform, handle, Stale
  <2> QED
    BY <2>2, <2>3, <2>4 DEF CallInv
<1> QED
  BY <1>3, <1>4, <1>5, <1>6, OneCall DEF Phases

\* What performing a run does.
LEMMA PerformDoes ==
  ASSUME IInv, NEW c \in Calls, NEW k \in Phases, LC!Perform(<<c, k>>)
  PROVE  /\ RunStep(<<c, k>>) /\ LC!CallTypeOK'
         /\ outcome[<<c, k>>] # "none"
         /\ replayable[<<c, k>>] \/ (effects[<<c, k>>] = {} /\ outcome[<<c, k>>] # "denied")
         /\ outcome' = outcome /\ replayable' = replayable
         /\ effects'[<<c, k>>] # {}
         /\ \A l \in Phases : l # k => effects'[<<c, l>>] = effects[<<c, l>>]
<1>1. LC!CallTypeOK /\ <<c, k>> \in Runs
  BY DEF IInv, TypeOK, Runs
<1>2. RunStep(<<c, k>>) /\ LC!CallTypeOK'
  BY <1>1, RunMoves DEF RunStep
<1>3. effects'[<<c, k>>] # {}
  <2>1. PICK n \in RunAttempts : effects' = [effects EXCEPT ![<<c, k>>] = @ \cup {n}]
    BY DEF LC!Perform
  <2> QED
    BY <1>1, <2>1 DEF LC!CallTypeOK
<1>4. ASSUME NEW l \in Phases, l # k PROVE effects'[<<c, l>>] = effects[<<c, l>>]
  <2>1. <<c, l>> \in Runs /\ <<c, l>> # <<c, k>>
    BY <1>4, RunsDiffer
  <2> QED
    BY <1>1, <1>2, <2>1, RunMoves
<1> QED
  BY <1>2, <1>3, <1>4 DEF LC!Perform

\* The control plane serves a lifecycle request or a mint; whoever is to be
\* told of a token is told of the one issued.
LEMMA ControlServesPreserves ==
  ASSUME IInv, NEW c \in Calls, NEW k \in Phases, ControlServes(c, k)
  PROVE  IInv'
<1>1. /\ UNCHANGED <<handle, op, pc, cred, asks, rejected>> /\ k \in {"first", "mint"}
      /\ k = "first" => op[c] \in ControlOps /\ Serves(op[c], asks[c])
      /\ k = "mint" => Serves("mint", asks[c])
  BY DEF ControlServes
<1>2. /\ RunStep(<<c, k>>) /\ LC!CallTypeOK' /\ outcome[<<c, k>>] # "none"
      /\ replayable[<<c, k>>] \/ (effects[<<c, k>>] = {} /\ outcome[<<c, k>>] # "denied")
      /\ outcome' = outcome /\ replayable' = replayable
      /\ effects'[<<c, k>>] # {}
      /\ \A l \in Phases : l # k => effects'[<<c, l>>] = effects[<<c, l>>]
  BY PerformDoes DEF ControlServes
<1>3. CallInv(c) /\ PlatformTypeOK /\ PlatformInv /\ asks[c] \in Scopes
      /\ op[c] \in DataOps \cup ControlOps \cup {"none"} /\ issued \in Nat
      /\ issued + 1 # issued /\ issued + 1 # 0
  BY DEF IInv, TypeOK, PlatformTypeOK, Tokens
<1>4. PlatformStep
  BY <1>1, <1>3 DEF Serves, PlatformStep, ControlOps
<1>5. /\ PlatformTypeOK' /\ PlatformInv' /\ issued' \in {issued, issued + 1}
      /\ \A t \in 1..issued : Stale(t) => Stale(t)'
  BY <1>3, <1>4, PlatformMoves
<1>6. Around
  BY <1>1, <1>5 DEF Around, handle
<1>7. (k = "mint" \/ op[c] \in {"resume", "mintFull", "mintNarrow"}) => issued' = issued + 1
  <2>1. CASE k = "mint"
    BY <1>1, <2>1 DEF Serves, MintVm, Issue
  <2>2. CASE k = "first" /\ op[c] \in {"mintFull", "mintNarrow"}
    BY <1>1, <2>2 DEF Serves, MintVm, Issue
  <2>3. CASE k = "first" /\ op[c] = "resume"
    BY <1>1, <2>3 DEF Serves, ResumeVm, Issue
  <2> QED
    BY <1>1, <2>1, <2>2, <2>3
<1> DEFINE a == [epoch |-> epoch', status |-> status',
                 token |-> IF issued' = issued THEN 0 ELSE issued']
<1>8. /\ a \in [epoch : Epochs, status : {"running", "paused", "terminated"}, token : {0} \cup Tokens]
      /\ a.token \in 0..issued' /\ (issued' = issued + 1 => a.token # 0)
  <2>1. epoch' \in Epochs /\ status' \in {"running", "paused", "terminated"}
    BY <1>5 DEF PlatformTypeOK
  <2>2. issued' \in Tokens
    BY <1>5 DEF PlatformTypeOK
  <2> QED
    BY <1>3, <1>5, <2>1, <2>2 DEF Tokens
<1>9. \/ answer' = [answer EXCEPT ![c] = a]
      \/ effects[<<c, k>>] # {} /\ answer' = answer
  BY DEF ControlServes
<1> HIDE DEF a
<1>10. TypeOK'
  <2>1. answer' \in [Calls -> [epoch : Epochs, status : {"running", "paused", "terminated"},
                              token : {0} \cup Tokens]]
    BY <1>8, <1>9 DEF IInv, TypeOK
  <2> QED
    BY <1>1, <1>2, <1>5, <2>1 DEF IInv, TypeOK, PlatformTypeOK, handle
<1>11. Own(c, k)
  BY <1>1, <1>2, <1>9 DEF Own, IInv, TypeOK
<1>12. CallInv(c)'
  <2>1. RunsInv(c)'
    BY <1>1, <1>2, <1>3 DEF CallInv, RunsInv, Phases
  <2>2. outcome[<<c, "first">>] = "denied" => op[c] \in DataOps /\ k = "mint"
    <3>1. op[c] \in DataOps => op[c] \notin ControlOps
      BY DEF DataOps, ControlOps
    <3> QED
      BY <1>1, <1>3, <3>1 DEF CallInv, RunsInv
  <2>3. RetryInv(c)'
    BY <1>1, <1>2, <1>3, <2>2 DEF CallInv, RetryInv, Phases, handle
  <2>4. outcome[<<c, "replay">>] # "none" => FALSE
    <3>1. SUFFICES ASSUME outcome[<<c, "replay">>] # "none" PROVE FALSE
      OBVIOUS
    <3>2. outcome[<<c, "mint">>] = "ok" /\ outcome[<<c, "first">>] = "denied"
      BY <1>3, <3>1 DEF CallInv, RunsInv
    <3>3. k = "mint" /\ ~replayable[<<c, "mint">>] /\ effects[<<c, "mint">>] # {}
      BY <1>3, <2>2, <3>2 DEF CallInv, RunsInv, RetryInv
    <3> QED
      BY <1>2, <3>3
  <2>5. <<c, "replay">> \notin rejected
    BY <1>3, <2>4 DEF CallInv, RunsInv, Phases
  <2>6. (answer[c].token \in 0..issued)'
    BY <1>3, <1>5, <1>8, <1>9 DEF CallInv, TokenInv, IInv, TypeOK
  <2>7. (effects[<<c, "mint">>] # {} => answer[c].token # 0)'
    <3>1. CASE k = "mint"
      BY <1>3, <1>7, <1>8, <1>9, <3>1 DEF CallInv, TokenInv, IInv, TypeOK
    <3>2. CASE k = "first"
      <4>1. effects[<<c, "mint">>] = {}
        BY <1>3, <2>2, <3>2 DEF CallInv, RunsInv, Phases
      <4> QED
        BY <1>2, <3>2, <4>1 DEF Phases
    <3> QED
      BY <1>1, <3>1, <3>2
  <2>8. (op[c] \in {"resume", "mintFull", "mintNarrow"} /\ effects[<<c, "first">>] # {}
           => answer[c].token # 0)'
    <3>1. CASE k = "mint"
      <4>1. op[c] \in DataOps
        BY <1>2, <1>3, <3>1 DEF CallInv, RunsInv
      <4> QED
        BY <1>1, <4>1 DEF DataOps
    <3>2. CASE k = "first"
      BY <1>1, <1>3, <1>7, <1>8, <1>9, <3>2 DEF CallInv, TokenInv, IInv, TypeOK
    <3> QED
      BY <1>1, <3>1, <3>2
  <2>9. TokenInv(c)'
    BY <1>1, <1>2, <1>3, <2>4, <2>5, <2>6, <2>7, <2>8 DEF CallInv, TokenInv, handle
  <2> QED
    BY <2>1, <2>3, <2>9 DEF CallInv
<1> QED
  BY <1>5, <1>6, <1>10, <1>11, <1>12, OneCall

\* The agent performs a try whose token is good.
LEMMA AgentServesPreserves ==
  ASSUME IInv, NEW c \in Calls, NEW k \in Phases, AgentServes(c, k)
  PROVE  IInv'
<1>1. op[c] \in DataOps /\ k # "mint" /\ UNCHANGED <<platform, handle, calls>>
  BY DEF AgentServes
<1>2. /\ RunStep(<<c, k>>) /\ LC!CallTypeOK' /\ outcome[<<c, k>>] # "none"
      /\ replayable[<<c, k>>] \/ (effects[<<c, k>>] = {} /\ outcome[<<c, k>>] # "denied")
      /\ outcome' = outcome /\ replayable' = replayable
      /\ effects'[<<c, k>>] # {}
      /\ \A l \in Phases : l # k => effects'[<<c, l>>] = effects[<<c, l>>]
  BY PerformDoes DEF AgentServes
<1>3. Around /\ PlatformInv' /\ CallInv(c)
  BY <1>1, PlatformStill DEF handle, IInv
<1>4. TypeOK'
  BY <1>1, <1>2 DEF IInv, TypeOK, platform, handle, calls
<1>5. Own(c, k)
  BY <1>1, <1>2 DEF Own, calls
<1>6. CallInv(c)'
  <2>1. RunsInv(c)'
    BY <1>1, <1>2, <1>3 DEF CallInv, RunsInv, Phases, calls
  <2>2. RetryInv(c)'
    BY <1>1, <1>2, <1>3 DEF CallInv, RetryInv, Phases, calls, handle
  <2>3. op[c] \notin {"resume", "mintFull", "mintNarrow"}
    BY <1>1 DEF DataOps
  <2>4. TokenInv(c)'
    BY <1>1, <1>2, <1>3, <2>3 DEF CallInv, TokenInv, Phases, calls, handle, platform, Stale
  <2> QED
    BY <2>1, <2>2, <2>4 DEF CallInv
<1> QED
  BY <1>3, <1>4, <1>5, <1>6, OneCall

\* The agent rejects a try for the token it carries, the call's own where
\* the SDK replays with that.
LEMMA AgentRejectsPreserves ==
  ASSUME IInv, NEW c \in Calls, NEW k \in Phases, AgentRejects(c, k)
  PROVE  IInv'
<1>1. /\ rejected' = rejected \cup {<<c, k>>} /\ outcome[<<c, k>>] = "pending" /\ Stale(cred[c])
      /\ UNCHANGED <<platform, handle, op, pc, cred, asks, answer, runs>>
  BY DEF AgentRejects
<1>2. Around /\ PlatformInv' /\ CallInv(c)
  BY <1>1, PlatformStill DEF handle, IInv
<1>3. TypeOK'
  <2>1. rejected' \in SUBSET Runs
    BY <1>1, RunsDiffer DEF IInv, TypeOK
  <2> QED
    BY <1>1, <2>1 DEF IInv, TypeOK, platform, handle, runs, LC!CallTypeOK
<1>4. Own(c, k)
  BY <1>1 DEF Own
<1>5. CallInv(c)'
  <2>1. RunsInv(c)'
    <3>1. ASSUME NEW l \in Phases, outcome[<<c, l>>] = "none"
          PROVE  effects[<<c, l>>] = {} /\ <<c, l>> \notin rejected'
      <4>1. <<c, l>> # <<c, k>>
        BY <1>1, <3>1
      <4> QED
        BY <1>1, <1>2, <3>1, <4>1 DEF CallInv, RunsInv
    <3> QED
      BY <1>1, <1>2, <3>1 DEF CallInv, RunsInv, runs
  <2>2. RetryInv(c)'
    BY <1>1, <1>2 DEF CallInv, RetryInv, handle, runs
  <2>3. sdk.ownToken /\ <<c, "replay">> \in rejected' => Stale(answer[c].token)
    <3>1. CASE k = "replay"
      BY <1>1, <1>2, <3>1 DEF CallInv, TokenInv
    <3>2. CASE k # "replay"
      <4>1. <<c, "replay">> # <<c, k>>
        BY <3>2
      <4> QED
        BY <1>1, <1>2, <4>1 DEF CallInv, TokenInv
    <3> QED
      BY <3>1, <3>2
  <2>4. TokenInv(c)'
    BY <1>1, <1>2, <2>3 DEF CallInv, TokenInv, handle, runs, platform, Stale
  <2> QED
    BY <2>1, <2>2, <2>4 DEF CallInv
<1> QED
  BY <1>2, <1>3, <1>4, <1>5, OneCall

\* Other clients and the clock make tokens stale, nothing else.
LEMMA ElsewherePreserves ==
  ASSUME IInv, Elsewhere
  PROVE  IInv'
<1>1. PlatformStep /\ UNCHANGED <<handle, calls, runs>>
  BY DEF Elsewhere, PlatformStep
<1>2. PlatformTypeOK /\ PlatformInv
  BY DEF IInv, TypeOK, PlatformTypeOK
<1>3. /\ PlatformTypeOK' /\ PlatformInv' /\ issued' \in {issued, issued + 1}
      /\ \A t \in 1..issued : Stale(t) => Stale(t)'
  BY <1>1, <1>2, PlatformMoves
<1>4. TypeOK'
  BY <1>1, <1>3 DEF IInv, TypeOK, PlatformTypeOK, handle, calls, runs, LC!CallTypeOK
<1>5. Around
  BY <1>1, <1>3 DEF Around, handle
<1>6. ASSUME NEW d \in Calls PROVE CallInv(d)'
  <2>1. Untouched(d)
    BY <1>1 DEF Untouched, calls, runs
  <2> QED
    BY <1>5, <2>1, Frame
<1> QED
  BY <1>3, <1>4, <1>6 DEF IInv

\* Every step of the handle, of its calls, of the platform and of its other
\* clients keeps the invariant.
LEMMA NextPreserves ==
  ASSUME IInv, [Next]_vars
  PROVE  IInv'
<1>1. CASE UNCHANGED vars
  <2>1. UNCHANGED <<platform, handle, calls, runs>>
    BY <1>1 DEF vars
  <2>2. Around /\ PlatformInv'
    BY <2>1, PlatformStill DEF handle
  <2>3. ASSUME NEW d \in Calls PROVE CallInv(d)'
    <3>1. Untouched(d)
      BY <2>1 DEF Untouched, calls, runs
    <3> QED
      BY <2>2, <3>1, Frame
  <2>4. TypeOK'
    BY <2>1 DEF IInv, TypeOK, platform, handle, calls, runs, LC!CallTypeOK
  <2> QED
    BY <2>2, <2>3, <2>4 DEF IInv
<1>2. ASSUME NEW c \in Calls, Starts(c) PROVE IInv'
  BY <1>2, StartControlPreserves, StartUnarmedPreserves, StartDataPreserves DEF Starts
<1>3. ASSUME NEW c \in Calls, Proceeds(c) PROVE IInv'
  BY <1>3, ControlReturnsPreserves, ControlFailsPreserves, RereadPreserves, DataSettles,
     DataDeniedPreserves, RemintPreserves, MintReturnsPreserves, MintFailsPreserves,
     ReplayPreserves, ReplayDeniedPreserves DEF Proceeds
<1>4. ASSUME NEW c \in Calls, Serving(c) PROVE IInv'
  BY <1>4, ControlServesPreserves, AgentServesPreserves, AgentRejectsPreserves DEF Serving
<1> QED
  BY <1>1, <1>2, <1>3, <1>4, ElsewherePreserves DEF Next

-----------------------------------------------------------------------------
(* The theorems *)

\* The runs of every call, its credentials and the platform's tokens stay
\* related whatever the interleaving of calls, responses and other clients.
THEOREM HandleInvariant == Spec => []IInv
<1>1. Init => IInv
  <2> SUFFICES ASSUME Init PROVE IInv
    OBVIOUS
  <2> USE BoundsAssumption
  <2>1. LC!CallTypeOK
    BY DEF Init, LC!CallInit, LC!CallTypeOK, LC!Outcomes
  <2>2. 1 \in Tokens /\ 0 \in Epochs /\ 1 \in Epochs \ {0} /\ "full" \in Scopes
    BY DEF Tokens, Epochs, Scopes
  <2>3. answer \in [Calls -> [epoch : Epochs, status : {"running", "paused", "terminated"},
                              token : {0} \cup Tokens]]
    BY <2>2 DEF Init, None
  <2>4. TypeOK
    BY <2>1, <2>2, <2>3, HandlesAssumption DEF Init, TypeOK, Infos, Settled
  <2>5. PlatformInv
    BY <2>2 DEF Init, PlatformInv
  <2>6. ASSUME NEW c \in Calls PROVE CallInv(c)
    <3>1. \A k \in Phases : outcome[<<c, k>>] = "none" /\ effects[<<c, k>>] = {}
      BY DEF Init, LC!CallInit, Runs
    <3>2. pc[c] = "idle" /\ answer[c].token = 0 /\ rejected = {} /\ issued = 1
      BY DEF Init, None
    <3> QED
      BY <3>1, <3>2 DEF CallInv, RunsInv, RetryInv, TokenInv, Phases
  <2> QED
    BY <2>4, <2>5, <2>6 DEF IInv
<1>2. IInv /\ [Next]_vars => IInv'
  BY NextPreserves
<1> QED
  BY <1>1, <1>2, PTL DEF Spec

\* A Rust call that recovered is only denied when its own token was
\* invalidated, whatever other calls arm the handle with.
THEOREM OwnTokenIsEnough == Spec => []OwnTokenSuffices
<1>1. IInv => OwnTokenSuffices
  BY DEF IInv, CallInv, RunsInv, TokenInv, OwnTokenSuffices
<1> QED
  BY <1>1, HandleInvariant, PTL

-----------------------------------------------------------------------------
(* What the handle says of the sandbox never goes back, where calls that *)
(* store it exclude each other. *)

Now == [epoch |-> epoch, status |-> status]

\* The handle's representation is behind the platform, and the one lifecycle
\* call in progress, once performed, has an answer between the two.
InfoInv ==
  sdk.exclusive =>
    /\ ~Precedes(Now, info)
    /\ \A c, d \in Calls : pc[c] = "control" /\ pc[d] = "control" => c = d
    /\ \A c \in Calls : pc[c] = "control" => op[c] \in ControlOps
    /\ \A c \in Calls : pc[c] = "control" /\ effects[<<c, "first">>] # {} =>
         ~Precedes(answer[c], info) /\ ~Precedes(Now, answer[c])

IsStage(a) == a.epoch \in Nat /\ a.status \in {"running", "paused", "terminated"}

\* Stages are in a row.
LEMMA StagesInARow ==
  ASSUME NEW a, NEW b, NEW d, IsStage(a), IsStage(b), IsStage(d)
  PROVE  /\ ~Precedes(a, a)
         /\ ~Precedes(b, a) /\ ~Precedes(d, b) => ~Precedes(d, a)
BY DEF IsStage, Precedes, Stage

\* What the handle, the answers and the platform say are stages.
LEMMA StagesTyped ==
  ASSUME TypeOK
  PROVE  IsStage(Now) /\ IsStage(info) /\ \A c \in Calls : IsStage(answer[c])
<1>1. Epochs \subseteq Nat
  BY DEF Epochs
<1> QED
  BY <1>1 DEF TypeOK, IsStage, Now, Infos

\* So is what the platform will say next.
LEMMA NextStageTyped ==
  ASSUME TypeOK'
  PROVE  IsStage(Now')
<1>1. Epochs \subseteq Nat
  BY DEF Epochs
<1> QED
  BY <1>1 DEF TypeOK, IsStage, Now

\* The platform only goes on to later stages.
LEMMA PlatformAdvances ==
  ASSUME PlatformTypeOK, PlatformStep
  PROVE  ~Precedes(Now', Now)
<1>1. epoch \in Nat /\ status \in {"running", "paused", "terminated"}
  BY DEF PlatformTypeOK, Epochs
<1>2. \/ epoch' = epoch /\ status' = status
      \/ epoch' = epoch /\ status = "running" /\ status' = "paused"
      \/ epoch' = epoch + 1 /\ status' = "running"
      \/ epoch' = epoch /\ status' = "terminated"
  BY DEF PlatformStep, platform, PauseVm, ResumeVm, TerminateVm, MintVm, Expire
<1> QED
  BY <1>1, <1>2 DEF Precedes, Now, Stage

\* A step that stores and answers nothing, and sends no lifecycle request.
LEMMA InfoStays ==
  ASSUME IInv, IInv', InfoInv, PlatformStep, UNCHANGED <<sdk, info>>,
         \A c \in Calls :
           pc'[c] = "control" =>
             /\ pc[c] = "control" /\ op'[c] = op[c] /\ answer'[c] = answer[c]
             /\ effects'[<<c, "first">>] = effects[<<c, "first">>]
  PROVE  InfoInv'
<1> SUFFICES ASSUME sdk.exclusive PROVE InfoInv'
  BY DEF InfoInv
<1>1. IsStage(Now) /\ IsStage(info) /\ \A c \in Calls : IsStage(answer[c])
  BY StagesTyped DEF IInv
<1>2. IsStage(Now') /\ ~Precedes(Now', Now)
  <2>1. IsStage(Now')
    BY NextStageTyped DEF IInv
  <2>2. PlatformTypeOK
    BY DEF IInv, TypeOK, PlatformTypeOK
  <2> QED
    BY <2>1, <2>2, PlatformAdvances
<1>3. ~Precedes(Now', info')
  BY <1>1, <1>2, StagesInARow DEF InfoInv
<1>4. ASSUME NEW c \in Calls, pc'[c] = "control", effects'[<<c, "first">>] # {}
      PROVE  ~Precedes(answer'[c], info') /\ ~Precedes(Now', answer'[c])
  <2>1. ~Precedes(answer[c], info) /\ ~Precedes(Now, answer[c]) /\ answer'[c] = answer[c]
    BY <1>4 DEF InfoInv
  <2> QED
    BY <1>1, <1>2, <2>1, StagesInARow
<1>5. /\ \A c, d \in Calls : pc'[c] = "control" /\ pc'[d] = "control" => c = d
      /\ \A c \in Calls : pc'[c] = "control" => op'[c] \in ControlOps
  BY DEF InfoInv
<1> QED
  BY <1>3, <1>4, <1>5 DEF InfoInv, Precedes, Now

\* A lifecycle request begins alone, and nothing of it has been performed.
LEMMA StartControlInfo ==
  ASSUME IInv, IInv', InfoInv, NEW c \in Calls, NEW o \in ControlOps, StartControl(c, o)
  PROVE  InfoInv'
<1> SUFFICES ASSUME sdk.exclusive PROVE InfoInv'
  BY DEF StartControl, handle, InfoInv
<1>1. /\ \A d \in Calls : pc[d] # "control"
      /\ pc[c] = "idle" /\ op' = [op EXCEPT ![c] = o] /\ Begins(c, "first", "control")
      /\ UNCHANGED <<epoch, status, info, answer>>
  BY DEF StartControl, platform, handle
<1>2. effects' = effects /\ \A d \in Calls : d # c => pc'[d] = pc[d]
  BY <1>1, BeginsDoes DEF Phases
<1>3. effects'[<<c, "first">>] = {} /\ op'[c] = o
  <2>1. RunsInv(c) /\ op'[c] = o
    BY <1>1 DEF IInv, CallInv, TypeOK
  <2> QED
    BY <1>1, <1>2, <2>1 DEF RunsInv, Phases
<1>4. ~Precedes(Now', info')
  BY <1>1 DEF InfoInv, Precedes, Now
<1> QED
  BY <1>1, <1>2, <1>3, <1>4 DEF InfoInv

\* A lifecycle response brings the handle forward, and nobody else is in
\* progress that it could overtake.
LEMMA ControlReturnsInfo ==
  ASSUME IInv, IInv', InfoInv, NEW c \in Calls, ControlReturns(c)
  PROVE  InfoInv' /\ (sdk.exclusive => ~Precedes(info', info))
<1> SUFFICES ASSUME sdk.exclusive PROVE InfoInv' /\ ~Precedes(info', info)
  BY DEF ControlReturns, InfoInv
<1>1. /\ pc[c] = "control" /\ pc' = [pc EXCEPT ![c] = "ok"]
      /\ UNCHANGED <<epoch, status, op, answer>> /\ LC!Succeed(<<c, "first">>)
  BY DEF ControlReturns, platform
<1>2. effects[<<c, "first">>] # {}
  BY <1>1 DEF LC!Succeed
<1>3. IsStage(info) /\ IsStage(Stored(c)) /\ ~Precedes(Stored(c), info) /\ ~Precedes(Now, Stored(c))
  BY <1>1, <1>2, StagesTyped DEF IInv, InfoInv, IsStage, Precedes, Stored
<1>4. info' = info \/ info' = Stored(c)
  BY DEF ControlReturns
<1>5. ~Precedes(info', info) /\ ~Precedes(Now, info')
  BY <1>3, <1>4, StagesInARow DEF InfoInv
<1>6. \A d \in Calls : pc'[d] # "control"
  BY <1>1 DEF InfoInv, IInv, TypeOK
<1>7. ~Precedes(Now', info')
  BY <1>1, <1>5 DEF Precedes, Now
<1> QED
  BY <1>5, <1>6, <1>7 DEF InfoInv

\* The answer of the control plane describes the sandbox it has just seen.
LEMMA ControlServesInfo ==
  ASSUME IInv, IInv', InfoInv, NEW c \in Calls, NEW k \in Phases, ControlServes(c, k)
  PROVE  InfoInv'
<1> SUFFICES ASSUME sdk.exclusive PROVE InfoInv'
  BY DEF ControlServes, handle, InfoInv
<1>1. /\ UNCHANGED <<sdk, info, op, pc>> /\ k \in {"first", "mint"}
      /\ k = "first" => op[c] \in ControlOps /\ Serves(op[c], asks[c])
      /\ k = "mint" => Serves("mint", asks[c])
      /\ LC!Perform(<<c, k>>)
      /\ \A d \in Calls : d # c => answer'[d] = answer[d]
  BY DEF ControlServes, handle, IInv, TypeOK
<1>2. PlatformStep
  BY <1>1 DEF IInv, TypeOK, Serves, PlatformStep, ControlOps
<1>3. ASSUME NEW d \in Calls, d # c PROVE effects'[<<d, "first">>] = effects[<<d, "first">>]
  <2>1. <<d, "first">> \in Runs /\ <<c, k>> \in Runs /\ <<d, "first">> # <<c, k>>
    BY <1>3, RunsDiffer DEF Phases
  <2>2. LC!CallTypeOK /\ RunStep(<<c, k>>)
    BY <1>1 DEF IInv, TypeOK, RunStep
  <2> QED
    BY <2>1, <2>2, RunMoves
<1>4. CASE pc[c] # "control"
  BY <1>1, <1>2, <1>3, <1>4, InfoStays
<1>5. CASE pc[c] = "control"
  <2>1. k = "first"
    <3>1. op[c] \notin DataOps
      BY <1>5 DEF InfoInv, ControlOps, DataOps
    <3>2. outcome[<<c, k>>] # "none"
      BY <1>1 DEF LC!Perform
    <3> QED
      BY <1>1, <3>1, <3>2 DEF IInv, CallInv, RunsInv
  <2>2. IsStage(Now) /\ IsStage(info) /\ IsStage(answer[c]) /\ IsStage(Now')
    <3>1. IsStage(Now')
      BY NextStageTyped DEF IInv
    <3> QED
      BY <3>1, StagesTyped DEF IInv
  <2>3. ~Precedes(Now', Now)
    BY <1>2, PlatformAdvances DEF IInv, TypeOK, PlatformTypeOK
  <2>4. ~Precedes(Now', info)
    BY <2>2, <2>3, StagesInARow DEF InfoInv
  <2>5. ~Precedes(answer'[c], info) /\ ~Precedes(Now', answer'[c])
    <3>1. CASE answer' = [answer EXCEPT ![c] =
                 [epoch |-> epoch', status |-> status',
                  token |-> IF issued' = issued THEN 0 ELSE issued']]
      <4>1. answer'[c].epoch = epoch' /\ answer'[c].status = status'
        BY <3>1 DEF IInv, TypeOK
      <4>2. ~Precedes(Now', Now')
        BY <2>2, StagesInARow
      <4> QED
        BY <2>4, <4>1, <4>2 DEF Precedes, Now
    <3>2. CASE effects[<<c, k>>] # {} /\ UNCHANGED answer
      <4>1. ~Precedes(answer[c], info) /\ ~Precedes(Now, answer[c])
        BY <1>5, <2>1, <3>2 DEF InfoInv
      <4>2. ~Precedes(Now', answer[c])
        BY <2>2, <2>3, <4>1, StagesInARow
      <4> QED
        BY <3>2, <4>1, <4>2
    <3> QED
      BY <3>1, <3>2 DEF ControlServes
  <2>6. /\ \A d, e \in Calls : pc'[d] = "control" /\ pc'[e] = "control" => d = e
        /\ \A d \in Calls : pc'[d] = "control" => op'[d] \in ControlOps /\ d = c
    BY <1>1, <1>5 DEF InfoInv
  <2>7. (~Precedes(Now, info))' /\ (~Precedes(answer[c], info) /\ ~Precedes(Now, answer[c]))'
    BY <1>1, <2>4, <2>5 DEF Precedes, Now
  <2> QED
    BY <2>6, <2>7 DEF InfoInv
<1> QED
  BY <1>4, <1>5

\* The agent has nothing to do with lifecycle requests.
LEMMA AgentInfo ==
  ASSUME IInv, IInv', InfoInv, NEW c \in Calls, NEW k \in Phases,
         AgentServes(c, k) \/ AgentRejects(c, k)
  PROVE  InfoInv'
<1> SUFFICES ASSUME sdk.exclusive PROVE InfoInv'
  BY DEF AgentServes, AgentRejects, handle, InfoInv
<1>1. UNCHANGED <<platform, sdk, info, op, pc, answer>> /\ op[c] \in DataOps
  BY DEF AgentServes, AgentRejects, handle, calls
<1>2. ASSUME NEW d \in Calls, pc'[d] = "control"
      PROVE  effects'[<<d, "first">>] = effects[<<d, "first">>]
  <2>1. d # c
    BY <1>1, <1>2 DEF InfoInv, ControlOps, DataOps
  <2>2. <<d, "first">> \in Runs /\ <<c, k>> \in Runs /\ <<d, "first">> # <<c, k>>
    BY <2>1, RunsDiffer DEF Phases
  <2>3. LC!CallTypeOK /\ (RunStep(<<c, k>>) \/ UNCHANGED runs)
    BY DEF IInv, TypeOK, RunStep, AgentServes, AgentRejects
  <2> QED
    BY <2>2, <2>3, RunMoves DEF runs
<1>3. PlatformStep
  BY <1>1 DEF PlatformStep
<1> QED
  BY <1>1, <1>2, <1>3, InfoStays

\* The other steps of a call store nothing in the representation.
LEMMA OthersInfo ==
  ASSUME IInv, IInv', InfoInv, NEW c \in Calls,
         \/ \E o \in DataOps : StartUnarmed(c, o) \/ StartData(c, o)
         \/ ControlFails(c) \/ Reread(c) \/ DataReturns(c) \/ DataFails(c) \/ DataDenied(c)
         \/ Remint(c) \/ MintReturns(c) \/ MintFails(c) \/ Replay(c) \/ ReplayDenied(c)
  PROVE  InfoInv' /\ info' = info
<1>1. UNCHANGED <<platform, sdk, info, answer>>
  BY DEF StartUnarmed, StartData, ControlFails, Reread, DataReturns, DataFails, DataDenied, Remint,
         MintReturns, MintFails, Replay, ReplayDenied, handle
<1>2. effects' = effects
  BY DEF StartUnarmed, StartData, ControlFails, Reread, DataReturns, DataFails, DataDenied, Remint,
         MintReturns, MintFails, Replay, ReplayDenied, Begins, Recoverable, runs,
         LC!Begin, LC!Succeed, LC!GiveUp, LC!Deny
<1>3. pc \in [Calls -> {"idle", "control", "first", "reject", "mint", "armed", "replay"} \cup Settled]
      /\ op \in [Calls -> DataOps \cup ControlOps \cup {"none"}]
  BY DEF IInv, TypeOK
<1>4. ASSUME NEW d \in Calls, pc'[d] = "control"
      PROVE  pc[d] = "control" /\ op'[d] = op[d]
  <2>1. CASE \E o \in DataOps : StartUnarmed(c, o)
    BY <1>3, <1>4, <2>1 DEF StartUnarmed
  <2>2. CASE \E o \in DataOps : StartData(c, o)
    BY <1>3, <1>4, <2>2 DEF StartData, Begins
  <2>3. CASE Remint(c) \/ Replay(c)
    BY <1>3, <1>4, <2>3 DEF Remint, Replay, Begins
  <2>4. CASE ControlFails(c) \/ DataReturns(c) \/ DataFails(c) \/ MintReturns(c) \/ MintFails(c)
               \/ Reread(c) \/ DataDenied(c) \/ ReplayDenied(c)
    BY <1>3, <1>4, <2>4
    DEF ControlFails, DataReturns, DataFails, MintReturns, MintFails, Reread, DataDenied, ReplayDenied
  <2> QED
    BY <2>1, <2>2, <2>3, <2>4
<1>5. PlatformStep
  BY <1>1 DEF PlatformStep
<1> QED
  BY <1>1, <1>2, <1>4, <1>5, InfoStays

\* Every step keeps InfoInv, and no step takes the representation back.
LEMMA InfoStep ==
  ASSUME IInv, InfoInv, [Next]_vars
  PROVE  InfoInv' /\ (sdk.exclusive => ~Precedes(info', info))
<1>1. IInv'
  BY NextPreserves
<1>2. info' = info => ~Precedes(info', info)
  BY StagesTyped, StagesInARow DEF IInv
<1>3. CASE UNCHANGED vars
  <2>1. UNCHANGED <<platform, sdk, info, op, pc, answer, effects>>
    BY <1>3 DEF vars, handle, calls, runs
  <2> QED
    BY <1>1, <1>2, <2>1, InfoStays DEF PlatformStep
<1>4. CASE Elsewhere
  <2>1. UNCHANGED <<sdk, info, op, pc, answer, effects>> /\ PlatformStep
    BY <1>4 DEF Elsewhere, handle, calls, runs, PlatformStep
  <2> QED
    BY <1>1, <1>2, <2>1, InfoStays
<1>5. ASSUME NEW c \in Calls, Starts(c)
      PROVE  InfoInv' /\ info' = info
  <2>1. CASE \E o \in ControlOps : StartControl(c, o)
    BY <1>1, <2>1, StartControlInfo DEF StartControl, handle
  <2> QED
    BY <1>1, <1>5, <2>1, OthersInfo DEF Starts
<1>6. ASSUME NEW c \in Calls, Proceeds(c)
      PROVE  InfoInv' /\ (ControlReturns(c) \/ info' = info)
  BY <1>1, <1>6, ControlReturnsInfo, OthersInfo DEF Proceeds
<1>7. ASSUME NEW c \in Calls, Serving(c)
      PROVE  InfoInv' /\ info' = info
  BY <1>1, <1>7, ControlServesInfo, AgentInfo
  DEF Serving, ControlServes, AgentServes, AgentRejects, handle
<1> QED
  BY <1>1, <1>2, <1>3, <1>4, <1>5, <1>6, <1>7, ControlReturnsInfo DEF Next

\* What a Rust handle says of its sandbox only moves forward, whatever other
\* clients do and whichever attempt of a request is answered.
THEOREM InfoOnlyAdvances == Spec => RepresentationAdvances
<1>1. Init => InfoInv
  <2> SUFFICES ASSUME Init PROVE InfoInv
    OBVIOUS
  <2>1. /\ \A c \in Calls : pc[c] = "idle"
        /\ epoch = 1 /\ status = "running" /\ info = [epoch |-> 1, status |-> "running"]
    BY DEF Init
  <2> QED
    BY <2>1 DEF InfoInv, Precedes, Now, Stage
<1>2. IInv /\ InfoInv /\ [Next]_vars => InfoInv' /\ [sdk.exclusive => ~Precedes(info', info)]_vars
  BY InfoStep
<1> QED
  BY <1>1, <1>2, HandleInvariant, PTL DEF Spec, RepresentationAdvances

-----------------------------------------------------------------------------
(* Every step of the handle is a step of the abstract call, or none. *)

\* The effects of a call are those of its first try and of its replay.
EffectsOf(c) ==
  {a \in {"first", "replay"} \X RunAttempts : a[2] \in effects[<<c, a[1]>>]}

\* A call has no effect when neither of its tries has.
LEMMA NoEffects ==
  ASSUME IInv, NEW c \in Calls
  PROVE  EffectsOf(c) = {} <=> effects[<<c, "first">>] = {} /\ effects[<<c, "replay">>] = {}
<1>1. ASSUME NEW k \in {"first", "replay"} PROVE effects[<<c, k>>] \subseteq RunAttempts
  <2>1. <<c, k>> \in Runs
    BY RunsDiffer DEF Phases
  <2> QED
    BY <2>1 DEF IInv, TypeOK, LC!CallTypeOK
<1>2. ASSUME NEW k \in {"first", "replay"}, NEW n \in effects[<<c, k>>]
      PROVE  EffectsOf(c) # {}
  <2>1. <<k, n>> \in EffectsOf(c)
    BY <1>1, <1>2 DEF EffectsOf
  <2> QED
    BY <2>1
<1>3. ASSUME NEW a \in EffectsOf(c)
      PROVE  effects[<<c, "first">>] # {} \/ effects[<<c, "replay">>] # {}
  BY <1>3 DEF EffectsOf
<1> QED
  BY <1>2, <1>3

\* A try that is performed adds its attempt to the effects of its call.
LEMMA EffectsGrow ==
  ASSUME IInv, NEW c \in Calls, NEW k \in {"first", "replay"}, NEW n \in RunAttempts,
         effects' = [effects EXCEPT ![<<c, k>>] = @ \cup {n}]
  PROVE  /\ EffectsOf(c)' = EffectsOf(c) \cup {<<k, n>>}
         /\ \A d \in Calls : d # c => EffectsOf(d)' = EffectsOf(d)
<1>1. effects \in [Runs -> SUBSET RunAttempts]
  BY DEF IInv, TypeOK, LC!CallTypeOK
<1>2. ASSUME NEW d \in Calls, NEW l \in {"first", "replay"}
      PROVE  effects'[<<d, l>>] = IF d = c /\ l = k THEN effects[<<d, l>>] \cup {n}
                                  ELSE effects[<<d, l>>]
  <2>1. <<d, l>> \in Runs /\ (<<d, l>> = <<c, k>> <=> d = c /\ l = k)
    BY RunsDiffer DEF Phases
  <2> QED
    BY <1>1, <2>1
<1>3. ASSUME NEW d \in Calls, d # c PROVE EffectsOf(d)' = EffectsOf(d)
  <2>1. \A l \in {"first", "replay"} : effects'[<<d, l>>] = effects[<<d, l>>]
    BY <1>2, <1>3
  <2> QED
    BY <2>1 DEF EffectsOf
<1>4. ASSUME NEW a \in EffectsOf(c)' PROVE a \in EffectsOf(c) \cup {<<k, n>>}
  <2>1. PICK l \in {"first", "replay"}, m \in RunAttempts : a = <<l, m>> /\ m \in effects'[<<c, l>>]
    BY <1>4 DEF EffectsOf
  <2>2. m \in effects[<<c, l>>] \/ (l = k /\ m = n)
    BY <1>2, <2>1
  <2> QED
    BY <2>1, <2>2 DEF EffectsOf
<1>5. ASSUME NEW a \in EffectsOf(c) \cup {<<k, n>>} PROVE a \in EffectsOf(c)'
  <2>1. PICK l \in {"first", "replay"}, m \in RunAttempts :
          a = <<l, m>> /\ (m \in effects[<<c, l>>] \/ (l = k /\ m = n))
    BY <1>5 DEF EffectsOf
  <2>2. m \in effects'[<<c, l>>]
    <3>1. effects'[<<c, l>>] = IF l = k THEN effects[<<c, l>>] \cup {n} ELSE effects[<<c, l>>]
      BY <1>2
    <3> QED
      BY <2>1, <3>1
  <2> QED
    BY <2>1, <2>2 DEF EffectsOf
<1> QED
  BY <1>3, <1>4, <1>5

\* When neither the effects nor the retry class of a call change, what its
\* caller is told decides which step of the abstract call is taken.
LEMMA RefinePending ==
  ASSUME IInv, NEW c \in Calls, \A d \in Calls : d # c => pc'[d] = pc[d],
         \A d \in Calls : EffectsOf(d)' = EffectsOf(d),
         \A d \in Calls : replayable'[<<d, "first">>] = replayable[<<d, "first">>],
         outcomeOf(c) = "pending",
         \/ outcomeOf(c)' \in {"pending", "failed"}
         \/ outcomeOf(c)' = "ok" /\ EffectsOf(c) # {}
         \/ outcomeOf(c)' = "denied" /\ (replayable[<<c, "first">>] \/ EffectsOf(c) = {})
  PROVE  Call!CallNext \/ UNCHANGED Call!callVars
<1>1. \A d \in Calls : d # c => outcomeOf(d)' = outcomeOf(d)
  BY DEF outcomeOf
<1>2. CASE outcomeOf(c)' = "pending"
  <2>1. \A d \in Calls : outcomeOf(d)' = outcomeOf(d)
    BY <1>1, <1>2
  <2> QED
    BY <2>1 DEF Call!callVars, EffectsOf
<1>3. CASE outcomeOf(c)' = "failed"
  <2>1. Call!GiveUp(c)
    BY <1>1, <1>3 DEF Call!GiveUp, EffectsOf
  <2> QED
    BY <2>1 DEF Call!CallNext
<1>4. CASE outcomeOf(c)' = "ok" /\ EffectsOf(c) # {}
  <2>1. Call!Succeed(c)
    BY <1>1, <1>4 DEF Call!Succeed, EffectsOf
  <2> QED
    BY <2>1 DEF Call!CallNext
<1>5. CASE outcomeOf(c)' = "denied" /\ (replayable[<<c, "first">>] \/ EffectsOf(c) = {})
  <2>1. Call!Deny(c)
    BY <1>1, <1>5 DEF Call!Deny, EffectsOf
  <2> QED
    BY <2>1 DEF Call!CallNext
<1> QED
  BY <1>2, <1>3, <1>4, <1>5

\* A call begins the abstract one, whether it is sent or fails at once.
LEMMA RefineStarts ==
  ASSUME IInv, NEW c \in Calls, Starts(c)
  PROVE  Call!CallNext
<1>1. /\ pc[c] = "idle" /\ \A d \in Calls : d # c => pc'[d] = pc[d]
      /\ pc'[c] \in {"control", "first", "failed"}
      /\ effects' = effects
      /\ \A d \in Calls : d # c => replayable'[<<d, "first">>] = replayable[<<d, "first">>]
      /\ replayable'[<<c, "first">>] \in BOOLEAN
  <2>1. <<c, "first">> \in Runs /\ LC!CallTypeOK
    BY RunsDiffer DEF Phases, IInv, TypeOK
  <2>2. \A d \in Calls : d # c => <<d, "first">> \in Runs /\ <<d, "first">> # <<c, "first">>
    BY RunsDiffer DEF Phases
  <2>3. ASSUME NEW place \in {"control", "first"}, pc[c] = "idle", Begins(c, "first", place)
        PROVE  /\ \A d \in Calls : d # c => pc'[d] = pc[d]
               /\ pc'[c] \in {"control", "first", "failed"}
               /\ effects' = effects
               /\ \A d \in Calls : d # c => replayable'[<<d, "first">>] = replayable[<<d, "first">>]
               /\ replayable'[<<c, "first">>] \in BOOLEAN
    <3>1. /\ RunStep(<<c, "first">>) /\ effects' = effects /\ LC!CallTypeOK'
          /\ \A d \in Calls : d # c => pc'[d] = pc[d]
          /\ pc'[c] \in {place, "failed"}
      BY <2>3, BeginsDoes DEF Phases
    <3> QED
      BY <2>1, <2>2, <3>1, RunMoves DEF LC!CallTypeOK
  <2>4. ASSUME NEW o \in DataOps, StartUnarmed(c, o)
        PROVE  /\ pc[c] = "idle" /\ \A d \in Calls : d # c => pc'[d] = pc[d]
               /\ pc'[c] = "failed" /\ effects' = effects /\ replayable' = replayable
    BY <2>4 DEF StartUnarmed, IInv, TypeOK, runs
  <2>5. CASE \E o \in ControlOps : StartControl(c, o)
    BY <2>3, <2>5 DEF StartControl
  <2>6. CASE \E o \in DataOps : StartData(c, o)
    BY <2>3, <2>6 DEF StartData
  <2>7. CASE \E o \in DataOps : StartUnarmed(c, o)
    BY <2>1, <2>4, <2>7 DEF LC!CallTypeOK
  <2> QED
    BY <2>5, <2>6, <2>7 DEF Starts
<1>2. outcomeOf(c) = "none" /\ outcomeOf(c)' \in {"pending", "failed"}
  BY <1>1 DEF outcomeOf, Settled
<1>3. \A d \in Calls : d # c => outcomeOf(d)' = outcomeOf(d)
  BY <1>1 DEF outcomeOf
<1>4. Call!Begin(c)
  <2>1. \E o \in {"pending", "failed"} :
          [d \in Calls |-> outcomeOf(d)'] = [[d \in Calls |-> outcomeOf(d)] EXCEPT ![c] = o]
    BY <1>2, <1>3
  <2>2. \E b \in BOOLEAN :
          [d \in Calls |-> replayable'[<<d, "first">>]] =
            [[d \in Calls |-> replayable[<<d, "first">>]] EXCEPT ![c] = b]
    BY <1>1
  <2> QED
    BY <1>1, <1>2, <2>1, <2>2 DEF Call!Begin
<1> QED
  BY <1>4 DEF Call!CallNext

\* Whatever a suspended call comes back to, its caller is told once and of
\* what was done.
LEMMA RefineProceeds ==
  ASSUME IInv, NEW c \in Calls, Proceeds(c)
  PROVE  Call!CallNext \/ UNCHANGED Call!callVars
<1> DEFINE Same == /\ \A d \in Calls : EffectsOf(d)' = EffectsOf(d)
                   /\ \A d \in Calls : replayable'[<<d, "first">>] = replayable[<<d, "first">>]
           Others == \A d \in Calls : d # c => pc'[d] = pc[d]
<1>1. CallInv(c) /\ pc \in [Calls -> {"idle", "control", "first", "reject", "mint", "armed", "replay"}
                                       \cup Settled]
  BY DEF IInv, TypeOK
<1>2. UNCHANGED <<replayable, effects>> => Same
  BY DEF EffectsOf
<1>3. ASSUME NEW k \in {"mint", "replay"}, NEW place, Begins(c, k, place) PROVE Same /\ Others
  <2>0. k \in Phases
    BY DEF Phases
  <2>1. RunStep(<<c, k>>) /\ effects' = effects /\ Others /\ LC!CallTypeOK
    BY <1>3, <2>0, BeginsDoes, Zenon DEF IInv, TypeOK
  <2>2. ASSUME NEW d \in Calls PROVE replayable'[<<d, "first">>] = replayable[<<d, "first">>]
    <3>1. <<d, "first">> \in Runs /\ <<d, "first">> # <<c, k>> /\ <<c, k>> \in Runs
      BY RunsDiffer DEF Phases
    <3> QED
      BY <2>1, <3>1, RunMoves
  <2> QED
    BY <2>1, <2>2 DEF EffectsOf
<1>4. CASE ControlReturns(c)
  <2>1. pc[c] = "control" /\ pc' = [pc EXCEPT ![c] = "ok"] /\ UNCHANGED <<replayable, effects>>
        /\ effects[<<c, "first">>] # {}
    BY <1>4 DEF ControlReturns, LC!Succeed
  <2>2. outcomeOf(c) = "pending" /\ outcomeOf(c)' = "ok" /\ Others /\ EffectsOf(c) # {}
    BY <1>1, <2>1, NoEffects DEF outcomeOf, Settled
  <2> QED
    BY <1>2, <2>1, <2>2, RefinePending
<1>5. CASE ControlFails(c) \/ MintFails(c)
  <2>1. pc[c] \in {"control", "mint"} /\ pc' = [pc EXCEPT ![c] = "failed"]
        /\ UNCHANGED <<replayable, effects>>
    BY <1>5 DEF ControlFails, MintFails, LC!GiveUp
  <2>2. outcomeOf(c) = "pending" /\ outcomeOf(c)' = "failed" /\ Others
    BY <1>1, <2>1 DEF outcomeOf, Settled
  <2> QED
    BY <1>2, <2>1, <2>2, RefinePending
<1>6. CASE Reread(c)
  <2>1. UNCHANGED <<pc, runs>>
    BY <1>6 DEF Reread
  <2> QED
    BY <2>1 DEF Call!callVars, outcomeOf, runs
<1>7. CASE DataReturns(c)
  <2>1. PICK k \in {"first", "replay"} : k = pc[c]
    BY <1>7 DEF DataReturns
  <2>2. pc' = [pc EXCEPT ![c] = "ok"] /\ UNCHANGED <<replayable, effects>>
        /\ effects[<<c, k>>] # {}
    BY <1>7, <2>1 DEF DataReturns, LC!Succeed
  <2>3. outcomeOf(c) = "pending" /\ outcomeOf(c)' = "ok" /\ Others /\ EffectsOf(c) # {}
    BY <1>1, <2>1, <2>2, NoEffects DEF outcomeOf, Settled
  <2> QED
    BY <1>2, <2>2, <2>3, RefinePending
<1>8. CASE DataFails(c)
  <2>1. pc[c] \in {"first", "replay"} /\ pc' = [pc EXCEPT ![c] = "failed"]
        /\ UNCHANGED <<replayable, effects>>
    BY <1>8 DEF DataFails, LC!GiveUp
  <2>2. outcomeOf(c) = "pending" /\ outcomeOf(c)' = "failed" /\ Others
    BY <1>1, <2>1 DEF outcomeOf, Settled
  <2> QED
    BY <1>2, <2>1, <2>2, RefinePending
<1>9. CASE DataDenied(c)
  <2>1. pc[c] = "first" /\ pc' = [pc EXCEPT ![c] = "reject"] /\ UNCHANGED <<replayable, effects>>
    BY <1>9 DEF DataDenied, Recoverable, LC!Deny
  <2>2. outcomeOf(c) = "pending" /\ outcomeOf(c)' = "pending" /\ Others
    BY <1>1, <2>1 DEF outcomeOf, Settled
  <2> QED
    BY <1>2, <2>1, <2>2, RefinePending
<1>10. CASE Remint(c) \/ Replay(c)
  <2>1. PICK k \in {"mint", "replay"} : Begins(c, k, k) /\ pc[c] \in {"reject", "armed"}
    BY <1>10 DEF Remint, Replay
  <2>2. pc'[c] \in {k, "failed"} /\ Same /\ Others
    <3>1. k \in Phases
      BY DEF Phases
    <3>2. pc'[c] \in {k, "failed"}
      BY <2>1, <3>1, BeginsDoes, Zenon
    <3> QED
      BY <1>3, <2>1, <3>2
  <2>3. outcomeOf(c) = "pending" /\ outcomeOf(c)' \in {"pending", "failed"}
    BY <1>1, <2>1, <2>2 DEF outcomeOf, Settled
  <2> QED
    BY <2>2, <2>3, RefinePending
<1>11. CASE MintReturns(c)
  <2>1. pc[c] = "mint" /\ pc' = [pc EXCEPT ![c] = "armed"] /\ UNCHANGED <<replayable, effects>>
    BY <1>11 DEF MintReturns, LC!Succeed
  <2>2. outcomeOf(c) = "pending" /\ outcomeOf(c)' = "pending" /\ Others
    BY <1>1, <2>1 DEF outcomeOf, Settled
  <2> QED
    BY <1>2, <2>1, <2>2, RefinePending
<1>12. CASE ReplayDenied(c)
  <2>1. pc[c] = "replay" /\ pc' = [pc EXCEPT ![c] = "denied"] /\ UNCHANGED <<replayable, effects>>
        /\ (replayable[<<c, "replay">>] \/ effects[<<c, "replay">>] = {})
        /\ outcome[<<c, "replay">>] = "pending"
    BY <1>12 DEF ReplayDenied, LC!Deny
  <2>2. outcomeOf(c) = "pending" /\ outcomeOf(c)' = "denied" /\ Others
    BY <1>1, <2>1 DEF outcomeOf, Settled
  <2>3. outcome[<<c, "first">>] = "denied"
    BY <1>1, <2>1 DEF CallInv, RunsInv
  <2>4. replayable[<<c, "first">>] \/ EffectsOf(c) = {}
    BY <1>1, <2>1, <2>3, NoEffects DEF CallInv, RetryInv
  <2> QED
    BY <1>2, <2>1, <2>2, <2>4, RefinePending
<1> QED
  BY <1>4, <1>5, <1>6, <1>7, <1>8, <1>9, <1>10, <1>11, <1>12 DEF Proceeds

\* A try is performed when the abstract call may be: the replay of a command
\* that may not be repeated only if its first try had no effect.
LEMMA RefineServing ==
  ASSUME IInv, NEW c \in Calls, Serving(c)
  PROVE  Call!CallNext \/ UNCHANGED Call!callVars
<1>1. PICK k \in Phases : ControlServes(c, k) \/ AgentServes(c, k) \/ AgentRejects(c, k)
  BY DEF Serving
<1>2. CallInv(c) /\ pc' = pc /\ \A d \in Calls : outcomeOf(d)' = outcomeOf(d)
  BY <1>1 DEF ControlServes, AgentServes, AgentRejects, calls, outcomeOf, IInv
<1>3. CASE AgentRejects(c, k)
  BY <1>2, <1>3 DEF AgentRejects, Call!callVars, runs
<1>4. CASE ControlServes(c, k) \/ AgentServes(c, k)
  <2>1. /\ LC!Perform(<<c, k>>) /\ outcome[<<c, k>>] # "none" /\ UNCHANGED <<outcome, replayable>>
        /\ replayable[<<c, k>>] \/ (effects[<<c, k>>] = {} /\ outcome[<<c, k>>] # "denied")
    BY <1>4 DEF ControlServes, AgentServes, LC!Perform
  <2>2. PICK n \in RunAttempts : effects' = [effects EXCEPT ![<<c, k>>] = @ \cup {n}]
    BY <2>1 DEF LC!Perform
  <2>3. CASE k = "mint"
    <3>1. ASSUME NEW d \in Calls PROVE EffectsOf(d)' = EffectsOf(d)
      <4>1. ASSUME NEW l \in {"first", "replay"} PROVE effects'[<<d, l>>] = effects[<<d, l>>]
        <5>1. <<d, l>> # <<c, k>> /\ <<d, l>> \in Runs
          BY <2>3, RunsDiffer DEF Phases
        <5> QED
          BY <2>2, <5>1 DEF IInv, TypeOK, LC!CallTypeOK
      <4> QED
        BY <4>1 DEF EffectsOf
    <3> QED
      BY <1>2, <2>1, <3>1 DEF Call!callVars, EffectsOf
  <2>4. CASE k # "mint"
    <3>1. k \in {"first", "replay"}
      BY <2>4 DEF Phases
    <3>2. /\ EffectsOf(c)' = EffectsOf(c) \cup {<<k, n>>}
          /\ \A d \in Calls : d # c => EffectsOf(d)' = EffectsOf(d)
      BY <2>2, <3>1, EffectsGrow
    <3>3. outcomeOf(c) # "none"
      BY <1>2, <2>1, <3>1 DEF CallInv, RunsInv, outcomeOf, Settled
    <3>4. replayable[<<c, "first">>] \/ (EffectsOf(c) = {} /\ outcomeOf(c) # "denied")
      <4>1. CASE k = "first"
        <5>1. ASSUME effects[<<c, "first">>] = {}, outcome[<<c, "first">>] # "denied"
              PROVE  EffectsOf(c) = {} /\ pc[c] # "denied"
          BY <1>2, <5>1, NoEffects DEF CallInv, RunsInv, Phases
        <5> QED
          BY <2>1, <4>1, <5>1 DEF outcomeOf, Settled
      <4>2. CASE k = "replay"
        <5>1. outcome[<<c, "first">>] = "denied"
              /\ (replayable[<<c, "first">>] <=> replayable[<<c, "replay">>])
          BY <1>2, <2>1, <4>2 DEF CallInv, RunsInv, RetryInv
        <5>2. ASSUME ~replayable[<<c, "first">>] PROVE EffectsOf(c) = {} /\ pc[c] # "denied"
          BY <1>2, <2>1, <4>2, <5>1, <5>2, NoEffects DEF CallInv, RunsInv, RetryInv
        <5> QED
          BY <5>2 DEF outcomeOf, Settled
      <4> QED
        BY <3>1, <4>1, <4>2
    <3>5. Call!Perform(c)
      <4>1. <<k, n>> \in Phases \X RunAttempts
        OBVIOUS
      <4>2. [d \in Calls |-> EffectsOf(d)'] =
              [[d \in Calls |-> EffectsOf(d)] EXCEPT ![c] = @ \cup {<<k, n>>}]
        BY <3>2
      <4> QED
        BY <1>2, <2>1, <3>3, <3>4, <4>1, <4>2 DEF Call!Perform, EffectsOf
    <3> QED
      BY <3>5 DEF Call!CallNext
  <2> QED
    BY <2>3, <2>4
<1> QED
  BY <1>1, <1>3, <1>4

\* Every call made through the handle, with its recovery, implements one
\* abstract call: the mint and the replay add no effect a single run could
\* not have, and report nothing a single run could not report.
THEOREM RecoveryRefines == Spec => RecoveryImplementsCall
<1>1. Init => Call!CallInit
  <2> SUFFICES ASSUME Init PROVE Call!CallInit
    OBVIOUS
  <2>1. ASSUME NEW c \in Calls
        PROVE  outcomeOf(c) = "none" /\ ~replayable[<<c, "first">>] /\ EffectsOf(c) = {}
    <3>1. \A k \in Phases : <<c, k>> \in Runs
      BY RunsDiffer
    <3>2. \A k \in Phases : ~replayable[<<c, k>>] /\ effects[<<c, k>>] = {}
      BY <3>1 DEF Init, LC!CallInit
    <3>3. EffectsOf(c) = {}
      BY <3>2 DEF EffectsOf, Phases
    <3>4. outcomeOf(c) = "none"
      <4>1. pc[c] = "idle"
        BY DEF Init
      <4> QED
        BY <4>1 DEF outcomeOf, Settled
    <3> QED
      BY <3>2, <3>3, <3>4 DEF Phases
  <2>2. \A c \in Calls : replayable[<<c, "first">>] = FALSE
    BY RunsDiffer DEF Init, LC!CallInit, Phases
  <2> QED
    BY <2>1, <2>2 DEF Call!CallInit, EffectsOf
<1>2. IInv /\ [Next]_vars => [Call!CallNext]_Call!callVars
  <2> SUFFICES ASSUME IInv, [Next]_vars PROVE Call!CallNext \/ UNCHANGED Call!callVars
    OBVIOUS
  <2>1. CASE UNCHANGED <<pc, runs>>
    BY <2>1 DEF Call!callVars, outcomeOf, runs
  <2>2. CASE Elsewhere \/ UNCHANGED vars
    BY <2>1, <2>2 DEF Elsewhere, vars, calls
  <2> QED
    BY <2>2, RefineStarts, RefineProceeds, RefineServing DEF Next
<1> QED
  BY <1>1, <1>2, HandleInvariant, PTL DEF Spec, RecoveryImplementsCall, Call!CallSpec

\* What a call that may not be repeated has done it has done once, counting
\* its first try and its replay together.
PerformedOnce ==
  \A c \in Calls : ~replayable[<<c, "first">>] => \A x, y \in EffectsOf(c) : x = y

\* A command (run, start, attach, ...) that the SDK's pipeline may not repeat
\* is performed at most once although it is rejected, a token is minted and
\* it is made again: a consequence of the refinement, since the abstract call
\* performs such a call once and performs nothing before it begins.
THEOREM CommandsRunOnce == Spec => []PerformedOnce
<1> DEFINE Once == /\ PerformedOnce
                   /\ \A c \in Calls : outcomeOf(c) = "none" => EffectsOf(c) = {}
<1>1. Call!CallInit => Once
  <2> SUFFICES ASSUME Call!CallInit PROVE \A c \in Calls : EffectsOf(c) = {}
    BY DEF PerformedOnce
  <2> QED
    BY DEF Call!CallInit, EffectsOf
<1>2. Once /\ [Call!CallNext]_Call!callVars => Once'
  <2> SUFFICES ASSUME Once, [Call!CallNext]_Call!callVars PROVE Once'
    OBVIOUS
  <2> DEFINE o == [c \in Calls |-> outcomeOf(c)]
             p == [c \in Calls |-> replayable[<<c, "first">>]]
             e == [c \in Calls |-> EffectsOf(c)]
  <2>1. \A c \in Calls : /\ o[c] = "none" => e[c] = {}
                         /\ ~p[c] => \A x, y \in e[c] : x = y
    BY DEF PerformedOnce
  <2>2. \A c \in Calls : /\ o'[c] = "none" => e'[c] = {}
                         /\ ~p'[c] => \A x, y \in e'[c] : x = y
    <3>1. \/ UNCHANGED <<o, p, e>>
          \/ \E c \in Calls :
               \/ o[c] = "none" /\ (\E w \in {"pending", "failed"} : o' = [o EXCEPT ![c] = w])
                    /\ (\E b \in BOOLEAN : p' = [p EXCEPT ![c] = b]) /\ e' = e
               \/ /\ o[c] # "none" /\ (p[c] \/ e[c] = {}) /\ UNCHANGED <<o, p>>
                  /\ \E n \in Phases \X RunAttempts : e' = [e EXCEPT ![c] = @ \cup {n}]
               \/ /\ \E w \in {"ok", "failed", "denied"} : o' = [o EXCEPT ![c] = w]
                  /\ UNCHANGED <<p, e>>
      BY DEF Call!CallNext, Call!callVars, Call!Begin, Call!Perform, Call!Succeed, Call!GiveUp,
             Call!Deny, EffectsOf
    <3>2. DOMAIN o = Calls /\ DOMAIN p = Calls /\ DOMAIN e = Calls
      OBVIOUS
    <3> HIDE DEF o, p, e
    <3> QED
      BY <2>1, <3>1, <3>2
  <2> QED
    BY <2>2 DEF PerformedOnce
<1> QED
  BY <1>1, <1>2, RecoveryRefines, PTL DEF RecoveryImplementsCall, Call!CallSpec
=============================================================================
