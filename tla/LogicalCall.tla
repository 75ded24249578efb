---------------------------- MODULE LogicalCall ----------------------------
(***************************************************************************)
(* What the three SDKs promise about one logical API call, whatever the    *)
(* transport does: the call settles at most once, it reports success only  *)
(* if the platform performed it, and a call whose outcome the caller       *)
(* cannot deduplicate is performed at most once - possibly even after the  *)
(* caller has been told that it failed.                                    *)
(***************************************************************************)
CONSTANTS
  Runs,                         \* logical calls, one execution each
  Attempts                      \* names of the attempts a call may be made of

VARIABLES
  outcome,                      \* what the caller has been told
  replayable,                   \* whether the caller can deduplicate effects
  effects                       \* the attempts the platform has performed

callVars == <<outcome, replayable, effects>>

\* "denied" is a failure the caller may act on: the credential was rejected.
Outcomes == {"none", "pending", "ok", "failed", "denied"}

CallTypeOK ==
  /\ outcome \in [Runs -> Outcomes]
  /\ replayable \in [Runs -> BOOLEAN]
  /\ effects \in [Runs -> SUBSET Attempts]

CallInit ==
  /\ outcome = [r \in Runs |-> "none"]
  /\ replayable = [r \in Runs |-> FALSE]
  /\ effects = [r \in Runs |-> {}]

\* The caller makes the call and says whether it may be replayed; a call whose
\* signal has already fired fails on the spot.
Begin(r) ==
  /\ outcome[r] = "none"
  /\ \E o \in {"pending", "failed"} : outcome' = [outcome EXCEPT ![r] = o]
  /\ \E b \in BOOLEAN : replayable' = [replayable EXCEPT ![r] = b]
  /\ UNCHANGED effects

\* The platform performs one attempt; only a replayable call is performed
\* again.  This may come after the call has failed: a request that failed in
\* transit may still have been applied.  Not after it was denied: then the
\* only attempt was answered, so the caller may make the call again.
Perform(r) ==
  /\ outcome[r] # "none"
  /\ replayable[r] \/ (effects[r] = {} /\ outcome[r] # "denied")
  /\ \E n \in Attempts : effects' = [effects EXCEPT ![r] = @ \cup {n}]
  /\ UNCHANGED <<outcome, replayable>>

Succeed(r) ==
  /\ outcome[r] = "pending"
  /\ effects[r] # {}
  /\ outcome' = [outcome EXCEPT ![r] = "ok"]
  /\ UNCHANGED <<replayable, effects>>

GiveUp(r) ==
  /\ outcome[r] = "pending"
  /\ outcome' = [outcome EXCEPT ![r] = "failed"]
  /\ UNCHANGED <<replayable, effects>>

Deny(r) ==
  /\ outcome[r] = "pending"
  /\ replayable[r] \/ effects[r] = {}
  /\ outcome' = [outcome EXCEPT ![r] = "denied"]
  /\ UNCHANGED <<replayable, effects>>

CallNext == \E r \in Runs : Begin(r) \/ Perform(r) \/ Succeed(r) \/ GiveUp(r) \/ Deny(r)

CallSpec == CallInit /\ [][CallNext]_callVars
=============================================================================
