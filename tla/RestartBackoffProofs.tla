------------------------ MODULE RestartBackoffProofs ------------------------
(***************************************************************************)
(* The backoff is the capped exponential for every choice of minimum, cap  *)
(* and stability interval.                                                 *)
(***************************************************************************)
EXTENDS RestartBackoff, TLAPS

\* The constructor starts at the minimum, below the cap it has raised.
LEMMA InitBackoff == Init => BackoffInv
  BY DurationsAssumption DEF Init, BackoffInv, TypeOK, Cap, Upper, Unstarted

\* Whatever child_exited returns lies between the minimum and the cap.
LEMMA DelayInRange ==
  ASSUME BackoffInv
  PROVE  Delay \in Nat /\ Delay >= Min /\ Delay <= Cap /\ Cap \in Nat /\ Cap <= MaxDuration
  BY DurationsAssumption DEF BackoffInv, TypeOK, Delay, Cap, Upper

\* Capping before a doubling loses nothing that capping after it would keep.
LEMMA DoublingCommutes ==
  ASSUME NEW u \in Nat, NEW k \in Nat
  PROVE  Lower(Lower(u, k) + Lower(u, k), k) = Lower(u + u, k)
  BY DEF Lower

\* child_exited keeps the invariant: doubling commutes with the cap.
LEMMA ExitPreserves ==
  ASSUME BackoffInv, child_exited
  PROVE  BackoffInv'
<1>1. /\ Delay \in Nat /\ Delay >= Min /\ Delay <= Cap /\ Cap \in Nat /\ Cap <= MaxDuration
      /\ Min \in Nat \ {0} /\ MaxDuration \in Nat /\ Min <= Cap
  BY DelayInRange, DurationsAssumption DEF Cap, Upper
<1>2. Doubled(Delay) = Lower(Delay + Delay, Cap)
  BY <1>1 DEF Doubled, Lower
<1>3. uncapped' \in Nat /\ uncapped' >= Min /\ Delay = Lower(uncapped', Cap)
  <2>1. CASE WasStable
    BY <1>1, <2>1 DEF child_exited, Delay, Lower
  <2>2. CASE ~WasStable /\ uncapped = 0
    BY <1>1, <2>2 DEF child_exited, Delay, Lower, BackoffInv
  <2>3. CASE ~WasStable /\ uncapped # 0
    BY <1>1, <2>3 DEF child_exited, Delay, BackoffInv, TypeOK
  <2> QED
    BY <2>1, <2>2, <2>3
<1>4. Lower(Delay + Delay, Cap) = Lower(uncapped' + uncapped', Cap)
  BY <1>1, <1>3, DoublingCommutes
<1>5. TypeOK'
  BY <1>1, <1>2, <1>3 DEF child_exited, BackoffInv, TypeOK, Lower
<1>6. delay' >= Min /\ delay' <= Cap
  BY <1>1, <1>2 DEF child_exited, Lower
<1>7. uncapped' # 0
  BY <1>1, <1>3
<1>8. restartAt' <= clock' + Cap
  BY <1>1 DEF child_exited, BackoffInv, TypeOK
<1> QED
  BY <1>1, <1>2, <1>3, <1>4, <1>5, <1>6, <1>7, <1>8 DEF child_exited, BackoffInv

\* The other steps leave the delays alone.
LEMMA OthersPreserve ==
  ASSUME BackoffInv, Tick \/ record_start \/ UNCHANGED vars
  PROVE  BackoffInv'
<1>1. Cap \in Nat
  BY DurationsAssumption DEF Cap, Upper
<1> QED
  BY <1>1 DEF BackoffInv, TypeOK, Tick, record_start, vars

\* The inductive invariant holds in every state of the supervisor.
THEOREM BackoffInvariant == Spec => []BackoffInv
<1>1. BackoffInv /\ [Next]_vars => BackoffInv'
  BY ExitPreserves, OthersPreserve DEF Next
<1> QED
  BY InitBackoff, <1>1, PTL DEF Spec

\* child_exited returns the minimum doubled once for every exit since the
\* last stable run, cut off at the cap, for every minimum, cap and stability
\* interval, saturation included.
THEOREM DelayIsCappedExponential == Spec => []CappedExponential
<1>1. BackoffInv => CappedExponential
  BY DEF BackoffInv, CappedExponential
<1> QED
  BY <1>1, BackoffInvariant, PTL

\* A restart never comes at once, and never later than the cap: the guest is
\* neither spun nor left without its agent.
THEOREM RestartIsPaced == Spec => []RestartPaced
<1>1. BackoffInv => RestartPaced
  <2> SUFFICES ASSUME BackoffInv, child = "down", uncapped # 0
               PROVE  restartAt - clock <= Cap /\ waited >= Min
    BY DEF RestartPaced
  <2>1. Cap \in Nat /\ Min \in Nat /\ Min <= Cap
    BY DurationsAssumption DEF Cap, Upper
  <2> QED
    BY <2>1 DEF BackoffInv, TypeOK, Lower
<1> QED
  BY <1>1, BackoffInvariant, PTL
=============================================================================
