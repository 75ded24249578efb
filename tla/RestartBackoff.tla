--------------------------- MODULE RestartBackoff ---------------------------
(***************************************************************************)
(* The restart backoff of vm-init's supervised child: the delay before the *)
(* next start doubles from one exit to the next up to a cap, and falls     *)
(* back to the minimum after a run that was stable.  Everything is         *)
(* measured on the monotonic clock, which stands still while the sandbox   *)
(* is paused.  The supervision loop is not in the repository yet; the      *)
(* order of calls is the one its documentation and its tests use.          *)
(***************************************************************************)
EXTENDS Naturals

CONSTANTS
  Min, Max, Stable,             \* the arguments of Backoff::new
  MaxDuration,                  \* Duration::MAX, where saturating_mul stops
  Horizon                       \* bound: the clock stops here

ASSUME DurationsAssumption ==
  /\ Min \in Nat \ {0} /\ Max \in Nat /\ Stable \in Nat
  /\ MaxDuration \in Nat /\ Min <= MaxDuration /\ Max <= MaxDuration
  /\ Horizon \in Nat

Lower(a, b) == IF a <= b THEN a ELSE b
Upper(a, b) == IF a >= b THEN a ELSE b

\* new: a cap below the minimum is raised to it.
Cap == Upper(Max, Min)

\* Instants count from 1; 0 stands for a child that was never started.
Unstarted == 0

VARIABLES
  clock,                        \* the monotonic clock
  child,                        \* "up" or "down"
  delay, last_start,            \* Backoff's fields
  waited,                       \* the last delay child_exited returned
  uncapped,                     \* what it would have been without a cap
  restartAt                     \* when the supervisor starts the child again

vars == <<clock, child, delay, last_start, waited, uncapped, restartAt>>

TypeOK ==
  /\ clock \in Nat /\ child \in {"up", "down"}
  /\ delay \in Nat /\ last_start \in Nat
  /\ waited \in Nat /\ uncapped \in Nat /\ restartAt \in Nat

Init ==
  /\ clock = 1 /\ child = "down"
  /\ delay = Min /\ last_start = Unstarted
  /\ waited = 0 /\ uncapped = 0 /\ restartAt = 0

\* Time passes on the monotonic clock, not over a restart that is due.
Tick ==
  /\ clock < Horizon
  /\ child = "up" \/ clock < restartAt
  /\ clock' = clock + 1
  /\ UNCHANGED <<child, delay, last_start, waited, uncapped, restartAt>>

record_start ==
  /\ child = "down" /\ clock >= restartAt
  /\ child' = "up"
  /\ last_start' = clock
  /\ UNCHANGED <<clock, delay, waited, uncapped, restartAt>>

WasStable == last_start # Unstarted /\ clock - last_start >= Stable

\* Mutant of Doubled: the doubling is not capped.
DoubledFreely(d) == d + d

\* saturating_mul(2), then the cap.
Doubled(d) == Lower(Lower(d + d, MaxDuration), Cap)

\* Mutant of Delay: a stable run does not reset the delay.
DelayKept == delay

Delay == IF WasStable THEN Min ELSE delay

child_exited ==
  /\ child = "up"
  /\ child' = "down"
  /\ waited' = Delay
  /\ delay' = Doubled(Delay)
  /\ uncapped' = IF WasStable \/ uncapped = 0 THEN Min ELSE uncapped + uncapped
  /\ restartAt' = clock + Delay
  /\ UNCHANGED <<clock, last_start>>

Next == Tick \/ record_start \/ child_exited

Spec == Init /\ [][Next]_vars

-----------------------------------------------------------------------------
(* Properties *)

\* After any history of quick and stable runs the delay is the exponential
\* one, counted from the last stable run, cut off at the cap: capping every
\* step, and saturating, loses nothing but what is above the cap.
CappedExponential ==
  uncapped # 0 => waited = Lower(uncapped, Cap)

\* The child is never restarted without a pause, nor kept down longer than
\* the cap.
RestartPaced ==
  child = "down" /\ uncapped # 0 => restartAt - clock <= Cap /\ waited >= Min

\* The inductive invariant: the delay to come is the double of the last one,
\* and the time to wait is what is left of it.
BackoffInv ==
  /\ TypeOK
  /\ delay >= Min /\ delay <= Cap
  /\ uncapped = 0 => delay = Min
  /\ uncapped # 0 =>
       /\ uncapped >= Min
       /\ waited = Lower(uncapped, Cap)
       /\ delay = Lower(uncapped + uncapped, Cap)
       /\ child = "down" => restartAt <= clock + Cap
=============================================================================
