\* Runs of every length: the cap is reached, left and reached again, and the
\* doubling saturates.
SPECIFICATION Spec
CONSTANTS
  Min = 1
  Max = 5
  Stable = 3
  MaxDuration = 6
  Horizon = 24
INVARIANTS
  CappedExponential
  RestartPaced
\* The clock stops at its horizon.
CHECK_DEADLOCK FALSE
