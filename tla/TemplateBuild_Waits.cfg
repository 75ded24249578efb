\* Two concurrent calls on a build handle of each SDK.
SPECIFICATION Spec
CONSTANTS
  c1 = c1
  c2 = c2
  Calls = {c1, c2}
  Poll = 2
  Latency = 1
  Timeouts <- MCTimeouts
  Horizon = 7
  Handles <- Profiles
SYMMETRY CallSymmetry
INVARIANTS
  WaitTruthful
  TimedOutUnfinished
  OverrunBounded
  FinishNoticed
  AbortNoticed
\* The clock stops at its horizon.
CHECK_DEADLOCK FALSE
