\* The documented limit of the retries, for the one call that is a signal.
SPECIFICATION Spec
CONSTANTS
  Callable <- Kill
  MaxRetries = 1
  MaxTokens = 1
  MaxIds = 0
  PageSize = 1
INVARIANTS
  NothingReplayedBlindly
\* A call that has settled does nothing more.
CHECK_DEADLOCK FALSE
