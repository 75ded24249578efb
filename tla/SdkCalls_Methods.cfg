\* Every method of the SDK, one call of it.
SPECIFICATION FairSpec
CONSTANTS
  Callable <- AllMethods
  MaxRetries = 1
  MaxTokens = 2
  MaxIds = 3
  PageSize = 1
INVARIANTS
  RefusedMeansUndone
  AddsUpOnce
  DeniedOnlyWithFreshToken
  IterationComplete
  AttemptsBounded
PROPERTIES
  CallSettles
\* A call that has settled does nothing more.
CHECK_DEADLOCK FALSE
