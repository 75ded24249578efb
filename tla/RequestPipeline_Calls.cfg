\* One call of up to three attempts through each of the SDKs.
SPECIFICATION FairSpec
CONSTANTS
  r1 = r1
  r2 = r2
  Runs = {r1}
  MaxRetries = 2
  Clients <- Profiles
INVARIANTS
  IInv
  AtMostOnce
  ResolvedByOwnAttempt
  BudgetSpent
PROPERTIES
  AbortIsFinal
  ImplementsLogicalCall
  DeadlineBounds
\* A call that has settled does nothing more.
CHECK_DEADLOCK FALSE
