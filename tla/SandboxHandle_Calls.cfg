\* Two concurrent calls through a handle of each SDK.
SPECIFICATION Spec
CONSTANTS
  c1 = c1
  c2 = c2
  Calls = {c1, c2}
  Methods = {"run", "get", "attach", "refresh", "pause", "resume", "extend", "mintNarrow", "delete"}
  RunAttempts = {1}
  MaxEpoch = 2
  MaxTokens = 3
  Handles <- Profiles
INVARIANTS
  OwnTokenSuffices
PROPERTIES
  RecoveryImplementsCall
  RepresentationAdvances
SYMMETRY CallSymmetry
\* Settled calls do nothing more.
CHECK_DEADLOCK FALSE
