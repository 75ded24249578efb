\* The documented attenuation of a Rust handle's token under concurrent calls.
SPECIFICATION Spec
CONSTANTS
  c1 = c1
  c2 = c2
  Calls = {c1, c2}
  Methods = {"run", "mintNarrow"}
  RunAttempts = {1}
  MaxEpoch = 2
  MaxTokens = 3
  Handles <- RustOnly
PROPERTIES
  RemintNeverWidens
\* Settled calls do nothing more.
CHECK_DEADLOCK FALSE
