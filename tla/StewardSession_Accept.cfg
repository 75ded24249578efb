\* accept on one connection, for every first frame and every epoch held.
SPECIFICATION FairSpec
CONSTANTS
  c1 = c1
  Connections = {c1}
  Epochs = {1, 2, 3}
  Currents = {0, 1, 2, 3}
  MAX_HELLO_SIZE = 2
  LocalLimits <- AgentLimits
  PeerLimits <- HostLimits
INVARIANTS
  MemoryBounded
  BothSidesAgree
PROPERTIES
  SeveredEnds
\* A connection that was answered does nothing more.
CHECK_DEADLOCK FALSE
