\* A stream with listeners that may throw or close it.
SPECIFICATION FairSpec
CONSTANTS
  MaxFrames = 3
  MaxNexts = 4
  MaxSends = 2
  Listeners = {"return", "throw", "close"}
  PreAborted = {TRUE, FALSE}
INVARIANTS
  FailureIsReported
  SentInOrder
PROPERTIES
  ImplementsEventQueue
  HandshakeEnds
\* A closed stream does nothing more.
CHECK_DEADLOCK FALSE
