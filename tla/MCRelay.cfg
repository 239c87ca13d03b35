CONSTANT MaxChunks = 2
SPECIFICATION FairSpec
INVARIANTS
  
  EndOfStreamClosesNothing
  FailureIsReported
PROPERTIES
  StoppedRelayEnds
\* The relay returns.
CHECK_DEADLOCK FALSE
