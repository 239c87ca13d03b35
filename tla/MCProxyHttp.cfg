\* Two connections: one can be in any stage while the other one is closed.
CONSTANT Conn = {"c1", "c2"}
SPECIFICATION FairUpstreamsSpec
INVARIANTS
  UpstreamHasOwner
  ClosingLeavesNoTunnelOpen
  
PROPERTIES
  ImplementsService
  
\* The server returns.
CHECK_DEADLOCK FALSE
