\* Two connections: one can be accepted while the other one is closed.
CONSTANT Conn = {"c1", "c2"}
SPECIFICATION FairTargetsSpec
INVARIANTS
  ClosingLeavesNoneOpen
  DeadlineIsTheHandshakes
PROPERTIES
  ImplementsService
  ServeReturnsAfterCancel
\* The server returns.
CHECK_DEADLOCK FALSE
