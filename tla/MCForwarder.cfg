\* Three connections: one can be dialling, one relaying and one closing.
CONSTANT Conn = {"c1", "c2", "c3"}
SPECIFICATION FairSpec
INVARIANTS
  NothingOutlivesServe
PROPERTIES
  ServeReturnsAfterCancel
  ImplementsService
\* The forwarder returns.
CHECK_DEADLOCK FALSE
