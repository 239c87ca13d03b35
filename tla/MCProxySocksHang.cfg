\* One connection, and a target that may stay silent.
CONSTANT Conn = {"c1"}
SPECIFICATION FairSpec
PROPERTIES
  ServeReturnsAfterCancel
CHECK_DEADLOCK FALSE
