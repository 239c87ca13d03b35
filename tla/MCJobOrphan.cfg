CONSTANTS
  Terminal = TRUE
  Loads <- MCDetaching
SPECIFICATION Spec
INVARIANTS
  NothingLeftToInit
\* airjail returns.
CHECK_DEADLOCK FALSE
