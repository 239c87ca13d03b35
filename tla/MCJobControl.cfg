CONSTANTS
  Terminal = TRUE
  Loads <- MCLoads
SPECIFICATION FairSpec
INVARIANTS
  ExitStatusIsTheCommands
  NothingLeftBehind
PROPERTIES
  TerminalNotTaken
  StoppedCommandContinues
  CancelEndsRun
\* airjail returns.
CHECK_DEADLOCK FALSE
