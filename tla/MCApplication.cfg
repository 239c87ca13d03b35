\* One connection keeps a proxy busy; a command that succeeds, and one whose
\* exit codes are those of airjail itself.
CONSTANTS
  Conn = {"c"}
  Code = {0, 125, 137}
  CommandCode = {0, 125}
  Signaled = 137
SPECIFICATION FairSessionSpec
INVARIANTS
  OutcomeIsTrue
  SessionOutlivesItsUsers
  NothingOutlivesRun
  ExitStatusIsTrue
  SupervisorOutcomeIsTrue
  NothingOutlivesSupervisor
PROPERTIES
  FirstEndEndsRun
  FirstEndEndsSession
\* The session ends.
CHECK_DEADLOCK FALSE
