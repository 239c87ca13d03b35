CONSTANTS
  a4 = a4
  b4 = b4
  c6 = c6
  Addr = {a4, b4, c6}
  Addr4 = {a4, b4}
  Label = {"example", "org", "other", "www"}
  Host <- MCHost
  Port = {80, 443}
  Zone = {"eth0"}
  ValidZone = {"eth0"}
  NoZone = ""
  NoAddr = NoAddr
  AnyPort = AnyPort
  Configs <- MCConfigs
  Answers <- MCAnswers
SPECIFICATION Spec
INVARIANTS
  OneSnapshotPerHostname
  NoRuleSilentlyUnresolved
  PolicyIsAsWritten
\* New returns.
CHECK_DEADLOCK FALSE
