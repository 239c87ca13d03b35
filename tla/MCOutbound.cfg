\* One dialer: the goroutines share only the immutable policy.
CONSTANTS
  a4 = a4
  b4 = b4
  c6 = c6
  Addr = {a4, b4, c6}
  Addr4 = {a4, b4}
  Label = {"example", "org", "api", "other"}
  Host <- MCHost
  Port = {80, 443}
  Zone = {"eth0", "."}
  ValidZone = {"eth0"}
  NoZone = ""
  NoAddr = NoAddr
  AnyPort = AnyPort
  Dialer = {"d"}
  Policies <- MCPolicies
  Answers <- MCAnswers
SPECIFICATION FairSpec
INVARIANTS
  PolicyIsKept
  DialledAddressWasAnswered
  EveryAllowedAnswerTried
  DialInvariant
PROPERTIES
  ImplementsEgress
