\* A header one byte shorter than the limit, of its length, and one longer; two
\* bytes of the tunnel behind it.
CONSTANTS
  MaxHeader = 3
  Tunnel = 2
SPECIFICATION FairRouterSpec
INVARIANT ReturnsCleanTunnel
PROPERTY DialEnds
\* Dial returns.
CHECK_DEADLOCK FALSE
