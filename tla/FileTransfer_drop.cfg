\* Two files, one of which may be replaced while it is listed and sent; one client
\* that may reconnect or fail to connect; accept, opendir or remove may fail.
SPECIFICATION FairSpec
CONSTANTS
  Files = {f1, f2}
  Clients = {c1}
  MaxConn = 2
  MaxVersion = 2
  MaxReplaced = 1
  MaxVec = 2
  Capacity = 1
  MaxFaults = 1
  Faults <- MCFaults
  NoFd = NoFd
  BadFd = BadFd
  Junk = Junk
INVARIANTS OneSend VectorExclusive StoredMatches
PROPERTIES ScanGoesOn Drained
CHECK_DEADLOCK FALSE
