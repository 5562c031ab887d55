\* Three subscribers, two of which share a key; lost, repeated and late commands, expiry and stop.
SPECIFICATION UdpFairSpec
CONSTANTS
  c1 = c1
  c2 = c2
  c3 = c3
  Clients = {c1, c2, c3}
  Key <- MCKeys
  Limit = 1
  MaxTime = 4
  MaxSends = 2
  MaxWrites = 2
INVARIANTS MapExclusive KeepsLive
PROPERTIES SilentDropped StopReturns
CHECK_DEADLOCK FALSE
