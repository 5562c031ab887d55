\* The same three subscribers: a live one leaves the map through a client that shares its key.
SPECIFICATION UdpSpec
CONSTANTS
  c1 = c1
  c2 = c2
  c3 = c3
  Clients = {c1, c2, c3}
  Key <- MCKeys
  Limit = 1
  MaxTime = 4
  MaxSends = 2
  MaxWrites = 2
PROPERTIES LeavesByItself
CHECK_DEADLOCK FALSE
