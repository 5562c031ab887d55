\* Two clients of one account: the GUI thread of c1 may lag behind two polls, that of c2 keeps up.
SPECIFICATION FairSpec
CONSTANTS
  c1 = c1
  c2 = c2
  u1 = u1
  Clients = {c1, c2}
  Lagging = {c1}
  Users = {u1}
  UserOf <- MCSharedAccount
  MaxEdits = 2
  MaxFaults = 1
  MaxSignals = 2
PROPERTIES Converges Forward
CHECK_DEADLOCK FALSE
