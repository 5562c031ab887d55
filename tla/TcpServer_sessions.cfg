\* Two connections and a forgotten session on a pool of two; every kind of request.
SPECIFICATION FairSpec
CONSTANTS
  good = good
  long = long
  bad = bad
  MAXTHREADS = 2
  MaxSessions = 3
  MaxAsked <- MCAsked
  NoBuf = NoBuf
  Requests <- MCRequests
  BadLength = {long}
  Throws = {bad}
  Faults <- MCAnyFault
INVARIANTS HandlerOwns BuffersFreed
PROPERTIES Answered ShutsDown InOrder
CHECK_DEADLOCK FALSE
