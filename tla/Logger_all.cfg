\* Two threads that log, lookups that run into insertions, quit at any moment.
SPECIFICATION FairSpec
CONSTANTS
  N = 2
  MaxLogs <- MCLogs
INVARIANTS EachOnce TailAlive AtMostOneLate
PROPERTIES AllButLastWritten QuitReturns
CHECK_DEADLOCK FALSE
