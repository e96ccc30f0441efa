SPECIFICATION FairSpec
CONSTANTS
  main = main
  idle = idle
  u1 = u1
  NULL = NULL
  MaxSec = 2
  MaxChunk = 2
  TimeLimit = 3
  Slow = TRUE
  Order <- MCOrder
  User <- MCUser
  Thread <- MCThread
  Priority <- MCPriority
INVARIANTS
  StopsOnlyLate
  DoneOnce
  
PROPERTY
  CallReturns
CHECK_DEADLOCK FALSE
