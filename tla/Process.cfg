SPECIFICATION FairSpec
CONSTANTS
  init = init
  idle = idle
  shell = shell
  p1 = p1
  p2 = p2
  MaxPid = 4
  MaxLeak = 1
  Thread <- MCThread
  Priority <- MCPriority
INVARIANTS
  PidsUnique
  ParentIsFamily
  WaiterIsWoken
PROPERTIES
  WaitReturns
CHECK_DEADLOCK FALSE
