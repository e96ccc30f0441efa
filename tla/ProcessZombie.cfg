SPECIFICATION InitSpec
CONSTANTS
  init = init
  idle = idle
  shell = shell
  p1 = p1
  p2 = p2
  MaxPid = 4
  MaxLeak = 0
  Thread <- MCThread
  Priority <- MCPriority
PROPERTY
  InitReapsZombies
