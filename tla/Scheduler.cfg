SPECIFICATION FairSpec
CONSTANTS
  main = main
  idle = idle
  init = init
  a = a
  b = b
  Slice = 1
  Thread <- MCThread
  Priority <- MCPriority
INVARIANTS
  TypeOK
  ReadyListExact
  OneRunning
  NoPanic
PROPERTY
  ReadyRuns
