SPECIFICATION Spec
CONSTANTS
  Proc = {p, q}
  First = p
  kernel = kernel
  NULL = NULL
  UserStart = 14
  NFrame = 20
  NPage = 3
  Blocks = 2
  LargeSizes = {2}
  ProgramSizes = {1, 2}
  BtmpLen = 9
  PgSize = 4
  MaxExit = 2
  MaxFail = 0
VIEW HeapView
INVARIANTS
  KernelReclaimed
CHECK_DEADLOCK FALSE
