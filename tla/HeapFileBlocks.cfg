SPECIFICATION EitherSpec
CONSTANTS
  Proc = {p, q}
  First = p
  kernel = kernel
  NULL = NULL
  UserStart = 14
  NFrame = 20
  NPage = 3
  Blocks = 2
  LargeSizes = {2}
  ProgramSizes = {1, 2}
  BtmpLen = 9
  PgSize = 4
  MaxExit = 2
  MaxFail = 1
  File = {f1, f2}
  f1 = f1
  f2 = f2
  BlockSize = 2
  Direct = 2
  NBlock = 6
  Word = 64
  MaxCount = 3
  MaxGen = 2
  MaxOpen = 1
  MaxStop = 1
SYMMETRY Symmetry
VIEW EitherView
INVARIANTS
  NoPanic
  FramesExact
  FreeListExact
  KernelAccounted
  ReadsBack
  BlocksExact
  NoAssertWithinLimits
CHECK_DEADLOCK FALSE
