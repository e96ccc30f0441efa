SPECIFICATION EitherSpec
CONSTANTS
  main = main
  idle = idle
  kt = kt
  usr = usr
  NULL = NULL
  MaxDepth = 2
  Kernel <- MCKernel
  User <- MCUser
  Thread <- MCThread
  Priority <- MCPriority
  Name = {foo, bar}
  foo = foo
  bar = bar
  Installed <- MCInstalled
  MaxPath = 2
  EntryCount = 3
  Direct = 2
  TableSize = 1
  NBlock = 6
  NInode = 7
  MaxLeak = 1
  MaxDir = 1
  MaxStop = 1
  MaxLate = 1
VIEW EitherView
INVARIANTS
  MutualExclusion
  NoPanic
  NoLostWakeup
  LayoutExact
  LooksUp
  NoStopWithinLimits
  DamageConfined
PROPERTIES
  Implements
  FreeLockIsTaken
  ImplementsTree
