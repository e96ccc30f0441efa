SPECIFICATION EitherSpec
CONSTANTS
  Proc = {p1, p2}
  Name = {foo, bar}
  p1 = p1
  p2 = p2
  foo = foo
  bar = bar
  NSlot = 3
  NFd = 2
  NInode = 2
  Key = {"u", "l", "one", "space", "enter", "backspace", "caps_lock", "shift_l", "shift_r", "ctrl_l", "ctrl_r", "up"}
  Room = 1
  Count = 5
  MAX_ARG_NR = 2
SYMMETRY Symmetry
VIEW EitherView
INVARIANTS
  PipeShared
  OpenFileExists
  InodeOnce
  CountsExact
  ModifiersExact
  LineExact
  ArgsExact
