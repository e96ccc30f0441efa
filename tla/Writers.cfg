SPECIFICATION Spec
CONSTANTS
  Proc = {p1, p2}
  Name = {foo, bar}
  p1 = p1
  p2 = p2
  foo = foo
  bar = bar
  NSlot = 3
  NFd = 2
  NInode = 2
SYMMETRY Symmetry
VIEW TableView
INVARIANT WriterAlone
CHECK_DEADLOCK FALSE
