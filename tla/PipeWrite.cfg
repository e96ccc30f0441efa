SPECIFICATION Spec
CONSTANTS
  idle = idle
  t1 = t1
  t2 = t2
  t3 = t3
  NULL = NULL
  Byte = {x, y}
  bufsize = 3
  MaxCount = 3
  First = t1
  Reader = {t1}
  Writer = {t2, t3}
  Task <- MCTask
  Others <- MCOthers
  Thread <- MCThread
  Priority <- MCPriority
INVARIANT
  WriteNeverWaits
