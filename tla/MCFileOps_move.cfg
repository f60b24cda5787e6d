\* One Move call, with any flags, over the same three paths.
CONSTANTS
  c1 = c1
  c2 = c2
  a = a
  b = b
  x = x
  NoFile = NoFile
  Callers = {c1}
  Paths <- MCPaths
  Device <- MCDevice
SPECIFICATION Spec
CHECK_DEADLOCK FALSE
INVARIANT MoveContract
