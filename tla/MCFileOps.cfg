\* Two concurrent Copy, Move or Remove calls, with any flags, over two
\* paths on one filesystem and one on another, each present or not.
\* Every call ends at pc = "done"; that final state is not a deadlock.
CONSTANTS
  c1 = c1
  c2 = c2
  a = a
  b = b
  x = x
  NoFile = NoFile
  Callers <- MCCallers
  Paths <- MCPaths
  Device <- MCDevice
SPECIFICATION Spec
CHECK_DEADLOCK FALSE
PROPERTY ReplaceOnlyWithOverwrite
PROPERTY CopyDeliversSource
