\* One Hash, HardCopy or served fetch, where a read, a send or the commit's
\* fsync may fail and the destination may already exist.
CONSTANTS
  c1 = c1
  c2 = c2
  k0 = k0
  k1 = k1
  k2 = k2
  NoFile = NoFile
  EOS = EOS
  Callers = {c1}
  SrcContent <- MCSrc
  OldContent <- MCOld
  Faults = {"read", "send", "fsync"}
  MaxCrashes = 0
SPECIFICATION Spec
CHECK_DEADLOCK FALSE
INVARIANT DescriptorsReleased
