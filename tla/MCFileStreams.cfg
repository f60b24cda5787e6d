\* Two concurrent callers, each a Hash, a HardCopy with any flags or a
\* fetch, on one two-chunk source and one destination that may already
\* exist; every system call the streams make may fail.
CONSTANTS
  c1 = c1
  c2 = c2
  k0 = k0
  k1 = k1
  k2 = k2
  NoFile = NoFile
  EOS = EOS
  Callers <- MCCallers
  SrcContent <- MCSrc
  OldContent <- MCOld
  Faults <- AllFaults
  MaxCrashes = 1
SPECIFICATION Spec
\* Every call ends at pc = "done"; that final state is not a deadlock.
CHECK_DEADLOCK FALSE
INVARIANT DestinationAtomic
PROPERTY CallsReturn
