\* One LocalExecutor (num_cores 2, or 0 detected as 1 or 3), three request threads.
CONSTANTS
  t1 = t1
  t2 = t2
  t3 = t3
  Threads <- MCThreads
  NumCores = {0, 2}
  HardwareConcurrency = {1, 3}
  MaxExecutors = 1
  SizeBits = 3
SPECIFICATION Spec
INVARIANT AdmissionExclusion
PROPERTY PolicyRefinement
