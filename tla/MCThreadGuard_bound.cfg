\* Up to two LocalExecutors, each with num_cores 0, 1 or 2; with num_cores
\* 0 the bound is hardware_concurrency(), which may report 0 (its
\* documented "not computable" value).  Every constructor overwrites the
\* process-wide MaxThreads while executions are running.
CONSTANTS
  t1 = t1
  t2 = t2
  t3 = t3
  Threads <- MCThreads
  NumCores = {0, 1, 2}
  HardwareConcurrency = {0, 1}
  MaxExecutors = 2
  SizeBits = 3
SPECIFICATION Spec
INVARIANT AdmissionExclusion
