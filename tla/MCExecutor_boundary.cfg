\* Calls declaring an output whose name contains '/', and calls running the
\* system interpreter "/sh" with a STDIN input of that name.
CONSTANTS
  r1 = r1
  r2 = r2
  h1 = h1
  h2 = h2
  Reqs <- MCReqs
  Requests <- BoundaryRequests
  Hashes <- MCHashes
  Names <- BoundaryNames
  IllegalNames <- BoundaryIllegalNames
  AbsoluteNames = {"/sh"}
  Infos <- MCInfos
  NoFile = NoFile
  Partial = Partial
  DeviceLayouts = {TRUE}
  NumCores = {2}
  HardwareConcurrency = {1}
  MaxExecutors = 1
  SizeBits = 2
SYMMETRY Perms
SPECIFICATION Spec
INVARIANT SandboxGetsValidNames
CHECK_DEADLOCK FALSE
