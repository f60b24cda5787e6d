\* Cross-device ingests and fetches of the same blob by two calls.
CONSTANTS
  r1 = r1
  r2 = r2
  h1 = h1
  h2 = h2
  Reqs <- MCReqs
  Requests <- MCRequests
  Hashes <- MCHashes
  Names <- MCNames
  IllegalNames <- MCIllegalNames
  AbsoluteNames = {}
  Infos <- MCInfos
  NoFile = NoFile
  Partial = Partial
  DeviceLayouts = {FALSE}
  NumCores = {2}
  HardwareConcurrency = {1}
  MaxExecutors = 1
  SizeBits = 2
SYMMETRY Perms
SPECIFICATION Spec
INVARIANT NoStrayTemps
CHECK_DEADLOCK FALSE
