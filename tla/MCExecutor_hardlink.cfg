\* Temp and store directories on one filesystem: a checker's plain input is staged by hardlink.
CONSTANTS
  r1 = r1
  r2 = r2
  h1 = h1
  h2 = h2
  Reqs <- MCReqs
  Requests <- HardlinkRequests
  Hashes <- MCHashes
  Names <- MCNames
  IllegalNames <- MCIllegalNames
  AbsoluteNames = {}
  Infos <- MCInfos
  NoFile = NoFile
  Partial = Partial
  DeviceLayouts = {TRUE}
  NumCores = {2}
  HardwareConcurrency = {1}
  MaxExecutors = 1
  SizeBits = 2
SYMMETRY Perms
SPECIFICATION Spec
INVARIANT StoreIntegrity
CHECK_DEADLOCK FALSE
