\* Two concurrent calls fetch the same missing blob.
CONSTANTS
  r1 = r1
  r2 = r2
  h1 = h1
  h2 = h2
  Reqs <- MCReqs
  Requests <- RaceRequests
  Hashes <- MCHashes
  Names <- MCNames
  IllegalNames <- MCIllegalNames
  AbsoluteNames = {}
  Infos <- MCInfos
  NoFile = NoFile
  Partial = Partial
  DeviceLayouts = {TRUE}
  NumCores = {2}
  HardwareConcurrency = {1}
  MaxExecutors = 1
  SizeBits = 2
SYMMETRY Perms
SPECIFICATION Spec
INVARIANT FetchRaceTolerated
CHECK_DEADLOCK FALSE
