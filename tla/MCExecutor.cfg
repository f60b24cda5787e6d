\* Two concurrent Execute calls, on a worker whose temp and store
\* directories are on different filesystems (inputs staged as private
\* copies, outputs ingested by HardCopy) or on one (staging and ingest by
\* hardlink).
CONSTANTS
  r1 = r1
  r2 = r2
  h1 = h1
  h2 = h2
  Reqs <- MCReqs
  Requests <- MCRequests
  Hashes <- MCHashes
  Names <- MCNames
  IllegalNames <- MCIllegalNames
  AbsoluteNames = {}
  Infos <- MCInfos
  NoFile = NoFile
  Partial = Partial
  DeviceLayouts = {FALSE, TRUE}
  NumCores = {2}
  HardwareConcurrency = {1}
  MaxExecutors = 1
  SizeBits = 2
SYMMETRY Perms
SPECIFICATION Spec
INVARIANT TypeOK
CHECK_DEADLOCK FALSE
INVARIANT StoreIntegrity
INVARIANT TempDirCleanup
INVARIANT SuccessComplete
INVARIANT LimitKillsReported
