SPECIFICATION Spec
CONSTANTS
  a = a
  b = b
  me = me
  other = other
  Atts = {a, b}
  TotalSize <- MCTotalSize
  ChunkSize = 2
  MaxFanout = 2
  Transfers = 1
  Callers = {me, other}
  Calls <- MCCalls
  Uploader <- MCUploader
  Ttls <- MCTtls
  Frags <- MCFrags
  Renewals <- MCRenewals
  OneShots <- MCOneShots
  MaxPaths = 1
  BatchSize = 1
  MaxClock = 2
  MaxFaults = 1
INVARIANTS
  KeptWhilePromised
  FilesAccounted
  SharedIsComplete
  FinalFilesWhole
CHECK_DEADLOCK FALSE
