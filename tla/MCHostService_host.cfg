SPECIFICATION HostSpec
CONSTANTS
  k1 = k1
  k2 = k2
  Key = {k1, k2}
  CommitHash = {c1}
  EmptyStr = EmptyStr
  Prefix256 <- DistinctPrefixes
  ParsableKey = {k1, k2}
  Faults = {}
  MaxKeyGen = 1
  MAX_REPO_ID = 1
  Word = 2
  Role = {0, 1, 2}
  Nonce = {}
  PemBufSize = {}
  MaxBlocks = 3
  MaxBoots = 3
  MaxArchive = 0
  MaxReplies = 0
  MaxConn = 3
  Requests <- HostRequests
  MaxSockets = 2
INVARIANTS
  HostTypeOK
  SuccessIsRecorded
  OneRequestPerBlock
  NoSilentBlock
PROPERTIES
  RefusalIsClean
  ConnectionsEnd
  FailedDaemonExits
CHECK_DEADLOCK FALSE
