SPECIFICATION Spec
CONSTANTS
  k1 = k1
  k2 = k2
  k3 = k3
  Key = {k1, k2}
  CommitHash = {c1}
  EmptyStr = EmptyStr
  Prefix256 <- DistinctPrefixes
  ParsableKey = {k1, k2}
  Faults = {}
  MaxKeyGen = 1
  MAX_REPO_ID = 1
  Word = 2
  Role = {0, 1, 2}
  Nonce = {}
  PemBufSize = {0, 1024}
  MaxBlocks = 4
  MaxBoots = 2
  MaxArchive = 0
  MaxReplies = 0
INVARIANTS
  TypeOK
  ListsExclusive
  ChainLinked
  ListsMatchLedger
  BlocksAuthorised
PROPERTIES
  KeyChangesAreRecorded
  LockoutIsPermanent
  ImplementsAccessLedger
SYMMETRY KeySymmetry
