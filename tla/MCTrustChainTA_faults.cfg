SPECIFICATION Spec
CONSTANTS
  k1 = k1
  k2 = k2
  k3 = k3
  Key = {k1, k2}
  CommitHash = {c1}
  EmptyStr = EmptyStr
  Prefix256 <- DistinctPrefixes
  ParsableKey = {k1}
  Faults <- AllButOpen
  MaxKeyGen = 2
  MAX_REPO_ID = 1
  Word = 2
  Role = {1, 2}
  Nonce = {}
  PemBufSize = {}
  MaxBlocks = 3
  MaxBoots = 2
  MaxArchive = 1
  MaxReplies = 0
INVARIANTS
  ListsExclusive
  ListsMatchLedger
  BlocksAuthorised
  SignaturesStayValid
PROPERTIES
  ErrorKeepsChain
