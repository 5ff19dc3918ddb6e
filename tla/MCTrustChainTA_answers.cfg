SPECIFICATION Spec
CONSTANTS
  k1 = k1
  k2 = k2
  k3 = k3
  Key = {k1}
  CommitHash = {c1}
  EmptyStr = EmptyStr
  Prefix256 <- DistinctPrefixes
  ParsableKey = {k1}
  Faults = {"sign", "generate"}
  MaxKeyGen = 1
  MAX_REPO_ID = 2
  Word = 3
  Role = {1}
  Nonce <- MixedNonces
  PemBufSize = {1024}
  MaxBlocks = 2
  MaxBoots = 2
  MaxArchive = 0
  MaxReplies = 2
INVARIANTS
  FullNonceBindsAnswer
  IdsDense
