SPECIFICATION KeysSpec
CONSTANTS
  LimbBits = 6
  Limbs = 3
  BnPrime = 65519
  Samples <- BnSamples
  Divisors = {3, 6}
  VliBits = 4
  VliWords = 2
  ByteBits = 2
  VliSamples <- VliNumbers
  Moduli = {19, 131, 251}
  RngMaxTries = 2
  EccP = 127
  EccB = 29
  EccN = 109
  EccG <- UeccG
  EccBits = 7
  EccKeys = {1, 2, 3, 18, 19, 20, 30, 54, 55, 56, 77, 106, 107, 108}
  EccPoints <- UeccPoints
  EccZs = {1, 5, 126}
  EccHashes = {0, 1, 77, 108, 109, 127}
  EcP = 251
  EcA <- EcdsaA
  EcB = 56
  EcN = 239
  EcG <- EcdsaG
  EcWindow = 2
  EcWindows = 4
  EcByte = 4
  EcScalars <- EcdsaScalars
  EcPoints <- EcdsaPoints
  EcZs = {1, 9, 250}
  EcKeys = {1, 2, 16, 119, 238}
  EcNonces = {1, 2, 3, 16, 77, 119, 120, 222, 238}
  EcDigests = {0, 1, 77, 239, 255}
  BipHard = 8
  BipIndices = {0, 1, 8}
  BipChains = 64
  BipSeeds = {3, 20, 77}
  BipRoots = {3}
  BipPathIndices = {1, 8}
  BipCacheSize = 2
  BipCacheDepth = 2
  BipDepthBytes = 256
  BipMaxDepth = 3
  NonceTries = 2
  RandWord = 64
  RandMax = 9
  PermMax = 4
  EdM = 4194319
  EdMu = 67108624
  EdSecrets <- EdSecretSet
  EdHashes <- EdHashSet
INVARIANTS BignumIsModular VliIsModular CurvesFollowTheGroup
  TreeIsOne NoncesAreStandard EdFollowsTheStandard
CHECK_DEADLOCK FALSE
