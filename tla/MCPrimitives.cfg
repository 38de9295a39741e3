SPECIFICATION Spec
CONSTANTS
  Starts <- MCStarts
  Functions <- MCFunctions
  Pieces <- MCPieces
  MaxFed <- MCMax
  MaxOut <- MCMax
  Hashes <- MCHashSet
  Contexts = {c1, c2}
  Rests <- MCRests
  MaxBlocks = 1
  Modulus = 997
  Sigma0 <- MCSigma0
  Sigma1 <- MCSigma1
  Q = 113
  Word = 2048
  QInv = 145
  Step = 128
  N = 8
  Root = 35
  Jobs <- MCJobs
  K = 2
  L = 2
  MaxHints = 1
  NonceSpan = 64
  MaxContext = 2
  Slack = 20989
  Matrices <- MCMatrices
  Secrets <- MCSecrets
  Masks <- MCMasks
  Challenges <- MCChallenges
  Messages <- MCMessages
  MaxAttempts = 2
  Samplings <- MCSamplings
  Places = 5
  Rows = 2
  OMEGA = 3
  AddrByte = 8
  ChainBits = 2
  MsgDigits = 4
  SumDigits = 2
  TreeHeight = 2
  Layers = 2
  ForsHeight = 2
  ForsTrees = 3
  Digests <- MCDigests
  HashBytes <- MCHashBytes
  MaxSigned = 2
INVARIANTS
  StreamIsOne
  StandardHashes
  
  SignedVerifies
  
  MasksAreFresh
  SampledInOrder
  EncodingIsCanonical
  SlhVerifies
  AddressesApart
CHECK_DEADLOCK FALSE
