SPECIFICATION FairSocketsSpec
CONSTANTS
  c1 = c1
  a1 = a1
  a2 = a2
  j1 = j1
  Conns <- OneSocket
  Addresses <- TwoAddresses
  Bootstraps <- OneBootstrap
  MaxSessions = 2
  MaxTokens = 1
  MaxCodes = 2
INVARIANTS
  RevokedSocketIsTold
  VerifiedMeansMailed
PROPERTIES
  UnfitSocketsClose
CHECK_DEADLOCK FALSE
