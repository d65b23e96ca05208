SPECIFICATION WebSpec
CONSTANTS
  a1 = a1
  j1 = j1
  Addresses <- OneAddress
  Bootstraps <- OneBootstrap
  MaxSessions = 2
  MaxTokens = 2
  MaxCodes = 1
  MaxRequests = 2
INVARIANTS
  PageHoldsLastSignIn
  PageNeverAccused
  ExpelledOnlyFromDead
PROPERTIES
  NoRefreshAfterRevocation
CHECK_DEADLOCK FALSE
