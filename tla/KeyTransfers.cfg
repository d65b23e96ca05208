SPECIFICATION TransfersSpec
CONSTANTS
  a1 = a1
  j1 = j1
  j2 = j2
  t1 = t1
  b1 = b1
  b2 = b2
  Transfers <- OneTransfer
  Blobs <- TwoBlobs
  Addresses <- OneAddress
  Bootstraps <- TwoBootstraps
  MaxSessions = 3
  MaxTokens = 1
  MaxCodes = 1
SYMMETRY TransferSymmetry
INVARIANTS
  OnlyNewestSessionLives
  BootstrapOpensOneSession
  KeysComeFromReplaced
  DownloadsAgree
PROPERTIES
  GrantOnlyToReplaced
CHECK_DEADLOCK FALSE
