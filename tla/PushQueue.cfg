SPECIFICATION Spec
CONSTANTS
  j1 = j1
  w1 = w1
  w2 = w2
  s1 = s1
  s2 = s2
  k1 = k1
  k2 = k2
  x1 = x1
  x2 = x2
  None = None
  Jobs <- OneJob
  Workers <- TwoWorkers
  Subscriptions <- TwoSubscriptions
  Keys <- TwoKeys
  Sessions <- TwoSessions
  Attempts = 3
  MaxRollbacks = 1
SYMMETRY PushSymmetry
INVARIANTS
  PushedOncePerRollback
  OnlyDeadKeysAreRevoked
  GivenUpAfterAllAttempts
CHECK_DEADLOCK FALSE
