SPECIFICATION FairSpec
CONSTANTS
  m1 = m1
  m2 = m2
  Host = Host
  Guest = Guest
  Nobody = Nobody
  GraceLimit = 1
  VoteSeconds = 2
  Retention = 3
  MaxTime = 4
  Messages <- TwoMessages
INVARIANTS
  VerdictMatchesBallots
  RejectedGraceIsErased
  QuotaHolds
  NothingSentWhileVoting
PROPERTIES
  VisibleGraceStays
  HiddenGraceStaysHidden
  EveryVoteEnds
CHECK_DEADLOCK FALSE
