SPECIFICATION FairSpec
CONSTANTS
  PageSize = 1
  MaxMessages = 3
INVARIANTS
  RejectedGraceStaysOut
  NoHoleUnlessCut
PROPERTIES
  VerdictIsNotTakenBack
  RejectionReachesPage
