SPECIFICATION Spec
CONSTANTS
  r1 = r1
  r2 = r2
  c1 = c1
  c2 = c2
  d1 = d1
  d2 = d2
  Nobody = Nobody
  Replays <- TwoReplays
  Senders <- TwoSenders
  Receivers <- TwoReceivers
  Messages <- ThreeMessages
  Grace <- FirstIsGrace
  Copies <- SomeCopies
  Capacity = 2
  SequenceLimit = 3
  Backlog = 1
SYMMETRY ReplaySymmetry
INVARIANTS
  RejectedGraceStaysOut
PROPERTIES
  PageShowsWholeCopies
CHECK_DEADLOCK FALSE
