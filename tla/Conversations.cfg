SPECIFICATION Spec
CONSTANTS
  p1 = p1
  p2 = p2
  Users <- TwoUsers
  Movers <- OneMover
  CreatedAs <- Ephemeral
  Transactions <- TwoTransactions
  MaxGeneration = 2
  MaxInvitations = 2
  MaxConversations = 1
SYMMETRY TransactionSymmetry
INVARIANTS
  OneActiveInvitation
  CirclesNeedAPair
PROPERTIES
  CreatedFromWorkingCode
  TransitionsNeverUndo
CHECK_DEADLOCK FALSE
