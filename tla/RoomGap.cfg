SPECIFICATION Spec
CONSTANTS
  PageSize = 1
  MaxMessages = 3
INVARIANTS
  WholeRefreshLeavesNoHole
