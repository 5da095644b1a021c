CONSTANTS
  BranchingPoint <- MCBranchingPoint
SPECIFICATION CFairSpec
INVARIANTS
  StackFollowsPoints
  EachCellSettledOnce
PROPERTIES Termination
CHECK_DEADLOCK FALSE
