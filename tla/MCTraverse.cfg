CONSTANTS
  n0 = n0
  n1 = n1
  n2 = n2
  b0 = b0
  b1 = b1
  high = high
  low = low
  quiet = quiet
  StateVars = {"s"}
  InVars = {"a", "b"}
  Nodes = {n0, n1, n2}
  Bits = {b0, b1}
  Val = {n0, n1, n2, b0, b1}
  Pre = {high, low}
  HasConstraints = TRUE
  Foreign <- MCForeign
  NoState = NoState
  MaxPre = 1
  MaxPath = 4
  MaxBase = 0
  MaxCnt = 150
  BranchingPoint <- BranchOnAG
  Designs <- TraversedDesigns
  Roots <- FirstRoot
  TermOf <- MCTermOf
  SignalIs <- SignalG
  Assumptions <- NoSignals
SPECIFICATION TSpec
INVARIANTS
  SearchAligned
  FindsReachableNodes
  WorkIsBounded
  RecordsOnlyReachable
  BranchesAreSimplePaths
PROPERTIES UsesSimulatorAsDocumented ResimulatedStateIsKnown
