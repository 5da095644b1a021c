CONSTANTS
  n0 = n0
  n1 = n1
  n2 = n2
  b0 = b0
  b1 = b1
  high = high
  low = low
  quiet = quiet
  StateVars = {"s"}
  InVars = {"a", "b"}
  Nodes = {n0, n1, n2}
  Bits = {b0, b1}
  Val = {n0, n1, n2, b0, b1}
  Pre = {high, low, quiet}
  HasConstraints = TRUE
  Foreign <- MCForeign
  NoState = NoState
  MaxPre = 2
  MaxPath = 4
  MaxBase = 0
  MaxCnt = 100
  BranchingPoint <- BranchOnAG
  Designs <- OneStepDesigns
  Roots <- FirstRoot
  TermOf <- MCTermOf
  SignalIs <- SignalG
  Assumptions <- Quietly
SPECIFICATION OSpec
INVARIANTS
  FindsSuccessors
  RecordsNodesOnce
  RecordsOnlySuccessors
