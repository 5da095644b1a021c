CONSTANTS
  s = s
  a = a
  v = v
  p = p
  StateVars = {s}
  InVars = {a}
  Val = {v}
  Pre = {p}
  HasConstraints = TRUE
  Foreign <- MCForeign
  NoState = NoState
  MaxPre = 1
  MaxPath = 3
  MaxBase = 3
  MaxCnt = 3
SPECIFICATION Spec
INVARIANTS
  TypeOK
  StacksAligned
  ChoicesReplay
  PathIsConstrained
  XSymbolsDistinct
PROPERTIES ImplementsUndoStack
CHECK_DEADLOCK FALSE
