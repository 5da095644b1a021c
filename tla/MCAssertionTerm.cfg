CONSTANTS
  Asts <- MCAsts
  VarWidth <- MCVarWidth
  NativeWidth <- MCNativeWidth
SPECIFICATION Spec
INVARIANTS
  SortsAgree
  MeansWhatItSays
CHECK_DEADLOCK FALSE
