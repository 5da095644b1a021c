SPECIFICATION Spec
CONSTANTS
  Files <- MCFiles
  SeparateBools = TRUE
INVARIANTS
  DistinctNamesAreAccepted
  StateVariablesHaveUpdates
  SignalsAreFound
  MeansWhatItSays
CHECK_DEADLOCK FALSE
