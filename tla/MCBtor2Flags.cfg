SPECIFICATION Spec
CONSTANTS
  Files <- MCFlags
  SeparateBools = TRUE
INVARIANTS
  OverflowFlagsMeanWhatTheySay
CHECK_DEADLOCK FALSE
