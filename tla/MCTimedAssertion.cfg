CONSTANTS
  FreeInputs = {"a"}
  Reset = {"rst"}
  set_rst_to_0 = TRUE
  Clock = {"clk"}
  Designs <- MCDesigns
  Assertions <- MCAssertions
  MaxChecks = 2
  MaxFrames = 3
SPECIFICATION Spec
INVARIANTS
  EveryVariableRecorded
  FirstVerdictRight
CHECK_DEADLOCK FALSE
