CONSTANTS
  Vars = {"p", "q"}
  Xs = {"x", "y"}
  Others = {"a"}
  States <- MCAll
SPECIFICATION Spec
INVARIANTS
  MeaningKept
  RecordedStatesSimplify
CHECK_DEADLOCK FALSE
