SPECIFICATION QSpec
CONSTANTS
  StateVars = {"c", "d", "e", "k"}
  InVars = {"i"}
  Update <- MCUpdate
  Values = {"x", "y"}
  Named <- MCNamed
  MaxFrames = 4
INVARIANTS
  TermsOfFramesAreValues
  AnswersAreOverValues
CHECK_DEADLOCK FALSE
