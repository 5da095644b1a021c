CONSTANTS
  Runs = {r1, r2}
  Stamps = {t1, t2}
  None = None
  Blank = Blank
  Part = Part
SPECIFICATION Spec
INVARIANTS
  AnswersAreOwn
  NoChildOutlivesRun
PROPERTY EveryRunEnds
CHECK_DEADLOCK FALSE
