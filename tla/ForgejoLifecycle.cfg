SPECIFICATION Spec
CONSTANTS
  Handlers = {h1}
  Workers = {w1, w2}
  MaxGen = 2
  MaxTime = 2
  MaxLife = 1
  MaxClosers = 2
SYMMETRY Symmetry
PROPERTIES
  MergedIsFinal
  CloseReadBack
  CloseEventCurrent
  ReopenConfirmed
  OneReopenPerIntent
CHECK_DEADLOCK FALSE
