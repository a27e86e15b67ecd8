CONSTANTS
  Casts <- SeriesCasts
  ReopenLimit = 1
  DoneValues = 6
SPECIFICATION Spec
PROPERTY SeriesPaidOnce
CHECK_DEADLOCK FALSE
