CONSTANTS
  Casts <- MCCasts
  ReopenLimit = 1
  DoneValues = 6
SPECIFICATION Spec
INVARIANTS TypeOK OpenIsAsked OneOfSeries
PROPERTIES Reopened PaidOnce PaysLess
CHECK_DEADLOCK FALSE
