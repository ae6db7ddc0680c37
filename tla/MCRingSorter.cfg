CONSTANTS
  NumCells = 3
  CellWidth = 2
  Times <- MCTimes
  MaxDigis = 4
SPECIFICATION Spec
INVARIANTS TypeOK RingAligned SortedOutput OutputBelowBound ExactlyOnce FinishDeliversAll
PROPERTIES LowerBoundOnlyGrows SortsLikePromise
CHECK_DEADLOCK FALSE
