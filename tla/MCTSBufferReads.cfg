CONSTANTS
  NofEntries = 4
  TimeSeqs <- MCTimeSeqs
  Limits <- MCLimits
  Steps <- MCSteps
  MaxTime = 5
  OpensWithRange = FALSE
SPECIFICATION Spec
INVARIANTS
  BufferEndsAtBranchIndex
  EndsWhenProcessed
PROPERTIES
  ReadsLikeCursor
  LoopEnds
CHECK_DEADLOCK FALSE
