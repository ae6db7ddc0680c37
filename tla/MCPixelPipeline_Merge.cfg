CONSTANTS
  Setups <- MCMerging
  QueueLength = 1
SPECIFICATION Spec
INVARIANT StoredWhole
CHECK_DEADLOCK FALSE
