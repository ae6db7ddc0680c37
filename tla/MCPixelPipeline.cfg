CONSTANTS
  Setups <- MCSetups
  QueueLength = 1
SPECIFICATION Spec
INVARIANTS StoredRight
PROPERTIES StoresEveryEvent SamplersEnd
CHECK_DEADLOCK FALSE
