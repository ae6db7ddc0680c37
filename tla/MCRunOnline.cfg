CONSTANTS
  Task = {"hits", "tracks", "monitor"}
  Root = "root"
  Parent <- MCParent
  Unpackers <- MCUnpackers
  RunId = 1
  Setups <- MCSetups
SPECIFICATION Spec
INVARIANTS FilledRight ParametersOfRun StopsOrderly
PROPERTIES RunStops
CHECK_DEADLOCK FALSE
