CONSTANTS
  Names = {"A", "B"}
  RunIds = {11, 12}
  Values = {1, 2, 3}
  RootFiles = {"f1", "f2"}
  Text <- MCText
  NameOrder <- MCOrder
  Output = "f2"
  Topologies <- MCSetups
SPECIFICATION ServerSpec
INVARIANTS ParametersRight
PROPERTIES ClientsAnswered
CHECK_DEADLOCK FALSE
