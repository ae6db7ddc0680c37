CONSTANTS
  Names = {"A", "B"}
  RunIds = {11, 12}
  Values = {1, 2}
  RootFiles = {"f1", "f2"}
  Text <- MCText
  Lists = {{"A", "B"}}
  InputPairs <- MCPairs
  Outputs = {"f1", "f2"}
  RunsReturn = FALSE
  FillsRead = FALSE
  MaxJobs = 2
  MaxCalls = 4
SPECIFICATION Spec
INVARIANTS TablesRight
PROPERTIES NewRunReadsInputs EndStoresAll
CHECK_DEADLOCK FALSE
