CONSTANTS
  Setups <- MCSetups
  Draws = 4
SPECIFICATION Spec
INVARIANTS EventsAsked TimesRight ParametersOfRun
CHECK_DEADLOCK FALSE
