CONSTANTS
  NumCells = 4
  CellWidth = 2
  Pads = {p1, p2}
  Setups <- MCSetups
  EventGaps <- MCGaps
  Flights <- MCFlights
  Smears <- MCSmears
  ActiveTimes <- MCActive
SYMMETRY PadSymmetry
SPECIFICATION Spec
INVARIANTS BufferRight NothingLeft SortedBranch
CHECK_DEADLOCK FALSE
