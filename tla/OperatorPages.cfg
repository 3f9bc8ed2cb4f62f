CONSTANTS
  MaxFaults = 1
  Clicks = {c1, c2}
  MaxEvents = 2
  Stops = 3
  Junctions = {j1, j2}
  First = j1
  Fallback = j2
  J0 = J0
  None = None
  ModeClicks = {m1}
  OverrideClicks = {o1}
  MaxFetches = 2
  MaxLines = 6

SPECIFICATION PagesSpec
SYMMETRY Symmetry
CHECK_DEADLOCK FALSE

INVARIANTS
  StopNamesEvent
  CorridorInShape
  RetryCreatesOneMore
  CarefulOperators
