CONSTANTS
  EventIds = {e1, e2, e3}
  Junctions <- MCJunctions
  Routes <- MCRoutes
  Marks <- MCMarks
  EWPairs <- MCEWPairs
  Lookahead = 2
  EnvAttached = TRUE
  Actions = {"FLASH_ALL_RED", "PHASE_SKIP", "HOLD_GREEN", "SHORTEN_GREEN"}
  TxLimit = 260
  Values = {0, 15, 127}

SPECIFICATION SignalsSpec

INVARIANTS
  TypeOK
  PlansMatchActiveRoutes
  NoGreenBehind
  SafetyInterlocks
  FramesDecode
