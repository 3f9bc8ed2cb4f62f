CONSTANTS
  Workers = {w1}
  Events = {e1, e2}
  Deacts = {d1}
  Faults = {}
  NoEvent = NoEvent
  NoWorker = NoWorker

SPECIFICATION Spec
CHECK_DEADLOCK FALSE
SYMMETRY Symmetry

INVARIANTS
  NoDroppedCorridor
