CONSTANTS
  Workers = {w1, w2}
  Events = {e1, e2}
  Deacts = {d1, d2}
  Faults = {"commit", "publish", "link", "restart"}
  NoEvent = NoEvent
  NoWorker = NoWorker

SPECIFICATION Spec
CHECK_DEADLOCK FALSE
SYMMETRY Symmetry

INVARIANTS
  TypeOK
  PublishedImpliesPersisted
  DeactivatedStaysDown

PROPERTY ImplementsCommandPath
