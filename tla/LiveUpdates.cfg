CONSTANTS
  Workers = {w1, w2}
  Requests = {r1, r2}
  Kinds = {"mode", "override", "acknowledge", "step"}
  Clients = {c1, c2}
  Watched = {"signals", "traffic"}
  MaxSteps = 1
  MaxFaults = 1
  None = None

SPECIFICATION Spec
CHECK_DEADLOCK FALSE
SYMMETRY Symmetry

INVARIANTS
  TypeOK
  OneOrder
  AtMostTwice
  CompleteAtRest
