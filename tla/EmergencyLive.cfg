CONSTANTS
  Workers = {w1, w2}
  Events = {e1, e2}
  Deacts = {d1, d2}
  Faults = {}
  NoEvent = NoEvent
  NoWorker = NoWorker

SPECIFICATION FairSpec
CHECK_DEADLOCK FALSE

INVARIANT AgreeAtRest

PROPERTY CommandsReachBridge
