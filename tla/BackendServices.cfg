CONSTANTS
  Logins = {l1, l2, l3}
  Limit = 3
  Window = 2
  MaxFaults = 1
  Trainings = {t1, t2}
  Episodes <- SomeEpisodes
  Rounds = 3
  Readings = 3
  Pairs = {p1, p2}
  Frames = 3
  Places <- FivePlaces
  Roads <- SomeRoads
  Wanted = 2
  Scale = 4
  Parts = {"accounts", "training", "telemetry", "camera", "routes"}

SPECIFICATION Spec
CHECK_DEADLOCK FALSE

INVARIANTS
  GuessesAreBounded
  OneAtATime
  RoutesAreRight

PROPERTIES
  OrderIsKept
  WorkEnds
