CONSTANTS
  Junctions = {j1, j2}
  J0 = J0
  None = None
  MaxFaults = 1
  MaxStore = 2
  Texts = {blank, t1}
  Blank = blank
  Sends = {s1, s2}
  OldMessage = old
  Alerts = {a1}
  Critical = {a1}
  Polls = {p1, p2}
  Pins = 2
  Reports <- TwoReports
  Lights = 2
  MinQueue = 3
  MaxQueue = 4
  LongQueue = 3
  MinSpeed = 2
  MaxSpeed = 3
  SlowSpeed = 3
  Every = 2
  MaxSteps = 4
  FeedLength = 2
  Names = {sensor, blr, sumo, delhi}
  Sensors = {sensor}
  BlrNames = {blr}
  SumoNames = {sumo}
  Fallback = j1
  FlashClicks = {c1}
  MaxChanges = 1
  Start = 1
  Hold = 1
  Default = Default
  MaxRequests = 3
  CountFrom = 3
  MaxOrphans = 2
  Attempts = {l1, l2}
  Requests = {r1, r2}
  MaxTokens = 2
  Projects = 4
  Sockets = {s1, s2, s3}
  NoSocket = NoSocket
  Pages = {p1, p2}
  MaxAttempts = 3
  MaxStrays = 2
  Parts = {"routing", "alerts", "forecasts", "showcase", "session", "dialog", "studio", "channel"}

SPECIFICATION LiveSpec
CHECK_DEADLOCK FALSE

INVARIANTS
  OneConnection
  AcknowledgementsAreTrue
  ShownIsCurrent
  WaitingIsBacked

PROPERTIES
  SessionsEndWithCause
  CarefulKeepsSession
  
