CONSTANTS
  NLights = 2
  Actions = {"FLASH_ALL_RED", "PHASE_SKIP", "REDUCE_GREEN", "EXTEND_GREEN"}
  MaxPending = 3
  MaxPublished = 3

SPECIFICATION FairSpec
CHECK_DEADLOCK FALSE

PROPERTIES
  LightsInStep
  ImplementsCommandPath
  ActivationTakesEffect
