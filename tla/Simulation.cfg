CONSTANTS
  Workers = {w1, w2}
  Deployments <- MCDeployments
  Scenarios = {"morning_peak", "off_peak"}
  Default = "morning_peak"
  StepSizes <- MCStepSizes
  MaxStep = 2

SPECIFICATION Spec
SYMMETRY Symmetry

INVARIANT AloneAgrees

PROPERTIES
  RunningIsBacked
  
