SPECIFICATION Spec
CONSTANTS
  MaxNoise = 0
  NoiseKinds = {"malformed"}
  RequestIds = {102}
  NumTools = 2
  Canaries = 2
  MaxRestarts = 1
  LaunchesCap = 8
INVARIANTS RestartsWithinBudget
CHECK_DEADLOCK FALSE
