SPECIFICATION RegressionSpec
CONSTANTS
  MaxNoise = 1
  NoiseKinds = {"note", "malformed"}
  RequestIds = {2}
  MaxCommands = 2
INVARIANTS UnchangedPasses PassIsTrue UpdateSettles UpdateKeepsGolden
CHECK_DEADLOCK FALSE
