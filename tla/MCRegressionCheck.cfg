SPECIFICATION RegressionSpec
CONSTANTS
  MaxNoise = 1
  NoiseKinds = {"note", "malformed"}
  RequestIds = {2}
  MaxCommands = 2
CHECK_DEADLOCK FALSE
INVARIANTS CheckRepeats
