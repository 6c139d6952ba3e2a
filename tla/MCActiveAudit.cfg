SPECIFICATION Spec
CONSTANTS
  MaxNoise = 1
  NoiseKinds = {"malformed", "undecodable"}
  RequestIds = {102}
  NumTools = 2
  Canaries = 2
  MaxRestarts = 1
  LaunchesCap = 8
INVARIANTS EveryCanaryOnce VerdictOfItsCanary CleanAuditIsHonest LaunchesAccounted
PROPERTIES AuditEnds
CHECK_DEADLOCK FALSE
