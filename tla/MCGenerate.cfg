SPECIFICATION Spec
CONSTANTS
  MaxNoise = 1
  NoiseKinds = {"malformed", "undecodable"}
  RequestIds = {2}
  MaxPages = 3
INVARIANTS TranscriptIsTrue SkipsNeedALostServer EndsClean
PROPERTIES GenerateEnds
CHECK_DEADLOCK FALSE
