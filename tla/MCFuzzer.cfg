SPECIFICATION FairSpec
CONSTANTS
  Sources = {"call"}
  NumCases = 3
  MaxRestarts = 1
  WallClock = TRUE
  MaxNoise = 1
INVARIANTS EveryCaseOnce StaleOnlyAfterProtocolError CleanRunIsHonest LaunchesAccounted
PROPERTIES RunEnds
CHECK_DEADLOCK FALSE
