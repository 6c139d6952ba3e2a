SPECIFICATION FairSpec
CONSTANTS
  LineKinds = {"rpc", "batch", "malformed"}
  EventKinds = {"message", "other"}
  MaxC2S = 2
  MaxS2C = 2
  MaxOther = 1
  QueueMax = 1
INVARIANTS DeliveredInOrder AnswerAfterRequest OnlyLastUndelivered
PROPERTIES StreamEndStops
CHECK_DEADLOCK FALSE
