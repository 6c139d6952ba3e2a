SPECIFICATION Spec
CONSTANTS
  MaxOps = 3
  MaxUnasked = 1
  RequestIds = {2, 9}
INVARIANTS OwnAnswers PlayedAsRecorded StallReasons
PROPERTIES PlaysToTheEnd
CHECK_DEADLOCK FALSE
