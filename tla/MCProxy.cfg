SPECIFICATION FairSpec
CONSTANTS
  ClientKinds = {"rpc", "poison"}
  ServerKinds = {"rpc", "opaque", "unredactable", "poison"}
  MaxC2S = 2
  MaxS2C = 1
  PipeCap = 1
  HighWater = 0
  LowWater = 0
  MaxFaults = 1
INVARIANTS
  TypeOK
  Transparent
  TranscriptAgrees
  NoOrphanServer
  ExitDeliversAll
PROPERTIES
  ImplementsJournal
  SignalStops
  EndOfStreamStops
CHECK_DEADLOCK FALSE
