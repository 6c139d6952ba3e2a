SPECIFICATION Spec
CONSTANTS
  Formats = {"yaml", "ndjson"}
  MaxRecords = 4
  MaxFaults = 3
INVARIANTS RecordsInOrder NothingLost BackfillKeepsRecords
CHECK_DEADLOCK FALSE
