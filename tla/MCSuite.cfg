SPECIFICATION SuiteSpec
CONSTANTS
  Dirs = {1, 2}
  Names = {1, 2}
  Transcripts <- MCTranscripts
  MaxEntries = 2
INVARIANTS HonestExit CountsTrue SuitesFound
CHECK_DEADLOCK FALSE
