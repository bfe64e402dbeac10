SPECIFICATION FileSpec
CONSTANTS
  Lengths <- ShortAndLong
  MaxRecords = 3
  MaxReads = 2
INVARIANTS
  FileTypeOK
  DoneIsStored
  ReadOutcome
CHECK_DEADLOCK FALSE
