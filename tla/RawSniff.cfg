SPECIFICATION Spec
CONSTANTS
  NB <- Dmatwo
  Activity <- Traffic
  MaxRuns = 2
\* an unplugged device, a refused process
CHECK_DEADLOCK FALSE
INVARIANTS
  TypeOK
  FileInOrder
  DumpEndsRecord
PROPERTIES
  DumpStored
