SPECIFICATION SelectSpec
CONSTANTS
  Populations <- AnyPopulation
  Requests <- HostRequests
  Loss = TRUE
INVARIANTS
  SelectTypeOK
  OneSelected
  Resolves
  NumberInStep
