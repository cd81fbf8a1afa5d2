SPECIFICATION Spec
CONSTANTS
  c1 = c1
  c2 = c2
  Calls <- MCCalls
  MaxRuntimes = 2
  MaxProcs = 2
  MaxConcurrent = 1
  SerialRuntime = FALSE
  Scenarios = TRUE
SYMMETRY Interchangeable
INVARIANTS
  TypeOK
  ReadyHasRuntime
  DeletionIsQuiet
  QuotaHolds
PROPERTIES
  DeletionAfterRetention
