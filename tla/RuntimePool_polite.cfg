SPECIFICATION PoolSpec
CONSTANTS
  Calls = {"c1", "c2"}
  MaxRuntimes = 2
  MaxProcs = 2
  MaxConcurrent = 1
  SerialRuntime = TRUE
  Scenarios = TRUE
  MaxPoolSize = 2
  MaxReuseCount = 2
  Polite = TRUE
INVARIANTS PooledIsReady ProcessesAreHeld
PROPERTIES EvictionStops DocumentedTransitions RuntimesSettle
CHECK_DEADLOCK FALSE
