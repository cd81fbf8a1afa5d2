SPECIFICATION DiligentSpec
CONSTANTS
  Slots = {a}
  MaxRuntimes = 1
  MaxConcurrent = 1
PROPERTY QuotaIsFreed
CHECK_DEADLOCK FALSE
