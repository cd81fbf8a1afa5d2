SPECIFICATION ToolsSpec
CONSTANTS
  Slots = {a, b}
  MaxRuntimes = 1
  MaxConcurrent = 1
INVARIANTS AnswersHoldTrue NoneIsMislaid
CHECK_DEADLOCK FALSE
