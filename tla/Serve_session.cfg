SPECIFICATION ServeSpec
CONSTANTS
  Calls = {c1, c2}
  MaxSupervisors = 2
INVARIANTS CallersAreServed StartedInOrder
PROPERTIES EveryCallSettles SessionEnds
CHECK_DEADLOCK FALSE
