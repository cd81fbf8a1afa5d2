SPECIFICATION Spec
CONSTANTS
  Runs = {r1, r2}
  MaxAssertions = 1
SYMMETRY Symmetry
INVARIANTS EvidenceIsThere RunsAreToldTruly
CHECK_DEADLOCK FALSE
