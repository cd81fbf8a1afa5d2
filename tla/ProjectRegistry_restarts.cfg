SPECIFICATION Spec
CONSTANTS
  Projects = {"alpha", "beta"}
  Roots = {"r1", "r2"}
  NoRoot = NoRoot
  Absent = Absent
  Unreadable = Unreadable
INVARIANT RecordsAreServed
PROPERTY RecordsAreKept
