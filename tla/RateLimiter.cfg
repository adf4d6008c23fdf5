SPECIFICATION Spec
CONSTANTS
  Callers = {c1, c2}
  Rate = 2
  TicksPerSecond = 3
  MaxTime = 12
  MaxCalls = 8
SYMMETRY Symmetry
INVARIANTS TypeOK BucketBound
CHECK_DEADLOCK FALSE
