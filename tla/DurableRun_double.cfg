SPECIFICATION Spec
CONSTANTS
  Tasks = {t1, t2}
  Requests = {r1, r2}
  MaxTurns = 3
  MaxSteps = 0
  MaxActions = 1
  MaxExecs = 2
  MaxCrashes = 0
  DbErrors = FALSE
  NoPlan = NoPlan
SYMMETRY Symmetry
INVARIANTS OneWorker
CHECK_DEADLOCK FALSE
