SPECIFICATION Spec
CONSTANTS
  Tasks = {t1, t2}
  Requests = {r1}
  MaxTurns = 1
  MaxSteps = 1
  MaxActions = 1
  MaxExecs = 5
  MaxCrashes = 1
  DbErrors = FALSE
  NoPlan = NoPlan
SYMMETRY Symmetry
INVARIANTS DoneTurnIsSaved
CHECK_DEADLOCK FALSE
