SPECIFICATION FairSpec
CONSTANTS
  Subscribers = {s1, s2}
  MaxTurns = 2
  MaxSteps = 1
  MaxConnects = 2
  MaxCrashes = 1
  DbErrors = TRUE
  Disconnects = TRUE
INVARIANTS DoneEventIsDurable ProgressNeverGoesBack
PROPERTIES LoneStreamEnds
CHECK_DEADLOCK FALSE
