SPECIFICATION FairSpec
CONSTANTS
  Tasks = {t1, t2}
  Requests = {r1}
  MaxTurns = 2
  MaxSteps = 2
  MaxActions = 1
  MaxExecs = 3
  MaxCrashes = 2
  DbErrors = TRUE
  NoPlan = NoPlan
INVARIANTS TypeOK StepRecordedOnce UninterruptedTurnIsSaved DoneIsReadable PendingNeverWritten
PROPERTIES IndexMonotone PhasesSpec EveryTurnEnds
CHECK_DEADLOCK FALSE
