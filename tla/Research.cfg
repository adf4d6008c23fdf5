SPECIFICATION FairSpec
CONSTANTS
  r1 = r1
  r2 = r2
  Researchers = {r1, r2}
  Rounds <- MCRounds
  MaxRounds = 1
  DbErrors = TRUE
INVARIANTS
  TypeOK
  EveryUseIsAnswered
  ResultIsComplete
  StoredWhole
  ToldIsStored
PROPERTY EveryResearchEnds
CHECK_DEADLOCK FALSE
