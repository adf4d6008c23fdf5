SPECIFICATION BranchSpec
CONSTANTS
  Handlers = {h1, h2}
  Cells = {u, v}
  UserCells = {u}
  MaxRows = 3
  MaxRequests = 2
  MaxCrashes = 1
  StartPaths = {"original", "current"}
  RunsFail = TRUE
SYMMETRY Symmetry
CONSTRAINT ForkBound
INVARIANTS OnTimeReplayMatchesLive UndoRestoresThePast UndoneIsReversed StagedStaysOut ChildMatchesItsLedger ChildLinksHold
PROPERTIES DecidedOnce
CHECK_DEADLOCK FALSE
