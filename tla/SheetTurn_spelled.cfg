SPECIFICATION Spec
CONSTANTS
  Cells <- MCCells
  Hub <- MCHub
  Actions <- MCActions
  Originals <- MCOriginals
  Spellings = TRUE
  MaxRows = 3
  MaxTurns = 2
INVARIANTS UserCellsNeedApproval
CHECK_DEADLOCK FALSE
