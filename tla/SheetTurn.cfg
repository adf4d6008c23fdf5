SPECIFICATION Spec
CONSTANTS
  Cells <- MCCells
  Hub <- MCHub
  Actions <- MCActions
  Originals <- MCOriginals
  Spellings = FALSE
  MaxRows = 3
  MaxTurns = 2
INVARIANTS TypeOK UserCellsNeedApproval FindingsReachTheirActions ReportForetells
PROPERTIES UndoRestores
CHECK_DEADLOCK FALSE
