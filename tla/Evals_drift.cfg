SPECIFICATION Spec
CONSTANTS
  Ids = {"g1", "g2"}
  SheetNames <- MCSheetNames
  Refs <- MCRefs
  Duplicate <- MCDuplicate
  Literals <- MCLiterals
  Close <- MCClose
  Functions <- MCFunctions
  Unknown <- MCUnknown
  GoldenFiles <- MCGoldenFiles
  Recordings <- MCRecordings
  Manifests <- MCManifests
  Baselines <- MCBaselines
  MaxCases = 2
  MaxDiffs = 2
INVARIANT DriftOnlyWarns
CHECK_DEADLOCK FALSE
