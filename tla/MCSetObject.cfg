SPECIFICATION Spec
CONSTANTS
  Items <- MCItems
  Status <- MCStatus
  Reports <- MCReports
  Objects <- MCObjects
  Def <- MCDef
  Sets <- MCSets
  FilterStates = {"s"}
  StateResult <- MCStateResult
  MaxEvalDepth = 2
INVARIANTS
  SetExact
  FlagsSound
  EveryCombination
  NoReentry
CHECK_DEADLOCK FALSE
