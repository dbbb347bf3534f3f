SPECIFICATION Spec
CONSTANTS
  Items <- MCItems
  Status <- MCStatus
  Reports <- MCReports
  Objects <- MCObjects
  Def <- MCDef
  Sets <- MCSets
  FilterStates = {"s"}
  StateResult <- MCStateResult
  MaxEvalDepth = 2
INVARIANT
  SetOperationExact
CHECK_DEADLOCK FALSE
