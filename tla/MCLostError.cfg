SPECIFICATION Spec
CONSTANTS
  d1 = d1
  d2 = d2
  d3 = d3
  T1 = T1
  T2 = T2
  T3 = T3
  T4 = T4
  o1 = o1
  o2 = o2
  match = match
  nomatch = nomatch
  part = part
  None = None
  Defs <- MCDefs
  Nodes <- MCNodes
  Tests <- MCTests
  Objects <- MCObjects
  Items <- MCItems
  Criteria <- MCCriteria
  NodeType <- MCNodeType
  Subnodes <- MCSubnodes
  Target <- MCTarget
  Negate <- MCNegate
  OperatorSets <- MCOperatorSets
  KnownSubtype <- MCKnownSubtype
  ObjectOf <- MCObjectOf
  Compatible <- MCCompatible
  Existence <- MCExistence
  Check <- MCCheck
  StateOp <- MCStateOp
  States <- MCStates
  ItemsOf <- MCItemsOf
  Status <- MCStatus
  Entities <- MCEntities
  Compare <- MCCompare
  MaxCalls = 2
INVARIANTS FailureNotLost
CHECK_DEADLOCK FALSE
