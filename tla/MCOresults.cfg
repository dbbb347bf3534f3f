SPECIFICATION Spec
CONSTANTS MaxOperands = 5
INVARIANTS TallyTypeOK OperatorsExact ChecksExact TestExistenceExact EntityExistenceExact
CHECK_DEADLOCK FALSE
