CONSTANTS
  Cond = {pending, unready}
  MaxRecords = 2
  MaxConditions = 1
  MaxSamples = 2
  MaxSetBacks = 1
SPECIFICATION Spec
SYMMETRY ConditionSymmetry
INVARIANT TypeOK
INVARIANT QueriesExact
INVARIANT PrintedExactlyOnce
CHECK_DEADLOCK FALSE
