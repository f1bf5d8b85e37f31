CONSTANTS
  a = a
  b = b
  c = c
  d = d
  Entry = {1, 2, 3, 4}
  Case = {a, b, c, d}
  CaseOf <- Once
  Smoke = {a}
  SerialCase = {d}
  MaxFlakes = 2
  JUnitDir = TRUE
SPECIFICATION FairSpec
INVARIANT TypeOK
INVARIANT SuccessIsEarned
INVARIANT SmokeFirst
INVARIANT ReportMatchesSummary
PROPERTY RunEnds
PROPERTY RetriesWithinFlakes
CHECK_DEADLOCK FALSE
