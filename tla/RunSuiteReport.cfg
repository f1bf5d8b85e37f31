CONSTANTS
  a = a
  b = b
  c = c
  d = d
  Entry = {1, 2, 3, 4}
  Case = {a, b, c, d}
  CaseOf <- Once
  Smoke = {a}
  SerialCase = {d}
  MaxFlakes = 1
  JUnitDir = TRUE
SPECIFICATION Spec
INVARIANT ReportCountsTests
CHECK_DEADLOCK FALSE
