CONSTANTS
  a = a
  b = b
  c = c
  s = s
  r = r
  A = A
  NoClass = NoClass
  NoTest = NoTest
  Test = {a, b, c, s, r}
  Serial = {s, r}
  Worker = {w1, w2, w3}
  Class <- OneClass
SPECIFICATION FairSpec
INVARIANT TypeOK
INVARIANT NoForbiddenOverlap
INVARIANT TestsConserved
INVARIANT QueueNotStranded
PROPERTY ImplementsExecution
PROPERTY ExecutionCompletes
CHECK_DEADLOCK FALSE
