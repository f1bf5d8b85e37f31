CONSTANTS
  MaxEvents = 1
  MaxFailures = 0
  System = {1}
SPECIFICATION FairWatch
PROPERTY StopsWithContext
CHECK_DEADLOCK FALSE
