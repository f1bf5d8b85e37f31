CONSTANTS
  MaxEvents = 3
  MaxFailures = 2
  System = {1, 3}
SPECIFICATION FairWatch
INVARIANT WatchTypeOK
INVARIANT RecordedExactly
PROPERTY KeepsRecording
CHECK_DEADLOCK FALSE
