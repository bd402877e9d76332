SPECIFICATION Spec
CONSTANTS
  QueueSize = 32
  TIME_CALLING = 1
  TIME_TALKING = 2
  RecordTime = 1
  NumApps = 1
  Dialers = {d1}
  Callers = {}
  Requests <- CallOutAllRequests
  Features = {}
  ResetTimes = {}
  Reloads = FALSE
  MaxInputs = 1
  Callees = {}
PROPERTIES
  ResultsAreProcessed
CHECK_DEADLOCK FALSE
