SPECIFICATION FairSpec
CONSTANTS
  QueueSize = 32
  TIME_CALLING = 1
  TIME_TALKING = 2
  RecordTime = 1
  NumApps = 1
  Dialers = {}
  Callers = {"app", "entrance"}
  Requests <- CallRequests
  Features = {}
  ResetTimes = {}
  Reloads = FALSE
  MaxInputs = 2
  Callees = {"app", "unknown"}
INVARIANTS
  AnsweredIsTalking
  CallsAreTimed
PROPERTIES
  
  RecordingsEnd
CHECK_DEADLOCK FALSE
