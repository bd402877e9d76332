SPECIFICATION Spec
CONSTANTS
  QueueSize = 3
  TIME_CALLING = 1
  TIME_TALKING = 2
  RecordTime = 1
  NumApps = 1
  Dialers = {}
  Callers = {"app"}
  Requests <- RecordRequests
  Features = {"Display"}
  ResetTimes = {}
  Reloads = FALSE
  MaxInputs = 4
  Callees = {}
INVARIANTS
  TypeOK
  TransientStatesEnd
  
  RecordingIsOn
  RecorderWritesFile
  
  RecordingsAreTimed
  
CHECK_DEADLOCK FALSE
