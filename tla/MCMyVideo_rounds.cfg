SPECIFICATION Spec
CONSTANTS
  QueueSize = 32
  TIME_CALLING = 1
  TIME_TALKING = 2
  RecordTime = 1
  NumApps = 1
  Dialers = {d1, d2}
  Callers = {}
  Requests <- CallOutAllRequests
  Features = {"Connection"}
  ResetTimes = {1}
  Reloads = FALSE
  MaxInputs = 2
  Callees = {}
SYMMETRY Symmetry
INVARIANTS
  CalloutAllIsDialled
CHECK_DEADLOCK FALSE
