SPECIFICATION IntercomSpec
CONSTANTS
  Devices = {a, b}
  Others = {}
  Nobody = Nobody
  QueueSize = 2
  COMM_TIME = 1
  SHAKE_TIME = 1
  TALK_TIME = 2
  RING_TIME = 1
  Reloads = FALSE
  MaxSending = 0
  Callers = {a}
  Answerers = {b}
  Hangers = {}
  MaxInputs = 2
PROPERTIES TalkEnds
CHECK_DEADLOCK FALSE
