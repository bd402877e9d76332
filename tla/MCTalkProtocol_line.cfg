SPECIFICATION MCSpec
CONSTANTS
  Devices = {d}
  Others = {p, q}
  Nobody = Nobody
  QueueSize = 3
  COMM_TIME = 1
  SHAKE_TIME = 2
  TALK_TIME = 2
  RING_TIME = 2
  Reloads = TRUE
  MaxSending = 1
  MaxInputs = 4
INVARIANTS TypeOK LineTimed
PROPERTIES PeerKept LineEnds
CHECK_DEADLOCK FALSE
