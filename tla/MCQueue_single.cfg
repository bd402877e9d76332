SPECIFICATION FairSpec
CONSTANTS
  MAX_COMMAND_QUEUE_SIZE = 3
  Posters = {p1}
  Getters = {g1, g2}
  NoThread = NoThread
  MaxPosts = 7
  MaxAllocFailures = 0
INVARIANT
  SinglePosterNeverOverruns
PROPERTY
  ImplementsFifo
CHECK_DEADLOCK FALSE
