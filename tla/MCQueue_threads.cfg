SPECIFICATION Spec
CONSTANTS
  MAX_COMMAND_QUEUE_SIZE = 2
  Posters = {p1, p2}
  Getters = {g1, g2}
  NoThread = NoThread
  MaxPosts = 5
  MaxAllocFailures = 1
SYMMETRY Symmetry
INVARIANTS
  TypeOK
  OverrunIsBounded
  RingHoldsTheUnread
  TokensAreMessages
PROPERTIES
  LeavesInOrder
  FifoUntilOverrun
CHECK_DEADLOCK FALSE
