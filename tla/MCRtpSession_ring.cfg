SPECIFICATION MCSpec
CONSTANTS
  MallocCnt = 2
  MaxFrames = 6
  MaxConnects = 2
INVARIANTS TypeOK SlotsApart RingOutlivesThread RingNeverStuck
PROPERTIES FramesInOrder 
CHECK_DEADLOCK FALSE
