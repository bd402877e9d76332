SPECIFICATION FairSpec
CONSTANTS
  r1 = r1
  r2 = r2
  r3 = r3
  Null = Null
  Requests = {r2, r3}
  Id <- SharedId
  Times <- FewTimes
  MAXLIST = 2
  Commands = {}
  PACKETS = 2
  MaxHandled = 0
INVARIANTS
  SuccessIsAnswered
PROPERTIES
  RequestsEnd
CHECK_DEADLOCK FALSE
