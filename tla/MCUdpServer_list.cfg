SPECIFICATION Spec
CONSTANTS
  r1 = r1
  r2 = r2
  r3 = r3
  Null = Null
  Requests = {r1, r2, r3}
  Id <- SharedId
  Times <- FewTimes
  MAXLIST = 1
  Commands = {c1, c2, c3}
  PACKETS = 2
  MaxHandled = 4
SYMMETRY Symmetry
INVARIANTS
  TypeOK
  CountIsTasks
  ListedUntilReported
  TimeoutMeansTried
  RepeatsAreFar
CHECK_DEADLOCK FALSE
