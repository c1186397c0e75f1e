CONSTANTS
  Workers = {w1, w2}
  Supervisor = Supervisor
  Reader = Reader
  Depth = 1
  MaxMessages = 3
  MaxSends = 2
  None = None
SPECIFICATION Spec
INVARIANTS
  NeverIntoClosed
  ReplyFindsItsAsk
PROPERTIES
  StopEnds
CHECK_DEADLOCK FALSE
