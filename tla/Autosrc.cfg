CONSTANTS
  None = None
  o1 = o1
  o2 = o2
  Objectives = {o1}
  Before <- MCBefore
  Files = {f1}
  Slots = {h1}
  QueueCap = 2
  MinPeriod = 2
  RetryPeriod = 1
  MaxTime = 2
  MaxRestarts = 1
SPECIFICATION DaemonSpec
INVARIANTS
  NothingIsDropped
PROPERTIES
  Debounced
  ShutdownEnds
CHECK_DEADLOCK FALSE
