CONSTANTS
  Callers = {v, w}
  N = 2
  Streamers = {1}
  Cap = 2
  MaxRetries = 1
  Threshold = 2
  Cooldown = 1
  Prices <- MCPrices
  TaskCeiling = 2
  GlobalCeiling = 3
  MaxCalls = 2
  MaxTime = 2
SYMMETRY MCSymmetry
SPECIFICATION CallsSpec
INVARIANTS
  PaintedIsReturned
  CancelsDontTrip
  LedgerIsExact
CHECK_DEADLOCK FALSE
