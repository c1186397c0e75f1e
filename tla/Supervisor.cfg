CONSTANTS
  None = None
  a = a
  b = b
  Items = {a, b}
  DependsOn <- OneOnOne
  MaxFaults = 1
  MaxSlices = 2
  MaxCrashes = 1
SPECIFICATION Spec
INVARIANTS
  TipIsGreen
  OnlyPassedWorkIsOnTip
  MergedIsOnTip
  ResumedWorkIsKept
CHECK_DEADLOCK FALSE
