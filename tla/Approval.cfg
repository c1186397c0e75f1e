CONSTANTS
  Deciders = {p, q}
  None = None
  Approvers = {a, b}
  Families = {f}
  MinSuccesses = 1
  MinSample = 1
  MaxPerDay = 3
  MaxDollarsDay = 3
  IrrevCeiling = 2
  DayCeiling = 1
  Costs <- MCCosts
  Days = 2
  MaxRuns = 2
  MaxLost = 1
  MaxOutcomes = 1
SYMMETRY MCSymmetry
SPECIFICATION Spec
INVARIANTS
  CeilingsHold
  FenceIsExact
  SlotsComeBack
CHECK_DEADLOCK FALSE
