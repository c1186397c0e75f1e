CONSTANTS
  MaxSeq = 2
  MaxBoots = 2
  MaxArms = 2
  MaxFailures = 0
  Keep = 20
  None = None
SPECIFICATION NapSpec
INVARIANT
  NappedWorkIsKept
CHECK_DEADLOCK FALSE
