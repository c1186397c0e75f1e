\* Crashes, short writes, lost mirror rows, failed heals and rotations.
CONSTANTS
  MaxAppends = 5
  MaxFaults = 3
  MaxRotations = 2
SPECIFICATION Spec
INVARIANTS
  VerifyIsHonest
  CrashesLoseNothing
