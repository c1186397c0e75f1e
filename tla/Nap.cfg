CONSTANTS
  MaxSeq = 2
  MaxBoots = 2
  MaxArms = 2
  MaxFailures = 1
  Keep = 1
  None = None
SPECIFICATION NapSpec
INVARIANTS
  WakeFiresOnce
  SleeperKeepsItsAnchor
  InFlightIsLive
PROPERTIES
  DueWakeIsRun
CHECK_DEADLOCK FALSE
