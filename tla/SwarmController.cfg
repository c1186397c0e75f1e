\* Two shards that are merged or three that are collated, one restart, a fair loop.
CONSTANTS
  a = a
  b = b
  c = c
  Shards <- Trio
  Settings <- MCSettings
  Claims = {c1}
  MergeClaim = merge
  HardMaxPasses = 3
  MaxRestarts = 1
SPECIFICATION FairSpec
INVARIANTS
  CleanIsHonest
  PlanIsAccounted
  TipStaysGreen
PROPERTIES
  RunRowAdvances
  Terminates
CHECK_DEADLOCK FALSE
