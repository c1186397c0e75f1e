\* Every graph over three nodes and one undefined id, two fair workers.
CONSTANTS
  a = a
  b = b
  c = c
  NoNode = NoNode
  Nodes <- MCNodes
  Unknown = {ghost}
  Order <- MCOrder
  Workers = {w1, w2}
SPECIFICATION FairSpec
INVARIANTS
  OutcomesExplained
PROPERTIES
  ImplementsContract
  Terminates
\* Run returns: a call that is over takes no further step.
CHECK_DEADLOCK FALSE
