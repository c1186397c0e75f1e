CONSTANTS
  Messages = {q1, s1}
  Steers = {s1}
  Steps = 2
  WrapUpAt = 1
  Keep = 1
  MaxTok = 1
  MaxCap = 1
  MaxAsks = 1
  Seeds <- Histories
  Proposals <- Replies
SPECIFICATION Spec
INVARIANTS
  AnsweredAtCall
  HeardBeforeActing
  FoldedInOrder
  ResultsAreEarned
PROPERTIES
  Returns
