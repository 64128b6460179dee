CONSTANTS
  root1 = root1
  root2 = root2
  chain1 = chain1
  chain2 = chain2
  Calls = {root1, chain1}
  NoCall = NoCall
  Parent <- MCParent
  MaxAnswers = 2
  LimitsInOrder = TRUE
SPECIFICATION FairSpec
INVARIANT NoLostWakeup
INVARIANT RefusedOnlyWhenOver
PROPERTY ImplementsRequestReply
PROPERTY CancelUnwinds
PROPERTY EveryCallReturns
CHECK_DEADLOCK FALSE
