SPECIFICATION Spec
CONSTANTS
  c1 = c1  c2 = c2  t1 = t1
  Calls = {c1, c2}
  NodeCount = 2
  Topics = {t1}
  Budget = 2
  RoomTurnLimit = 3
  AgentTurnLimit = 2
  WorkCosts = {1}
  HelperPrice = 2
  ReplacementPrice = 2
  Overspent = 4
INVARIANTS
  SkippedIsHandled
  ChainWithinCap
  ChainPaysOnce
PROPERTIES
  EventuallyReturns
CHECK_DEADLOCK FALSE
