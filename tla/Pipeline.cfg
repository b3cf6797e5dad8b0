SPECIFICATION LiveSpec
CONSTANTS
  q1 = q1  q2 = q2  q3 = q3  NoQuery = NoQuery
  RequestCount = 3
  Priority = {2}
  Queries = {q1, q2, q3}
  Value <- OwnValue
  Risky = {q3}
  ListAnswers = {}
  OriginalPrice = 5000
  HousePrice = 4000
  PriorityDiscount = 10000
  SoloDiscount = 5
  CoordinationFee = 250
  MinBatch = 2
  BreakEven = 2
  MaxBatchSize = 2
  MaxModeChanges = 1
INVARIANTS
  NoForeignAnswer
  NobodyForgotten
  OverchargeNeedsModeChange
PROPERTIES
  BatchEnds
CHECK_DEADLOCK FALSE
