SPECIFICATION Spec
CONSTANTS
  q1 = q1  q2 = q2  q3 = q3  NoQuery = NoQuery
  RequestCount = 2
  Priority = {}
  Queries = {q1, q2, q3}
  Value <- OwnValue
  Risky = {q3}
  ListAnswers = {q1}
  OriginalPrice = 5000
  HousePrice = 4000
  PriorityDiscount = 10000
  SoloDiscount = 5
  CoordinationFee = 250
  MinBatch = 2
  BreakEven = 2
  MaxBatchSize = 2
  MaxModeChanges = 0
INVARIANTS
  NoForeignAnswer
CHECK_DEADLOCK FALSE
