SPECIFICATION LiveSpec
CONSTANTS
  d = d  k1 = k1  k3 = k3
  Deferred = {3}
  Charges = {1}
  Targets = {2}
  Dispatches = {d}
  Pollers = {k1, k3}
  Kind <- MCKind
  Poison = {}
  MaxErrors = 1
  MaxCrashes = 1
INVARIANTS
  RowAgreesWithChain
  MoneyIsBooked
PROPERTIES
  LandedIsRecorded
CHECK_DEADLOCK FALSE
