SPECIFICATION LiveSpec
CONSTANTS
  d = d  k1 = k1  k3 = k3
  Deferred = {1, 2}
  Charges = {}
  Targets = {}
  Dispatches = {}
  Pollers = {k1}
  Kind <- MCKind
  Poison = {1}
  MaxErrors = 1
  MaxCrashes = 1
PROPERTIES
  EveryLandedIsRecorded
CHECK_DEADLOCK FALSE
