SPECIFICATION Spec
CONSTANTS
  d = d  k1 = k1  k3 = k3
  Deferred = {1}
  Charges = {}
  Targets = {2}
  Dispatches = {}
  Pollers = {k3}
  Kind <- MCKind
  Poison = {}
  MaxErrors = 1
  MaxCrashes = 1
INVARIANTS
  LostMoneyIsNeverSilent
CHECK_DEADLOCK FALSE
