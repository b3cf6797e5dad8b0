SPECIFICATION Spec
CONSTANTS
  c1 = c1  c2 = c2  low = low  op = op  a1 = a1  a2 = a2
  None = None  Unsound = Unsound
  Calls = {c1, c2}
  Auths = {a1, a2}
  Auth <- MCAuth
  Worth <- MCWorth
  Ceiling = 2
  MaxFaults = 1
  MaxCrashes = 1
INVARIANTS
  DriftSurfaces
CHECK_DEADLOCK FALSE
