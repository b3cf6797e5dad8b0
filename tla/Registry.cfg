SPECIFICATION RegistryLiveSpec
CONSTANTS
  x = x  y = y
  Asps = {x, y}
  SideEffects = {y}
  Found = {"A_llm", "manual_review"}
  Fees = {1, 2}
  MaxChanges = 2
  MaxFaults = 1
  MaxNights = 2
  MaxTimer = 1
INVARIANTS
  SideEffectsAreNotShared
PROPERTIES
  FeesConverge
  ListingConverges
CHECK_DEADLOCK FALSE
