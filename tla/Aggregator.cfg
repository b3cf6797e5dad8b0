SPECIFICATION Spec
CONSTANTS
  r1 = r1  r2 = r2  r3 = r3  f1 = f1  f2 = f2
  Requests = {r1, r2, r3}
  Sweepers = {s1}
  Fps = {f1}
  Fp <- AllAlike
  Priority = {}
  DedupSafe = {r1, r2, r3}
  BreakEven = 2
  MaxDepth = 1
  TTL = FALSE
  None = None
INVARIANTS
  NoStrandedRequest
  NoLostRequest
  DeliveredIsSettled
  SlotOwnerPending
PROPERTIES
  ImplementsLifecycle
SYMMETRY AlikeSymmetry
