SPECIFICATION CrashLiveSpec
CONSTANTS
  r1 = r1  r2 = r2  r3 = r3  f1 = f1  f2 = f2
  Requests = {r1, r2}
  Sweepers = {s1}
  Fps = {f1}
  Fp <- PairAlike
  Priority = {}
  DedupSafe = {r1, r2}
  BreakEven = 2
  MaxDepth = 0
  TTL = TRUE
  None = None
  MaxCrashes = 2
INVARIANTS
  NoLostWork
  OnePlace
PROPERTIES
  ServedIsFinalAcrossCrashes
  EventuallyTerminal
