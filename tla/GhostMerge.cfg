SPECIFICATION Spec
CONSTANTS
  a = a  b = b  c = c  d = d  f = f  g = g  h = h
  None = None
  Requests = {a, b, c, d}
  Fp <- MCFp
  Near <- MCNear
  Overlap <- MCOverlap
  MaxDepth = 2
INVARIANT
  NoGhostMerge
CHECK_DEADLOCK FALSE
