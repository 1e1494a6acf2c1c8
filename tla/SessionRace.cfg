SPECIFICATION Spec
CONSTANTS
  c1 = c1
  c2 = c2
  p1 = p1
  p2 = p2
  p3 = p3
  D = D
  None = None
  Caller = {c1, c2}
  Pipe = {p1, p2}
  MaxId = 2
  Reuse = FALSE
  Overlap = TRUE
  Cancel = TRUE
CHECK_DEADLOCK FALSE
SYMMETRY Both
INVARIANT ClosedForGood
PROPERTY LeftOpen
