SPECIFICATION FairSpec
CONSTANTS
  c1 = c1
  c2 = c2
  p1 = p1
  p2 = p2
  p3 = p3
  D = D
  None = None
  Caller = {c1}
  Pipe = {p1, p2, p3}
  MaxId = 2
  Reuse = TRUE
  Overlap = FALSE
  Cancel = TRUE
CHECK_DEADLOCK FALSE
INVARIANT TypeOK
PROPERTY SubackIsOwn
PROPERTY CloseReleases
PROPERTY LeftOpen
PROPERTY Reconnects
