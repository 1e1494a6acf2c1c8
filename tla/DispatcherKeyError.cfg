SPECIFICATION Spec
CONSTANTS
  x1 = x1
  x2 = x2
  p1 = p1
  None = None
  Queue = {x1, x2}
  ProbeQueue = {}
  MaxSeq = 0
  MaxLost = 0
  IgnoreAcked = FALSE
  DropQueues = TRUE
CHECK_DEADLOCK FALSE
INVARIANT DispatcherSurvives
