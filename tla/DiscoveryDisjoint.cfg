SPECIFICATION Spec
CONSTANTS
  n1 = n1
  n2 = n2
  b1 = b1
  b2 = b2
  b3 = b3
  None = None
  Node = {n1, n2}
  Broker = {b1, b2}
  Score <- MCScore
  MaxTries = 2
  MayFail = FALSE
  RetryEnabled = TRUE
  Pipes <- MCPipes
  MaxEnds = 0
CHECK_DEADLOCK FALSE
INVARIANT Meet
