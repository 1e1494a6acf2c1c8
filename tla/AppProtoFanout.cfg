SPECIFICATION Spec
CONSTANTS
  na = na
  nc = nc
  q1 = q1
  q2 = q2
  m1 = m1
  m2 = m2
  b1 = b1
  b2 = b2
  t1 = t1
  t2 = t2
  None = None
  Node = {na, nc}
  Broker = {b1, b2}
  Queue = {q1, q2}
  Text = {m1, m2}
  PipeRequest <- OnePipe
  QueueRequest <- NoRequest
  Task = {t1, t2}
  Republish = 1
  Tps = 2
  Skew <- SenderAhead
  MaxTime = 7
  AwaitAcks = TRUE
  MaxLoss = 0
  PromptHash = TRUE
CHECK_DEADLOCK FALSE
SYMMETRY Tasks
PROPERTY DedupWindow
PROPERTY RepeatsEnd
PROPERTY ImplementsContract
