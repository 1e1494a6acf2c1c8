SPECIFICATION FairSpec
CONSTANTS
  na = na
  nc = nc
  q1 = q1
  q2 = q2
  m1 = m1
  m2 = m2
  b1 = b1
  b2 = b2
  t1 = t1
  t2 = t2
  None = None
  Node = {na, nc}
  Broker = {b1}
  Queue = {q1, q2}
  Text = {m1, m2}
  PipeRequest <- NoRequest
  QueueRequest <- TwoInOrder
  Task = {t1, t2}
  Republish = 2
  Tps = 1
  Skew <- NoSkew
  MaxTime = 1
  AwaitAcks = TRUE
  MaxLoss = 2
  PromptHash = TRUE
CHECK_DEADLOCK FALSE
INVARIANT TypeOK
INVARIANT OrderedHandOff
PROPERTY AckPruneSafe
PROPERTY EveryRequestConfirmed
