SPECIFICATION FairSpec
CONSTANTS
  Radix = 2
  Packet <- MCPacket
  Msg <- MCMsg
  Known = {1, 2, 3}
  Handler = {h1, h2}
  Reader = {k1, k2}
  Boundary <- MCBoundary
  MaxSent = 2
  MaxConns = 1
  None = None
CHECK_DEADLOCK FALSE
INVARIANT TypeOK
INVARIANT VarintExact
INVARIANT Framed
INVARIANT CalledOnce
PROPERTY PacketsRead
PROPERTY HandlersReached
