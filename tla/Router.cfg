SPECIFICATION FairSpec
CONSTANTS
  b1 = b1
  b2 = b2
  h1 = h1
  u1 = u1
  d1 = d1
  S = S
  Me = Me
  None = None
  Seed = {b1, b2}
  Late = {h1}
  User = {u1}
  Dest = {d1}
  Flaky = {b2}
  Hints <- MCHints
  Idle = 1
  Retry = 1
  UseCache = {TRUE}
  Overlap = FALSE
CHECK_DEADLOCK FALSE
INVARIANT TypeOK
INVARIANT InboundKept
INVARIANT CloseReleases
PROPERTY EntriesStaySound
 
