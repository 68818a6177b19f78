SPECIFICATION FairSpec
CONSTANTS
  c1 = c1
  c2 = c2
  e1 = e1
  e2 = e2
  None = None
  Clients = {c1, c2}
  Elements = {e1, e2}
  Mortal = {c1}
  Queries = 2
  Setup = "PIR"
  SleepCovers = TRUE
  WholeWrites = TRUE
  Shape <- ShortShape
INVARIANT IInv
INVARIANT ReplyUnderOwnKeys
INVARIANT SleepInv
PROPERTY KeysWrittenOnce
PROPERTY EveryClientEnds
