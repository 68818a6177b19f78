SPECIFICATION Spec
CONSTANTS
  c1 = c1
  c2 = c2
  e1 = e1
  e2 = e2
  None = None
  Clients = {c1}
  Elements = {e1, e2}
  Mortal = {c1}
  Queries = 3
  Setup = "PIR"
  SleepCovers = FALSE
  WholeWrites = FALSE
  Shape <- TornShape
CHECK_DEADLOCK FALSE
INVARIANT NoOtherAnswer
INVARIANT OneReplyInv
