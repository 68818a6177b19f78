SPECIFICATION Spec
CONSTANTS
  c1 = c1
  c2 = c2
  e1 = e1
  e2 = e2
  None = None
  Clients = {c1, c2}
  Elements = {e1, e2}
  Mortal = {}
  Queries = 1
  Setup = "Plain"
  SleepCovers = TRUE
  WholeWrites = FALSE
  Shape <- TinyShape
INVARIANT NoOtherAnswer
