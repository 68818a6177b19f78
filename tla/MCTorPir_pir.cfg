SPECIFICATION FairSpec
CONSTANTS
  c1 = c1
  c2 = c2
  e1 = e1
  e2 = e2
  None = None
  Clients = {c1}
  Elements = {e1, e2}
  Mortal = {}
  Queries = 3
  Setup = "PIR"
  SleepCovers = TRUE
  WholeWrites = TRUE
  Shape <- LongShape
INVARIANT AnswerIsElementAsked
PROPERTY ImplementsQueryService
PROPERTY EveryClientFinishes
