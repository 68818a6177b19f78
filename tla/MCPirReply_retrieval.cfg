SPECIFICATION Spec
CONSTANTS
  N = 4
  logt = 2
  logq = 5
  Flags <- AllFlags
  Plain <- TwoEqual
  Seeds = {1, 2}
  Words <- MixedWords
  Garbled <- OtherPlain
INVARIANTS
  TypeOK
  SelectorsAreUnit
  ScalesUndone
  PlaintextRetrieved
  WrongScaleShows
  FailureExplained
  ProgramServes
  RetrievalInv
PROPERTY
  ImplementsPlaintextService
