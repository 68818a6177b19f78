\* Thirty-two bytes are all that the offset can count, so that larger
\* databases wrap it.
SPECIFICATION Spec
CONSTANTS
  Configs <- AllFlags
  OffsetRange = 32
  CoeffBits = 60
INVARIANTS
  TypeOK
  ElementRetrieved
  MatrixIsFull
  AssertionsHold
  PackedOnce
