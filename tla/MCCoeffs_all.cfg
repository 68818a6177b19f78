SPECIFICATION Spec
CONSTANTS
  Inputs <- ByteStrings
  Limits = {1, 3, 5, 7, 8, 9, 12}
  CoeffCount = 24
INVARIANTS
  TypeOK
  PackedBits
  RoundTrip
  InStep
  TargetFits
  BitsInv
