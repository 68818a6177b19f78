SPECIFICATION Spec
CONSTANTS
  ele_num = 2
  ele_size = 4
  ByteValues <- DelimiterAndOther
INVARIANTS TypeOK ElementArrives
