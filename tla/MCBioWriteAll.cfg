\* BIO_write_all with a 3-bit int (INT_MAX 3) and buffers of up to 5 bytes.
CONSTANTS
  IntBits = 3
  MaxLen = 5
  MaxBlocks = 2
SPECIFICATION Spec
CHECK_DEADLOCK FALSE
INVARIANTS TypeOK WrittenIsPrefix ResultMeaning
PROPERTIES EventuallySettled
