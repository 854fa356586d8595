SPECIFICATION Spec
CONSTANTS
  b1 = b1
  b2 = b2
  b3 = b3
  Byte <- MCByte
  RxBufSize = 5
  OutEpSize = 2
INVARIANTS
  TypeOK
PROPERTIES
  FifoSpec
