SPECIFICATION FairSpec
CONSTANTS
  b1 = b1
  b2 = b2
  Byte <- MCByte
  TxBufSize = 2
  EpSize = 3
  Banner <- MCBanner
  AllocTxini <- Either
  MaxBytes = 4
  MaxResets = 2
INVARIANTS
  TypeOK
  NoBusyWait
  Armed
  PostedIntact
PROPERTIES
  ChannelSpec
  CallsReturn
  EveryByteLeaves
