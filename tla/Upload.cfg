SPECIFICATION FairSpec
CONSTANTS
  N = 3
  SeqMod = 3
  PktLen = 3
  RxBufSize = 6
  WaitLimit = 2
  Retry = 2
  Clients <- MCClients
INVARIANTS
  TypeOK
  InStep
  ExactPrefix
  OverrunNeedsDelay
PROPERTIES
  SuccessIsProgrammed
  BothEnd
CHECK_DEADLOCK FALSE
