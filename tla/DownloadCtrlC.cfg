SPECIFICATION FairSpec
CONSTANTS
  Size = 7
  IntMod = 16
  SeqMod = 3
  BankBlocks = 2
  Banks = 4
  Retry = 3
  MaxSlow = 2
  MayQuit = TRUE
PROPERTY
  CancelReturns
CHECK_DEADLOCK FALSE
