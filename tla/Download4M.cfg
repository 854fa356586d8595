SPECIFICATION FairSpec
CONSTANTS
  Size = 8
  IntMod = 16
  SeqMod = 3
  BankBlocks = 2
  Banks = 4
  Retry = 3
  MaxSlow = 2
  MayQuit = FALSE
INVARIANT
  EotAfterAll
CHECK_DEADLOCK FALSE
