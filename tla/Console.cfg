SPECIFICATION FairSpec
CONSTANTS
  Commands <- MCCommands
  Scripts <- MCScripts
  InitModes <- AnyButEot
  Junk <- MCJunk
  CmdBufSize = 5
  PktLen = 4
  MaxNaks = 2
INVARIANTS
  TypeOK
  CommandsIntact
  TransferInStep
  OwnAnswerFromIdle
PROPERTIES
  SessionEnds
CHECK_DEADLOCK FALSE
