SPECIFICATION FairSpec
CONSTANTS
  Commands <- MCCommands
  Scripts <- MCScripts
  InitModes <- UploadOnly
  Junk <- MCJunk
  CmdBufSize = 5
  PktLen = 4
  MaxNaks = 2
INVARIANTS
  OwnAnswer
CHECK_DEADLOCK FALSE
