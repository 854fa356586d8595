SPECIFICATION FairSpec
CONSTANTS
  Script <- MCScript
  AllocTxini <- Either
  MaxResets = 2
  MaxAbandons = 2
INVARIANTS
  TypeOK
  HostAgrees
  AnswersOwn
PROPERTIES
  Enumerates
CHECK_DEADLOCK FALSE
