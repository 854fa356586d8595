SPECIFICATION FairSpec
CONSTANTS
  Script <- MCScript
  AllocTxini <- Either
  MaxResets = 0
  MaxAbandons = 0
PROPERTIES
  StatusPhaseNow
CHECK_DEADLOCK FALSE
