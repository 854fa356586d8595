SPECIFICATION FairSpec
CONSTANTS
  Chips <- MCChips
  Contents <- MCContents
  Images <- MCImages
  Banks = 2
  BankLen = 16
  PktLen = 4
INVARIANTS
  TypeOK
  DetectionRight
  ReadMode
PROPERTIES
  StoreSpec
  CommandsReturn
CHECK_DEADLOCK FALSE
