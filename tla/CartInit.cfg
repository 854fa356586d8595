SPECIFICATION CartSpec
CONSTANTS
  Address <- MCAddress
  Power <- MCPower
  Carts <- MCCarts
  BankBytes = 2
  SearchLimit = 8
  FlashMax = 8
  RomSizes = {3}
  ReadFrom <- MCReadFrom
INVARIANTS
  Addressed
  CartTypeOK
  SizeRight
  BlankRight
PROPERTIES
  HeldAddress
