CONSTANTS
  UartDepth <- MCUartDepth
  Radix <- MCRadix
  Nums <- MCNums
  Label <- MCLabel
  Size <- MCSize
  Visible = 20
  Blank = 8
  Step = 4
  Width = 4
  Block = 4
  FbBase = 4
  FbSize = 8
SPECIFICATION FairDevicesSpec
INVARIANTS
  DevicesTypeOK
  NothingLost
  NumberReadsBack
  NotTorn
  RangeInMemory
PROPERTIES
  DevicesReturn
